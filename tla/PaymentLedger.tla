--------------------------- MODULE PaymentLedger ---------------------------
(***************************************************************************)
(* What a payment promises the customer and the till, without requests,    *)
(* routers and tickets' lives.  A payment waits, is honoured once by what  *)
(* it bought, or is refused.  A ticket is sold before it is paid; a period *)
(* is owed from the moment it is paid, and is added once or is lost; each  *)
(* answer of the router that is lost on the way may add one more.          *)
(***************************************************************************)
EXTENDS Integers

CONSTANTS
  References,  \* payments
  Codes,       \* tickets
  Noms,        \* those that a customer reserves
  SansCode,    \* no ticket
  MaxRetries   \* answers that one addition may lose

VARIABLES
  etat,     \* per payment: ABSENT, PENDING, VERIFIED or REJECTED
  objet,    \* the ticket it is bound to, or SansCode
  rachats,  \* payments that buy a period of a ticket that exists
  servis,   \* per payment, the tickets sold for it
  dus,      \* payments whose period is still to add
  periodes, \* per payment, periods added
  renvois   \* those among them that lost answers have added

vars == <<etat, objet, rachats, servis, dus, periodes, renvois>>

Init ==
  /\ etat = [r \in References |-> "ABSENT"]
  /\ objet = [r \in References |-> SansCode]
  /\ rachats = {}
  /\ servis = [r \in References |-> {}]
  /\ dus = {}
  /\ periodes = [r \in References |-> 0]
  /\ renvois = [r \in References |-> 0]

\* A payment is recorded, for a ticket it reserves alone, for none in particular,
\* or for a period.
Inscrire(r, v, rachat) ==
  /\ etat[r] = "ABSENT"
  /\ v # SansCode => v \in Noms /\ \A s \in References : objet[s] # v
  /\ rachat => v = SansCode
  /\ etat' = [etat EXCEPT ![r] = "PENDING"]
  /\ objet' = [objet EXCEPT ![r] = v]
  /\ rachats' = IF rachat THEN rachats \union {r} ELSE rachats
  /\ UNCHANGED <<servis, dus, periodes, renvois>>

\* A ticket is sold for a payment: the one it reserves, or any that nobody reserved.
\* The payment may meanwhile have been refused, or honoured by another ticket.
Servir(r, v) ==
  /\ etat[r] # "ABSENT" /\ r \notin rachats
  /\ v \in Noms \/ objet[r] \in Noms => v = objet[r]
  /\ servis' = [servis EXCEPT ![r] = @ \union {v}]
  /\ UNCHANGED <<etat, objet, rachats, dus, periodes, renvois>>

\* It is honoured by a ticket that was sold for it and honours no other payment.
HonorerParTicket(r, v) ==
  /\ etat[r] = "PENDING" /\ r \notin rachats
  /\ v \in servis[r] /\ objet[r] \in {SansCode, v}
  /\ \A s \in References \ {r} : objet[s] # v
  /\ etat' = [etat EXCEPT ![r] = "VERIFIED"]
  /\ objet' = [objet EXCEPT ![r] = v]
  /\ UNCHANGED <<rachats, servis, dus, periodes, renvois>>

\* It is honoured by a period, owed from then on.
HonorerParPeriode(r) ==
  /\ etat[r] = "PENDING" /\ r \in rachats
  /\ etat' = [etat EXCEPT ![r] = "VERIFIED"]
  /\ dus' = dus \union {r}
  /\ UNCHANGED <<objet, rachats, servis, periodes, renvois>>

Ajouter(r, perdues) ==
  /\ r \in dus
  /\ dus' = dus \ {r}
  /\ periodes' = [periodes EXCEPT ![r] = @ + 1 + perdues]
  /\ renvois' = [renvois EXCEPT ![r] = @ + perdues]
  /\ UNCHANGED <<etat, objet, rachats, servis>>

\* The ticket takes no period, or the verification is cut short.
Perdre(r) ==
  /\ r \in dus
  /\ dus' = dus \ {r}
  /\ UNCHANGED <<etat, objet, rachats, servis, periodes, renvois>>

\* A refusal waits for nothing: it may come after the payment was honoured.
Refuser(r) ==
  /\ etat[r] # "ABSENT"
  /\ etat' = [etat EXCEPT ![r] = "REJECTED"]
  /\ UNCHANGED <<objet, rachats, servis, dus, periodes, renvois>>

Next ==
  \E r \in References :
    \/ \E v \in Codes \union {SansCode}, rachat \in BOOLEAN : Inscrire(r, v, rachat)
    \/ \E v \in Codes : Servir(r, v) \/ HonorerParTicket(r, v)
    \/ HonorerParPeriode(r) \/ Perdre(r) \/ Refuser(r)
    \/ \E perdues \in 0..MaxRetries : Ajouter(r, perdues)

Spec == Init /\ [][Next]_vars
=============================================================================
