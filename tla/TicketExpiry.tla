---------------------------- MODULE TicketExpiry ----------------------------
(***************************************************************************)
(* The end of one ticket that has a User Manager account, and its renewal. *)
(*                                                                         *)
(* Three parties cut the access of an expired ticket with the same calls,  *)
(* RouterAccessService.revoke: the minute job (ExpiryJobService), the      *)
(* quarter-hour reconciliation (VoucherReconciliationService) and the      *)
(* replay of a deferred COUPER_ACCES (RouterOperationQueue).  A verified   *)
(* payment prolongs it meanwhile (VouchersService.renouveler).  Every call *)
(* of theirs to the router or to the database is a step of its own.        *)
(*                                                                         *)
(* The router answers, is refused by the breaker (the caller receives      *)
(* RouterUnreachableException) or fails in another way: a timeout or a     *)
(* broken link while the breaker is still closed, an error of RouterOS.    *)
(* Dates are kept as the time that is left before them, Aucune for null.   *)
(***************************************************************************)
EXTENDS Integers

CONSTANTS
  Duree,           \* what one period of the plan lasts, in ticks
  MaxRetries,      \* times a request of the router is sent again
  MaxRenouvellements, \* renewals that are explored (bound)
  MaxRedemarrages     \* restarts that are explored (bound)

ASSUME ConstantesTicket ==
  /\ Duree \in Nat \ {0}
  /\ MaxRetries \in Nat
  /\ MaxRenouvellements \in Nat
  /\ MaxRedemarrages \in Nat

Coupeurs == {"expiration", "rapprochement", "file"}

Aucune == -1
Vieillir(date) == IF date > 0 THEN date - 1 ELSE date
PlusTard(d, e) == IF d > e THEN d ELSE e

VARIABLES
  ticket,   \* the row: status, expiresAt
  compte,   \* on the router: end-time (fin) and disabled
  cookie,   \* the router holds a cookie of the account
  session,  \* the account has an open session
  enFile,   \* a COUPER_ACCES of the account waits in router_operations
  coupe,    \* per party: how far it is, and whether its list found something
  lu,       \* what the reconciliation has read: the row, then the end-time
  renouv,   \* the renewal: how far it is, expiresAt as read, end-time returned
  achats, redemarrages, \* renewals and restarts so far
  oubli     \* why nobody answers for the ticket's access, "non" if somebody
            \* does; not in the code

appareil == <<cookie, session>>
compteurs == <<achats, redemarrages>>
vars == <<ticket, compte, appareil, enFile, coupe, lu, renouv, compteurs, oubli>>

AuRepos == [etape |-> "repos", vu |-> FALSE]
RienLu == [status |-> "SOLD", expiresAt |-> Aucune, fin |-> Aucune, echu |-> FALSE]
SansRenouv == [etape |-> "repos", expiresAt |-> Aucune, rendue |-> Aucune]

\* A ticket that was just sold online: the account exists, its calendar starts
\* at the first connection.
Init ==
  /\ ticket = [status |-> "SOLD", expiresAt |-> Aucune]
  /\ compte = [fin |-> Aucune, disabled |-> FALSE]
  /\ cookie = FALSE /\ session = FALSE
  /\ enFile = FALSE
  /\ coupe = [a \in Coupeurs |-> AuRepos]
  /\ lu = RienLu
  /\ renouv = SansRenouv
  /\ achats = 0 /\ redemarrages = 0
  /\ oubli = "non"

EnVente == ticket.status \in {"SOLD", "ACTIVE"}
AccesOuvert == cookie \/ session
EtapesDeCoupure == {"compte", "cookies", "effacement", "sessions", "fermeture"}
EnCoupure == {a \in Coupeurs : coupe[a].etape \in EtapesDeCoupure}

A(a, etape) == coupe' = [coupe EXCEPT ![a] = [AuRepos EXCEPT !.etape = etape]]

\* What one request to assign the profile may put on the account: a period for
\* each time it was sent.
Empilees == {Duree * n : n \in 1..(1 + MaxRetries)}

-----------------------------------------------------------------------------
\* The customer and the router.  A login goes through RADIUS and leaves a
\* cookie; a cookie opens a session without RADIUS, whatever the account.  The
\* first one starts the calendar of what the sale has assigned.
SeConnecter ==
  /\ ~session /\ ~compte.disabled /\ compte.fin # 0
  /\ session' = TRUE /\ cookie' = TRUE
  /\ \E d \in Empilees : compte' = [compte EXCEPT !.fin = IF @ = Aucune THEN d ELSE @]
  /\ UNCHANGED <<ticket, enFile, coupe, lu, renouv, compteurs, oubli>>

RevenirParCookie ==
  /\ cookie /\ ~session
  /\ session' = TRUE
  /\ UNCHANGED <<ticket, compte, cookie, enFile, coupe, lu, renouv, compteurs, oubli>>

Partir ==
  /\ \/ session' = FALSE /\ UNCHANGED cookie
     \/ cookie' = FALSE /\ UNCHANGED session
  /\ UNCHANGED <<ticket, compte, enFile, coupe, lu, renouv, compteurs, oubli>>

Tick ==
  /\ ticket' = [ticket EXCEPT !.expiresAt = Vieillir(@)]
  /\ compte' = [compte EXCEPT !.fin = Vieillir(@)]
  /\ lu' = [lu EXCEPT !.expiresAt = Vieillir(@), !.fin = Vieillir(@)]
  /\ renouv' = [renouv EXCEPT !.expiresAt = Vieillir(@), !.rendue = Vieillir(@)]
  /\ UNCHANGED <<appareil, enFile, coupe, compteurs, oubli>>

\* A party that marks the ticket expired answers for its access from there,
\* unless the mark is out of date; what others have lost meanwhile stays lost.
Constat ==
  IF compte.fin # 0 THEN "perime" ELSE IF EnCoupure = {} THEN "non" ELSE oubli

-----------------------------------------------------------------------------
\* ExpiryJobService.runForTenant: findMany of what is due...
LireEchus ==
  /\ coupe["expiration"].etape = "repos"
  /\ EnVente /\ ticket.expiresAt = 0
  /\ A("expiration", "marquage")
  /\ UNCHANGED <<ticket, compte, appareil, enFile, lu, renouv, compteurs, oubli>>

\* ... then the update by id, before any call to the router.  Marking a ticket
\* that was prolonged meanwhile takes it from the sight of every later pass.
\* (Mutated form of MarquerExpire: only once the router has been reached.)
MarquerSiJoignable ==
  /\ coupe["expiration"].etape = "marquage"
  /\ \/ /\ ticket' = [ticket EXCEPT !.status = "EXPIRED"]
        /\ A("expiration", "cookies")
        /\ oubli' = Constat
     \/ /\ A("expiration", "repos")
        /\ UNCHANGED <<ticket, oubli>>
  /\ UNCHANGED <<compte, appareil, enFile, lu, renouv, compteurs>>

MarquerExpire ==
  /\ coupe["expiration"].etape = "marquage"
  /\ ticket' = [ticket EXCEPT !.status = "EXPIRED"]
  /\ A("expiration", "cookies")
  /\ oubli' = Constat
  /\ UNCHANGED <<compte, appareil, enFile, lu, renouv, compteurs>>

-----------------------------------------------------------------------------
\* VoucherReconciliationService.reconcileTenant: the candidates, ...
LireCandidats ==
  /\ coupe["rapprochement"].etape = "repos"
  /\ EnVente
  /\ lu' = [RienLu EXCEPT !.status = ticket.status, !.expiresAt = ticket.expiresAt]
  /\ A("rapprochement", "lecture")
  /\ UNCHANGED <<ticket, compte, appareil, enFile, renouv, compteurs, oubli>>

\* What becomes of a row that was read as l, the end-time included.
Rapproche(l) ==
  [status |-> IF l.echu THEN "EXPIRED"
              ELSE IF l.fin # Aucune /\ l.status = "SOLD" THEN "ACTIVE"
              ELSE l.status,
   expiresAt |-> l.fin]

\* ... the assignments and the clock of the router (an exception ends the pass:
\* nothing was written), with the judgement "expired"; a row that would not
\* change is passed over ...
LireRouteur ==
  LET l == [lu EXCEPT !.fin = compte.fin, !.echu = (compte.fin = 0)]
  IN
  /\ coupe["rapprochement"].etape = "lecture"
  /\ \/ /\ Rapproche(l) # [status |-> l.status, expiresAt |-> l.expiresAt]
        /\ lu' = l
        /\ A("rapprochement", "ecriture")
     \/ /\ lu' = RienLu
        /\ A("rapprochement", "repos")
  /\ UNCHANGED <<ticket, compte, appareil, enFile, renouv, compteurs, oubli>>

\* ... and the update by id, from what was read of the row and of the router.
Recopier ==
  /\ coupe["rapprochement"].etape = "ecriture"
  /\ ticket' = Rapproche(lu)
  /\ A("rapprochement", IF lu.echu THEN "cookies" ELSE "repos")
  /\ oubli' = IF lu.echu THEN Constat ELSE oubli
  /\ lu' = RienLu
  /\ UNCHANGED <<compte, appareil, enFile, renouv, compteurs>>

-----------------------------------------------------------------------------
\* RouterOperationQueue.drain takes the waiting operation up.
Rejouer ==
  /\ coupe["file"].etape = "repos"
  /\ enFile
  /\ A("file", "compte")
  /\ UNCHANGED <<ticket, compte, appareil, enFile, lu, renouv, compteurs, oubli>>

\* RouterAccessService.revoke.  The replay disables the account first
\* (disableAccount: true), the two jobs do not; then cookies, then sessions.
DesactiverCompte(a) ==
  /\ coupe[a].etape = "compte"
  /\ compte' = [compte EXCEPT !.disabled = TRUE]
  /\ A(a, "cookies")
  /\ UNCHANGED <<ticket, appareil, enFile, lu, renouv, compteurs, oubli>>

\* revoke returns; the operation that was replayed is closed.
Achever(a) ==
  /\ A(a, "repos")
  /\ enFile' = (enFile /\ a # "file")

\* (Mutated form of ListerCookies: revoke only closes sessions.)
OublierLesCookies(a) ==
  /\ coupe[a].etape = "cookies"
  /\ A(a, "effacement")
  /\ UNCHANGED <<ticket, compte, appareil, enFile, lu, renouv, compteurs, oubli>>

ListerCookies(a) ==
  /\ coupe[a].etape = "cookies"
  /\ coupe' = [coupe EXCEPT ![a] = [etape |-> "effacement", vu |-> cookie]]
  /\ UNCHANGED <<ticket, compte, appareil, enFile, lu, renouv, compteurs, oubli>>

\* What was listed is deleted; an error there is logged and forgotten.
EffacerCookies(a) ==
  /\ coupe[a].etape = "effacement"
  /\ A(a, "sessions")
  /\ \/ cookie' = (cookie /\ ~coupe[a].vu) /\ UNCHANGED oubli
     \/ coupe[a].vu /\ oubli' = "avale" /\ UNCHANGED cookie
  /\ UNCHANGED <<ticket, compte, session, enFile, lu, renouv, compteurs>>

ListerSessions(a) ==
  /\ coupe[a].etape = "sessions"
  /\ coupe' = [coupe EXCEPT ![a] = [etape |-> "fermeture", vu |-> session]]
  /\ UNCHANGED <<ticket, compte, appareil, enFile, lu, renouv, compteurs, oubli>>

FermerSessions(a) ==
  /\ coupe[a].etape = "fermeture"
  /\ Achever(a)
  /\ \/ session' = (session /\ ~coupe[a].vu) /\ UNCHANGED oubli
     \/ coupe[a].vu /\ oubli' = "avale" /\ UNCHANGED session
  /\ UNCHANGED <<ticket, compte, cookie, lu, renouv, compteurs>>

\* The exceptions of revoke.  RouterUnreachableException: the jobs defer the
\* cut, and enqueue takes an equal operation that waits, be it under replay, for
\* this one.  Any other one leaves runForTenant or reconcileTenant.  The queue keeps
\* its operation for another time, or gives it up after MAX_ATTEMPTS.
AppelQuiLeve(a) == coupe[a].etape \in {"compte", "cookies", "sessions"}

Injoignable(a) ==
  /\ AppelQuiLeve(a) /\ a # "file"
  /\ enFile' = TRUE
  /\ A(a, "repos")
  /\ oubli' = IF enFile /\ coupe["file"].etape # "repos" THEN "doublon" ELSE oubli
  /\ UNCHANGED <<ticket, compte, appareil, lu, renouv, compteurs>>

AutreErreur(a) ==
  /\ AppelQuiLeve(a) /\ a # "file"
  /\ A(a, "repos")
  /\ oubli' = "erreur"
  /\ UNCHANGED <<ticket, compte, appareil, enFile, lu, renouv, compteurs>>

EchecDuRejeu ==
  /\ AppelQuiLeve("file")
  /\ A("file", "repos")
  /\ \/ UNCHANGED <<enFile, oubli>>
     \/ enFile' = FALSE /\ oubli' = "abandon"
  /\ UNCHANGED <<ticket, compte, appareil, lu, renouv, compteurs>>

-----------------------------------------------------------------------------
\* VouchersService.renouveler: the row is read, ...
LireTicket ==
  /\ renouv.etape = "repos"
  /\ achats < MaxRenouvellements
  /\ achats' = achats + 1
  /\ renouv' = [SansRenouv EXCEPT !.etape = "attribution", !.expiresAt = ticket.expiresAt]
  /\ UNCHANGED <<ticket, compte, appareil, enFile, coupe, lu, redemarrages, oubli>>

\* ... one more assignment is made on the router, which stacks the period on
\* the current one or starts it now; no date runs before the first connection.
\* The account's end is the furthest of its assignments.  Each time the answer
\* is lost withControlledRetry sends the request again, and the assignments
\* that were made without an answer are stacked as well.
Attribuer ==
  /\ renouv.etape = "attribution"
  /\ \E rendue \in IF compte.fin = Aucune THEN {Aucune}
                   ELSE Empilees \union {compte.fin + d : d \in Empilees} :
       /\ compte' = [compte EXCEPT !.fin = PlusTard(@, rendue)]
       /\ renouv' = [renouv EXCEPT !.etape = "ecriture", !.rendue = rendue]
  /\ UNCHANGED <<ticket, appareil, enFile, coupe, lu, compteurs, oubli>>

\* ... and the row is written, never with an earlier date than the one read.
\* (Mutated form of Prolonge: one more period is added to the router's date.)
ProlongeEncore == [status |-> "ACTIVE",
                   expiresAt |-> PlusTard(renouv.rendue + Duree, renouv.expiresAt)]

Prolonge == [status |-> "ACTIVE", expiresAt |-> PlusTard(renouv.rendue, renouv.expiresAt)]

EcrireProlongation ==
  /\ renouv.etape = "ecriture"
  /\ ticket' = Prolonge
  /\ renouv' = SansRenouv
  /\ UNCHANGED <<compte, appareil, enFile, coupe, lu, compteurs, oubli>>

\* An exception on the way: the assignment may have been made without the row.
EchouerProlongation ==
  /\ renouv.etape # "repos"
  /\ renouv' = SansRenouv
  /\ oubli' = IF renouv.etape = "ecriture" THEN "erreur" ELSE oubli
  /\ UNCHANGED <<ticket, compte, appareil, enFile, coupe, lu, compteurs>>

\* UserManagerService, from the console: the account is enabled again.
Reactiver ==
  /\ compte.disabled
  /\ compte' = [compte EXCEPT !.disabled = FALSE]
  /\ UNCHANGED <<ticket, appareil, enFile, coupe, lu, renouv, compteurs, oubli>>

\* The process stops and starts again: what was in progress is lost, the rows
\* stay.
Redemarrer ==
  /\ redemarrages < MaxRedemarrages
  /\ redemarrages' = redemarrages + 1
  /\ oubli' = IF EnCoupure \ {"file"} # {} \/ renouv.etape = "ecriture" THEN "arret" ELSE oubli
  /\ coupe' = [a \in Coupeurs |-> AuRepos]
  /\ lu' = RienLu
  /\ renouv' = SansRenouv
  /\ UNCHANGED <<ticket, compte, appareil, enFile, achats>>

Couper(a) ==
  \/ DesactiverCompte(a) \/ ListerCookies(a) \/ EffacerCookies(a)
  \/ ListerSessions(a) \/ FermerSessions(a) \/ Injoignable(a) \/ AutreErreur(a)

Next ==
  \/ SeConnecter \/ RevenirParCookie \/ Partir \/ Tick
  \/ LireEchus \/ MarquerExpire
  \/ LireCandidats \/ LireRouteur \/ Recopier
  \/ Rejouer \/ EchecDuRejeu
  \/ \E a \in Coupeurs : Couper(a)
  \/ LireTicket \/ Attribuer \/ EcrireProlongation \/ EchouerProlongation
  \/ Reactiver \/ Redemarrer

\* Time passes, the minute job runs and each of its calls ends, well or badly.
\* The reconciliation, the queue, the customer and the console owe nothing.
Fairness ==
  /\ WF_vars(Tick)
  /\ WF_vars(LireEchus \/ MarquerExpire)
  /\ WF_vars(Couper("expiration"))

Spec == Init /\ [][Next]_vars /\ Fairness

-----------------------------------------------------------------------------
\* What one purchase adds at most.
Rachat == Duree * (1 + MaxRetries)
Dates == {Aucune} \union 0..(Rachat * (MaxRenouvellements + 1))

\* No date, of the row, of the router or of a reading, goes further than one
\* period for each time the assignment of the sale, or of a renewal, was sent.
TypeOK ==
  /\ ticket \in [status : {"SOLD", "ACTIVE", "EXPIRED"}, expiresAt : Dates]
  /\ compte \in [fin : Dates, disabled : BOOLEAN]
  /\ cookie \in BOOLEAN /\ session \in BOOLEAN /\ enFile \in BOOLEAN
  /\ coupe \in [Coupeurs -> [etape : EtapesDeCoupure \union
                               {"repos", "marquage", "lecture", "ecriture"}, vu : BOOLEAN]]
  /\ lu \in [status : {"SOLD", "ACTIVE"}, expiresAt : Dates, fin : Dates, echu : BOOLEAN]
  /\ renouv \in [etape : {"repos", "attribution", "ecriture"}, expiresAt : Dates, rendue : Dates]
  /\ achats \in 0..MaxRenouvellements
  /\ redemarrages \in 0..MaxRedemarrages
  /\ oubli \in {"non", "erreur", "avale", "abandon", "arret", "perime", "doublon"}

\* Somebody still has to deal with the ticket: a party is cutting, a cut waits,
\* or a renewal is about to make it active.
PrisEnCharge == EnCoupure # {} \/ enFile \/ renouv.etape = "ecriture"

\* The access of an expired ticket is closed for good, or somebody answers for
\* it: whatever reconnects, renews or cuts at the same time, the only ways to
\* lose it are an exception the jobs do not defer, an error that revoke
\* swallows, an operation given up, a restart, a mark on a ticket that had just
\* been renewed, and a cut taken for the one that is being replayed.
CoupureSuivie ==
  ticket.status = "EXPIRED" /\ compte.fin = 0 /\ AccesOuvert => PrisEnCharge \/ oubli # "non"

\* A date the base knows to be past is acted on whatever the router does, even
\* if it never answers again: the status is written before the router is called.
EcheanceConstatee ==
  EnVente /\ ticket.expiresAt = 0 ~> ticket.status = "EXPIRED" \/ ticket.expiresAt # 0
=============================================================================
