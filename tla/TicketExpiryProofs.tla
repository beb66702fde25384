------------------------- MODULE TicketExpiryProofs -------------------------
(***************************************************************************)
(* The end of a ticket, for any period, any number of renewals and of      *)
(* restarts: its dates are bounded by the assignments that were sent, and  *)
(* the access of an expired ticket never stays open unanswered.            *)
(*                                                                         *)
(* That somebody is cutting is not enough for the second: a party that is  *)
(* past the cookies when the customer comes back by a cookie would return  *)
(* with the access open.  Tient says how far a party still closes all.     *)
(***************************************************************************)
EXTENDS TicketExpiry, TLAPS

\* A party that will have closed everything when it returns.
Tient(a) ==
  \/ coupe[a].etape \in {"compte", "cookies"}
  \/ coupe[a].etape = "effacement" /\ (cookie => coupe[a].vu)
  \/ coupe[a].etape = "sessions" /\ ~cookie
  \/ coupe[a].etape = "fermeture" /\ ~cookie /\ (session => coupe[a].vu)

EnAttenteDeRejeu == enFile /\ coupe["file"].etape = "repos"

Repondu ==
  ticket.status = "EXPIRED" /\ compte.fin = 0 /\ AccesOuvert /\ oubli = "non" =>
    (\E a \in Coupeurs : Tient(a)) \/ EnAttenteDeRejeu \/ renouv.etape = "ecriture"

\* A ticket whose account has time left is expired by mistake, or about to be
\* prolonged.
ProlongationSuivie ==
  ticket.status = "EXPIRED" /\ compte.fin # 0 /\ oubli = "non" => renouv.etape = "ecriture"

\* The operation that is replayed still waits in the table.
FileTenue ==
  /\ coupe["file"].etape \in EtapesDeCoupure \union {"repos"}
  /\ coupe["file"].etape # "repos" => enFile

\* The renewals that have reached the router, and how far a date may then be.
Faits == IF renouv.etape = "attribution" THEN achats - 1 ELSE achats
Borne(n) == Rachat * (n + 1)
DatesDe(n) == {Aucune} \union 0..n

Bornes ==
  /\ renouv.etape = "attribution" => achats # 0
  /\ \A d \in {ticket.expiresAt, compte.fin, lu.expiresAt, lu.fin,
               renouv.expiresAt, renouv.rendue} : d \in DatesDe(Borne(Faits))

IInv ==
  /\ TypeOK
  /\ Bornes
  /\ FileTenue
  /\ ProlongationSuivie
  /\ Repondu

-----------------------------------------------------------------------------
(* Dates and parties.                                                      *)

Parties == [etape : EtapesDeCoupure \union {"repos", "marquage", "lecture", "ecriture"},
            vu : BOOLEAN]

LEMMA RachatNat ==
  /\ Duree \in Nat /\ Duree > 0 /\ Rachat \in Nat
  /\ \A d \in Empilees : d \in Nat /\ d # 0 /\ d <= Rachat
<1>1. Duree \in Nat /\ Duree > 0 /\ MaxRetries \in Nat
  BY ConstantesTicket
<1>2. \A m, n \in Nat : m <= n => Duree * m \in Nat /\ Duree * n \in Nat /\ Duree * m <= Duree * n
  BY <1>1
<1>3. \A n \in 1..(1 + MaxRetries) : Duree * n \in Nat /\ Duree * n # 0 /\ Duree * n <= Rachat
  <2>1. TAKE n \in 1..(1 + MaxRetries)
  <2>2. n \in Nat /\ 1 \in Nat /\ 1 + MaxRetries \in Nat /\ 1 <= n /\ n <= 1 + MaxRetries
    BY <1>1
  <2>3. Duree * 1 <= Duree * n /\ Duree * n <= Duree * (1 + MaxRetries) /\ Duree * n \in Nat
    BY <1>2, <2>2
  <2>4. QED
    BY <1>1, <2>3 DEF Rachat
<1>4. Rachat \in Nat
  BY <1>1 DEF Rachat
<1>5. QED
  BY <1>1, <1>3, <1>4 DEF Empilees

LEMMA BorneNat ==
  /\ \A n \in Nat : Borne(n) \in Nat /\ Borne(n + 1) = Borne(n) + Rachat /\ Rachat <= Borne(n)
  /\ \A m, n \in Nat : m <= n => Borne(m) <= Borne(n)
<1>1. Duree \in Nat /\ Rachat \in Nat
  BY RachatNat
<1>2. \A n \in Nat : Rachat * n \in Nat /\ Rachat * (n + 1) = Rachat * n + Rachat
  BY <1>1
<1>3. \A m, n \in Nat : m <= n => Rachat * m <= Rachat * n
  BY <1>1
<1>4. \A n \in Nat : Borne(n) = Rachat * n + Rachat /\ Borne(n + 1) = Rachat * (n + 1) + Rachat
  BY <1>1, <1>2 DEF Borne
<1>5. QED
  BY <1>1, <1>2, <1>3, <1>4

LEMMA LesDates ==
  ASSUME NEW m \in Nat, NEW d \in DatesDe(m)
  PROVE  /\ Vieillir(d) \in DatesDe(m)
         /\ Vieillir(d) = Aucune <=> d = Aucune
         /\ \A n \in Nat : m <= n => d \in DatesDe(n)
         /\ \A e \in DatesDe(m) : PlusTard(d, e) \in DatesDe(m)
BY DEF DatesDe, Vieillir, PlusTard, Aucune

\* What A does to the parties.
LEMMA APose ==
  ASSUME coupe \in [Coupeurs -> Parties], NEW a \in Coupeurs,
         NEW e \in EtapesDeCoupure \union {"repos", "marquage", "lecture", "ecriture"}, A(a, e)
  PROVE  /\ coupe' \in [Coupeurs -> Parties]
         /\ coupe'[a].etape = e
         /\ \A b \in Coupeurs : b # a => coupe'[b] = coupe[b]
<1>. DEFINE c == [AuRepos EXCEPT !.etape = e]
<1>1. c \in Parties /\ c.etape = e
  BY DEF AuRepos, Parties
<1>2. coupe' = [coupe EXCEPT ![a] = c]
  BY DEF A
<1>. HIDE DEF c
<1>3. QED
  BY <1>1, <1>2

LEMMA Types ==
  TypeOK <=>
    /\ ticket \in [status : {"SOLD", "ACTIVE", "EXPIRED"}, expiresAt : Dates]
    /\ compte \in [fin : Dates, disabled : BOOLEAN]
    /\ cookie \in BOOLEAN /\ session \in BOOLEAN /\ enFile \in BOOLEAN
    /\ coupe \in [Coupeurs -> Parties]
    /\ lu \in [status : {"SOLD", "ACTIVE"}, expiresAt : Dates, fin : Dates, echu : BOOLEAN]
    /\ renouv \in [etape : {"repos", "attribution", "ecriture"}, expiresAt : Dates, rendue : Dates]
    /\ achats \in 0..MaxRenouvellements
    /\ redemarrages \in 0..MaxRedemarrages
    /\ oubli \in {"non", "erreur", "avale", "abandon", "arret", "perime", "doublon"}
BY DEF TypeOK, Parties

LEMMA LesFaits ==
  ASSUME TypeOK, renouv.etape = "attribution" => achats # 0
  PROVE  /\ Faits \in Nat /\ Faits <= MaxRenouvellements /\ Borne(Faits) \in Nat
         /\ DatesDe(Borne(Faits)) \subseteq Dates
<1>1. Faits \in Nat /\ Faits <= MaxRenouvellements /\ MaxRenouvellements \in Nat
  BY ConstantesTicket DEF TypeOK, Faits
<1>2. Borne(Faits) \in Nat /\ Borne(Faits) <= Borne(MaxRenouvellements)
        /\ Borne(MaxRenouvellements) \in Nat
  BY <1>1, BorneNat
<1>3. Dates = {Aucune} \union 0..Borne(MaxRenouvellements)
  BY DEF Dates, Borne
<1>4. DatesDe(Borne(Faits)) \subseteq Dates
  BY <1>2, <1>3 DEF DatesDe
<1>5. QED
  BY <1>1, <1>2, <1>4

-----------------------------------------------------------------------------
(* Steps of the parties that cut.                                          *)

\* What a step of one party may change, and that it loses no answer.
Pas(a) ==
  /\ coupe' \in [Coupeurs -> Parties]
  /\ \A b \in Coupeurs : b # a => coupe'[b] = coupe[b]
  /\ cookie' \in BOOLEAN /\ session' \in BOOLEAN /\ enFile' \in BOOLEAN
  /\ cookie' => cookie
  /\ session' => session
  /\ oubli' \in {"non", "erreur", "avale", "abandon", "arret", "perime", "doublon"}
  /\ oubli' = "non" => oubli = "non"
  /\ Tient(a) => Tient(a)' \/ EnAttenteDeRejeu' \/ ~AccesOuvert' \/ oubli' # "non"
  /\ EnAttenteDeRejeu => EnAttenteDeRejeu' \/ Tient(a)'

LEMMA PasJuste ==
  ASSUME IInv, NEW a \in Coupeurs, Pas(a), FileTenue',
         UNCHANGED <<ticket, lu, renouv, achats, redemarrages>>,
         compte' \in [fin : {compte.fin}, disabled : BOOLEAN]
  PROVE  IInv'
<1>1. TypeOK'
  <2>1. TypeOK
    BY DEF IInv
  <2>2. compte' \in [fin : Dates, disabled : BOOLEAN]
    BY <2>1 DEF TypeOK
  <2>3. QED
    BY <2>1, <2>2, Types DEF Pas, Parties, TypeOK
<1>2. Bornes'
  BY DEF IInv, Bornes, Faits
<1>3. ProlongationSuivie'
  BY DEF IInv, ProlongationSuivie, Pas
<1>4. Repondu'
  <2>1. SUFFICES ASSUME ticket.status = "EXPIRED", compte.fin = 0, AccesOuvert', oubli' = "non"
                 PROVE  (\E b \in Coupeurs : Tient(b)') \/ EnAttenteDeRejeu' \/ renouv.etape = "ecriture"
    BY DEF Repondu
  <2>2. AccesOuvert /\ oubli = "non"
    BY <2>1 DEF AccesOuvert, Pas
  <2>3. (\E b \in Coupeurs : Tient(b)) \/ EnAttenteDeRejeu \/ renouv.etape = "ecriture"
    BY <2>1, <2>2 DEF IInv, Repondu
  <2>4. ASSUME NEW b \in Coupeurs, b # a, Tient(b)
        PROVE  Tient(b)'
    BY <2>4 DEF Tient, Pas
  <2>5. QED
    BY <2>1, <2>3, <2>4 DEF Pas
<1>5. QED
  BY <1>1, <1>2, <1>3, <1>4 DEF IInv

LEMMA Acquis ==
  ASSUME IInv
  PROVE  /\ coupe \in [Coupeurs -> Parties] /\ "file" \in Coupeurs
         /\ cookie \in BOOLEAN /\ session \in BOOLEAN /\ enFile \in BOOLEAN
         /\ oubli \in {"non", "erreur", "avale", "abandon", "arret", "perime", "doublon"}
         /\ compte \in [fin : {compte.fin}, disabled : BOOLEAN]
         /\ FileTenue
BY Types DEF IInv, Coupeurs

LEMMA DesactiverCompteJuste ==
  ASSUME IInv, NEW a \in Coupeurs, DesactiverCompte(a)
  PROVE  IInv'
<1>1. /\ coupe[a].etape = "compte" /\ compte' = [compte EXCEPT !.disabled = TRUE]
      /\ A(a, "cookies")
      /\ UNCHANGED <<ticket, cookie, session, enFile, lu, renouv, achats, redemarrages, oubli>>
  BY DEF DesactiverCompte, appareil, compteurs
<1>2. /\ coupe' \in [Coupeurs -> Parties] /\ coupe'[a].etape = "cookies"
      /\ \A b \in Coupeurs : b # a => coupe'[b] = coupe[b]
  BY <1>1, Acquis, APose DEF EtapesDeCoupure
<1>3. compte' \in [fin : {compte.fin}, disabled : BOOLEAN]
  BY <1>1, Acquis
<1>4. Pas(a)
  BY <1>1, <1>2, Acquis DEF Pas, Tient, EnAttenteDeRejeu
<1>5. FileTenue'
  BY <1>1, <1>2, Acquis DEF FileTenue, EtapesDeCoupure
<1>6. QED
  BY <1>1, <1>3, <1>4, <1>5, PasJuste

LEMMA ListerCookiesJuste ==
  ASSUME IInv, NEW a \in Coupeurs, ListerCookies(a)
  PROVE  IInv'
<1>1. /\ coupe[a].etape = "cookies"
      /\ coupe' = [coupe EXCEPT ![a] = [etape |-> "effacement", vu |-> cookie]]
      /\ UNCHANGED <<ticket, compte, cookie, session, enFile, lu, renouv, achats, redemarrages, oubli>>
  BY DEF ListerCookies, appareil, compteurs
<1>2. [etape |-> "effacement", vu |-> cookie] \in Parties
  BY Acquis DEF Parties, EtapesDeCoupure
<1>3. /\ coupe' \in [Coupeurs -> Parties] /\ coupe'[a] = [etape |-> "effacement", vu |-> cookie]
      /\ \A b \in Coupeurs : b # a => coupe'[b] = coupe[b]
  BY <1>1, <1>2, Acquis
<1>4. coupe'[a].etape = "effacement" /\ coupe'[a].vu = cookie
  BY <1>3
<1>5. Tient(a)'
  BY <1>1, <1>4 DEF Tient
<1>6. Pas(a)
  BY <1>1, <1>3, <1>4, <1>5, Acquis DEF Pas, EnAttenteDeRejeu
<1>7. FileTenue'
  BY <1>1, <1>3, <1>4, Acquis DEF FileTenue, EtapesDeCoupure
<1>8. QED
  BY <1>1, <1>6, <1>7, Acquis, PasJuste

LEMMA EffacerCookiesJuste ==
  ASSUME IInv, NEW a \in Coupeurs, EffacerCookies(a)
  PROVE  IInv'
<1>1. /\ coupe[a].etape = "effacement" /\ A(a, "sessions")
      /\ \/ cookie' = (cookie /\ ~coupe[a].vu) /\ UNCHANGED oubli
         \/ coupe[a].vu /\ oubli' = "avale" /\ UNCHANGED cookie
      /\ UNCHANGED <<ticket, compte, session, enFile, lu, renouv, achats, redemarrages>>
  BY DEF EffacerCookies, compteurs
<1>2. /\ coupe' \in [Coupeurs -> Parties] /\ coupe'[a].etape = "sessions"
      /\ \A b \in Coupeurs : b # a => coupe'[b] = coupe[b]
  BY <1>1, Acquis, APose DEF EtapesDeCoupure
<1>3. /\ cookie' \in BOOLEAN /\ (cookie' => cookie) /\ (oubli' = "non" => oubli = "non")
      /\ oubli' \in {"non", "erreur", "avale", "abandon", "arret", "perime", "doublon"}
      /\ Tient(a) => ~cookie' \/ oubli' # "non"
  <2>1. CASE cookie' = (cookie /\ ~coupe[a].vu) /\ UNCHANGED oubli
    BY <1>1, <2>1, Acquis DEF Tient
  <2>2. CASE coupe[a].vu /\ oubli' = "avale" /\ UNCHANGED cookie
    BY <2>2, Acquis
  <2>3. QED
    BY <1>1, <2>1, <2>2
<1>4. Pas(a)
  BY <1>1, <1>2, <1>3, Acquis DEF Pas, Tient, EnAttenteDeRejeu
<1>5. FileTenue'
  BY <1>1, <1>2, Acquis DEF FileTenue, EtapesDeCoupure
<1>6. QED
  BY <1>1, <1>4, <1>5, Acquis, PasJuste

LEMMA ListerSessionsJuste ==
  ASSUME IInv, NEW a \in Coupeurs, ListerSessions(a)
  PROVE  IInv'
<1>1. /\ coupe[a].etape = "sessions"
      /\ coupe' = [coupe EXCEPT ![a] = [etape |-> "fermeture", vu |-> session]]
      /\ UNCHANGED <<ticket, compte, cookie, session, enFile, lu, renouv, achats, redemarrages, oubli>>
  BY DEF ListerSessions, appareil, compteurs
<1>2. [etape |-> "fermeture", vu |-> session] \in Parties
  BY Acquis DEF Parties, EtapesDeCoupure
<1>3. /\ coupe' \in [Coupeurs -> Parties] /\ coupe'[a] = [etape |-> "fermeture", vu |-> session]
      /\ \A b \in Coupeurs : b # a => coupe'[b] = coupe[b]
  BY <1>1, <1>2, Acquis
<1>4. coupe'[a].etape = "fermeture" /\ coupe'[a].vu = session
  BY <1>3
<1>5. Tient(a) => Tient(a)'
  BY <1>1, <1>4 DEF Tient
<1>6. Pas(a)
  BY <1>1, <1>3, <1>4, <1>5, Acquis DEF Pas, EnAttenteDeRejeu
<1>7. FileTenue'
  BY <1>1, <1>3, <1>4, Acquis DEF FileTenue, EtapesDeCoupure
<1>8. QED
  BY <1>1, <1>6, <1>7, Acquis, PasJuste

LEMMA FermerSessionsJuste ==
  ASSUME IInv, NEW a \in Coupeurs, FermerSessions(a)
  PROVE  IInv'
<1>1. /\ coupe[a].etape = "fermeture" /\ A(a, "repos") /\ enFile' = (enFile /\ a # "file")
      /\ \/ session' = (session /\ ~coupe[a].vu) /\ UNCHANGED oubli
         \/ coupe[a].vu /\ oubli' = "avale" /\ UNCHANGED session
      /\ UNCHANGED <<ticket, compte, cookie, lu, renouv, achats, redemarrages>>
  BY DEF FermerSessions, Achever, compteurs
<1>2. /\ coupe' \in [Coupeurs -> Parties] /\ coupe'[a].etape = "repos"
      /\ \A b \in Coupeurs : b # a => coupe'[b] = coupe[b]
  BY <1>1, Acquis, APose
<1>3. /\ session' \in BOOLEAN /\ (session' => session) /\ (oubli' = "non" => oubli = "non")
      /\ oubli' \in {"non", "erreur", "avale", "abandon", "arret", "perime", "doublon"}
      /\ Tient(a) => ~AccesOuvert' \/ oubli' # "non"
  <2>1. CASE session' = (session /\ ~coupe[a].vu) /\ UNCHANGED oubli
    BY <1>1, <2>1, Acquis DEF Tient, AccesOuvert
  <2>2. CASE coupe[a].vu /\ oubli' = "avale" /\ UNCHANGED session
    BY <2>2, Acquis
  <2>3. QED
    BY <1>1, <2>1, <2>2
<1>4. enFile' \in BOOLEAN /\ (EnAttenteDeRejeu => EnAttenteDeRejeu')
  BY <1>1, <1>2, Acquis DEF EnAttenteDeRejeu
<1>5. Pas(a)
  BY <1>1, <1>2, <1>3, <1>4, Acquis DEF Pas
<1>6. FileTenue'
  BY <1>1, <1>2, Acquis DEF FileTenue
<1>7. QED
  BY <1>1, <1>5, <1>6, Acquis, PasJuste

\* A cut that is deferred waits, or was taken for the one under replay.
LEMMA InjoignableJuste ==
  ASSUME IInv, NEW a \in Coupeurs, Injoignable(a)
  PROVE  IInv'
<1>1. /\ a # "file" /\ enFile' = TRUE /\ A(a, "repos")
      /\ oubli' = IF enFile /\ coupe["file"].etape # "repos" THEN "doublon" ELSE oubli
      /\ UNCHANGED <<ticket, compte, cookie, session, lu, renouv, achats, redemarrages>>
  BY DEF Injoignable, appareil, compteurs
<1>2. /\ coupe' \in [Coupeurs -> Parties]
      /\ \A b \in Coupeurs : b # a => coupe'[b] = coupe[b]
  BY <1>1, Acquis, APose
<1>3. coupe'["file"] = coupe["file"]
  BY <1>1, <1>2, Acquis
<1>4. EnAttenteDeRejeu' \/ oubli' # "non"
  BY <1>1, <1>3, Acquis DEF FileTenue, EnAttenteDeRejeu
<1>5. EnAttenteDeRejeu => EnAttenteDeRejeu'
  BY <1>1, <1>3 DEF EnAttenteDeRejeu
<1>6. enFile' \in BOOLEAN /\ (oubli' = "non" => oubli = "non")
      /\ oubli' \in {"non", "erreur", "avale", "abandon", "arret", "perime", "doublon"}
  BY <1>1, Acquis
<1>7. Pas(a)
  BY <1>1, <1>2, <1>4, <1>5, <1>6, Acquis DEF Pas
<1>8. FileTenue'
  BY <1>1, <1>3, Acquis DEF FileTenue
<1>9. QED
  BY <1>1, <1>7, <1>8, Acquis, PasJuste

LEMMA AutreErreurJuste ==
  ASSUME IInv, NEW a \in Coupeurs, AutreErreur(a)
  PROVE  IInv'
<1>1. /\ a # "file" /\ A(a, "repos") /\ oubli' = "erreur"
      /\ UNCHANGED <<ticket, compte, cookie, session, enFile, lu, renouv, achats, redemarrages>>
  BY DEF AutreErreur, appareil, compteurs
<1>2. /\ coupe' \in [Coupeurs -> Parties]
      /\ \A b \in Coupeurs : b # a => coupe'[b] = coupe[b]
  BY <1>1, Acquis, APose
<1>3. coupe'["file"] = coupe["file"]
  BY <1>1, <1>2, Acquis
<1>4. Pas(a)
  BY <1>1, <1>2, <1>3, Acquis DEF Pas, EnAttenteDeRejeu
<1>5. FileTenue'
  BY <1>1, <1>3, Acquis DEF FileTenue
<1>6. QED
  BY <1>1, <1>4, <1>5, Acquis, PasJuste

LEMMA EchecDuRejeuJuste ==
  ASSUME IInv, EchecDuRejeu
  PROVE  IInv'
<1>1. /\ AppelQuiLeve("file") /\ A("file", "repos")
      /\ \/ UNCHANGED <<enFile, oubli>>
         \/ enFile' = FALSE /\ oubli' = "abandon"
      /\ UNCHANGED <<ticket, compte, cookie, session, lu, renouv, achats, redemarrages>>
  BY DEF EchecDuRejeu, appareil, compteurs
<1>2. /\ coupe' \in [Coupeurs -> Parties] /\ coupe'["file"].etape = "repos"
      /\ \A b \in Coupeurs : b # "file" => coupe'[b] = coupe[b]
  BY <1>1, Acquis, APose
<1>3. enFile /\ coupe["file"].etape # "repos"
  BY <1>1, Acquis DEF AppelQuiLeve, FileTenue
<1>4. EnAttenteDeRejeu' \/ oubli' # "non"
  BY <1>1, <1>2, <1>3 DEF EnAttenteDeRejeu
<1>5. enFile' \in BOOLEAN /\ (oubli' = "non" => oubli = "non")
      /\ oubli' \in {"non", "erreur", "avale", "abandon", "arret", "perime", "doublon"}
  BY <1>1, Acquis
<1>6. Pas("file")
  BY <1>1, <1>2, <1>3, <1>4, <1>5, Acquis DEF Pas, EnAttenteDeRejeu
<1>7. FileTenue'
  BY <1>2 DEF FileTenue
<1>8. QED
  BY <1>1, <1>6, <1>7, Acquis, PasJuste

LEMMA RejouerJuste ==
  ASSUME IInv, Rejouer
  PROVE  IInv'
<1>1. /\ enFile /\ A("file", "compte")
      /\ UNCHANGED <<ticket, compte, cookie, session, enFile, lu, renouv, achats, redemarrages, oubli>>
  BY DEF Rejouer, appareil, compteurs
<1>2. /\ coupe' \in [Coupeurs -> Parties] /\ coupe'["file"].etape = "compte"
      /\ \A b \in Coupeurs : b # "file" => coupe'[b] = coupe[b]
  BY <1>1, Acquis, APose DEF EtapesDeCoupure
<1>3. Tient("file")'
  BY <1>2 DEF Tient
<1>4. Pas("file")
  BY <1>1, <1>2, <1>3, Acquis DEF Pas
<1>5. FileTenue'
  BY <1>1, <1>2 DEF FileTenue, EtapesDeCoupure
<1>6. QED
  BY <1>1, <1>4, <1>5, Acquis, PasJuste

LEMMA LireEchusJuste ==
  ASSUME IInv, LireEchus
  PROVE  IInv'
<1>1. /\ coupe["expiration"].etape = "repos" /\ A("expiration", "marquage")
      /\ UNCHANGED <<ticket, compte, cookie, session, enFile, lu, renouv, achats, redemarrages, oubli>>
  BY DEF LireEchus, appareil, compteurs
<1>2. /\ coupe' \in [Coupeurs -> Parties]
      /\ \A b \in Coupeurs : b # "expiration" => coupe'[b] = coupe[b]
  BY <1>1, Acquis, APose DEF Coupeurs
<1>3. coupe'["file"] = coupe["file"] /\ "expiration" \in Coupeurs
  BY <1>2, Acquis DEF Coupeurs
<1>4. Pas("expiration")
  BY <1>1, <1>2, <1>3, Acquis DEF Pas, Tient, EnAttenteDeRejeu
<1>5. FileTenue'
  BY <1>1, <1>3, Acquis DEF FileTenue
<1>6. QED
  BY <1>1, <1>3, <1>4, <1>5, Acquis, PasJuste

-----------------------------------------------------------------------------
(* Steps that change dates.                                                *)

DatesDIci == DatesDe(Borne(Faits))

Datees ==
  /\ ticket \in [status : {"SOLD", "ACTIVE", "EXPIRED"}, expiresAt : DatesDIci]
  /\ compte \in [fin : DatesDIci, disabled : BOOLEAN]
  /\ lu \in [status : {"SOLD", "ACTIVE"}, expiresAt : DatesDIci, fin : DatesDIci, echu : BOOLEAN]
  /\ renouv \in [etape : {"repos", "attribution", "ecriture"}, expiresAt : DatesDIci,
                 rendue : DatesDIci]

LEMMA DatesAvant ==
  ASSUME IInv
  PROVE  /\ Datees /\ Borne(Faits) \in Nat /\ Faits \in Nat
         /\ Aucune \in DatesDIci /\ 0 \in DatesDIci
         /\ achats \in 0..MaxRenouvellements /\ redemarrages \in 0..MaxRedemarrages
         /\ renouv.etape = "attribution" => achats # 0
<1>1. Datees
  BY Types DEF IInv, Bornes, Datees, DatesDIci
<1>2. Borne(Faits) \in Nat /\ Faits \in Nat
  BY LesFaits DEF IInv, Bornes
<1>3. Aucune \in DatesDIci /\ 0 \in DatesDIci
  BY <1>2 DEF DatesDIci, DatesDe
<1>4. QED
  BY <1>1, <1>2, <1>3, Types DEF IInv, Bornes

LEMMA DatesApres ==
  ASSUME Datees', achats' \in 0..MaxRenouvellements, redemarrages' \in 0..MaxRedemarrages,
         renouv'.etape = "attribution" => achats' # 0,
         cookie' \in BOOLEAN, session' \in BOOLEAN, enFile' \in BOOLEAN,
         coupe' \in [Coupeurs -> Parties],
         oubli' \in {"non", "erreur", "avale", "abandon", "arret", "perime", "doublon"}
  PROVE  TypeOK' /\ Bornes'
<1>1. Faits' \in Nat /\ Faits' <= MaxRenouvellements /\ MaxRenouvellements \in Nat
  <2>1. MaxRenouvellements \in Nat /\ achats' \in Nat /\ achats' <= MaxRenouvellements
    BY ConstantesTicket
  <2>2. CASE renouv'.etape = "attribution"
    <3>1. Faits' = achats' - 1 /\ achats' # 0
      BY <2>2 DEF Faits
    <3>2. \A m, n \in Nat : n # 0 /\ n <= m => n - 1 \in Nat /\ n - 1 <= m
      OBVIOUS
    <3>3. QED
      BY <2>1, <3>1, <3>2
  <2>3. CASE renouv'.etape # "attribution"
    <3>1. Faits' = achats'
      BY <2>3 DEF Faits
    <3>2. QED
      BY <2>1, <3>1
  <2>4. QED
    BY <2>1, <2>2, <2>3
<1>2. Borne(Faits') \in Nat /\ Borne(Faits') <= Borne(MaxRenouvellements)
        /\ Borne(MaxRenouvellements) \in Nat
  BY <1>1, BorneNat
<1>3. DatesDIci' \subseteq Dates
  <2>1. Dates = {Aucune} \union 0..Borne(MaxRenouvellements)
    BY DEF Dates, Borne
  <2>2. DatesDIci' = {Aucune} \union 0..Borne(Faits')
    BY DEF DatesDIci, DatesDe, Borne
  <2>3. QED
    BY <1>2, <2>1, <2>2
<1>4. Bornes'
  BY DEF Bornes, Datees, DatesDIci
<1>5. TypeOK'
  BY <1>3 DEF TypeOK, Datees, Parties
<1>6. QED
  BY <1>4, <1>5

\* What a date becomes when the bound grows, or not.
LEMMA BorneMonte ==
  ASSUME IInv, Faits' \in Nat, Faits <= Faits'
  PROVE  /\ DatesDIci \subseteq DatesDIci' /\ Borne(Faits') \in Nat /\ Borne(Faits) <= Borne(Faits')
         /\ Faits' = Faits => DatesDIci' = DatesDIci
<1>1. Faits \in Nat /\ Borne(Faits) \in Nat
  BY DatesAvant
<1>2. Borne(Faits') \in Nat /\ Borne(Faits) <= Borne(Faits')
  BY <1>1, BorneNat
<1>3. DatesDIci = DatesDe(Borne(Faits)) /\ DatesDIci' = DatesDe(Borne(Faits'))
  BY DEF DatesDIci, DatesDe, Borne
<1>4. QED
  BY <1>1, <1>2, <1>3 DEF DatesDe

LEMMA DatesStables ==
  ASSUME IInv, UNCHANGED <<renouv, achats>>
  PROVE  DatesDIci' = DatesDIci
BY DEF DatesDIci, DatesDe, Borne, Faits

-----------------------------------------------------------------------------
(* The two jobs mark the ticket.                                           *)

\* The party that marks it answers for its access from there.
LEMMA MarqueJuste ==
  ASSUME IInv, NEW a \in Coupeurs, a # "file", A(a, "cookies"),
         ticket' \in [status : {"SOLD", "ACTIVE", "EXPIRED"}, expiresAt : DatesDIci],
         lu' \in [status : {"SOLD", "ACTIVE"}, expiresAt : DatesDIci, fin : DatesDIci, echu : BOOLEAN],
         oubli' = Constat,
         UNCHANGED <<compte, cookie, session, enFile, renouv, achats, redemarrages>>
  PROVE  IInv'
<1>1. /\ coupe' \in [Coupeurs -> Parties] /\ coupe'[a].etape = "cookies"
      /\ \A b \in Coupeurs : b # a => coupe'[b] = coupe[b]
  BY Acquis, APose DEF EtapesDeCoupure
<1>2. Datees'
  BY DatesAvant, DatesStables DEF Datees
<1>3. oubli' \in {"non", "erreur", "avale", "abandon", "arret", "perime", "doublon"}
  BY Acquis DEF Constat
<1>4. TypeOK' /\ Bornes'
  BY <1>1, <1>2, <1>3, Acquis, DatesAvant, DatesApres
<1>5. FileTenue'
  BY <1>1, Acquis DEF FileTenue
<1>6. ProlongationSuivie'
  BY DEF ProlongationSuivie, Constat
<1>7. Repondu'
  BY <1>1 DEF Repondu, Tient
<1>8. QED
  BY <1>4, <1>5, <1>6, <1>7 DEF IInv

LEMMA MarquerExpireJuste ==
  ASSUME IInv, MarquerExpire
  PROVE  IInv'
<1>1. ticket' = [ticket EXCEPT !.status = "EXPIRED"] /\ A("expiration", "cookies") /\ oubli' = Constat
        /\ UNCHANGED <<compte, cookie, session, enFile, lu, renouv, achats, redemarrages>>
  BY DEF MarquerExpire, appareil, compteurs
<1>2. /\ ticket' \in [status : {"SOLD", "ACTIVE", "EXPIRED"}, expiresAt : DatesDIci]
      /\ lu' \in [status : {"SOLD", "ACTIVE"}, expiresAt : DatesDIci, fin : DatesDIci, echu : BOOLEAN]
  BY <1>1, DatesAvant DEF Datees
<1>3. "expiration" \in Coupeurs /\ "expiration" # "file"
  BY DEF Coupeurs
<1>4. QED
  BY <1>1, <1>2, <1>3, MarqueJuste

\* A party that ends, or goes on, without having to answer for anything: it had
\* not begun to cut.
LEMMA SansReponseJuste ==
  ASSUME IInv, NEW a \in Coupeurs \ {"file"}, coupe[a].etape \notin EtapesDeCoupure,
         NEW e \in {"repos", "lecture", "ecriture"}, A(a, e),
         ticket' \in [status : {"SOLD", "ACTIVE", "EXPIRED"}, expiresAt : DatesDIci],
         ticket'.status = "EXPIRED" => ticket.status = "EXPIRED",
         lu' \in [status : {"SOLD", "ACTIVE"}, expiresAt : DatesDIci, fin : DatesDIci, echu : BOOLEAN],
         UNCHANGED <<compte, cookie, session, enFile, renouv, achats, redemarrages, oubli>>
  PROVE  IInv'
<1>1. /\ coupe' \in [Coupeurs -> Parties]
      /\ \A b \in Coupeurs : b # a => coupe'[b] = coupe[b]
  BY Acquis, APose
<1>2. Datees'
  BY DatesAvant, DatesStables DEF Datees
<1>3. TypeOK' /\ Bornes'
  BY <1>1, <1>2, Acquis, DatesAvant, DatesApres
<1>4. FileTenue'
  BY <1>1, Acquis DEF FileTenue
<1>5. ProlongationSuivie'
  BY DEF IInv, ProlongationSuivie
<1>6. \A b \in Coupeurs : Tient(b) => Tient(b)'
  BY <1>1 DEF Tient, EtapesDeCoupure
<1>7. EnAttenteDeRejeu => EnAttenteDeRejeu'
  BY <1>1, Acquis DEF EnAttenteDeRejeu
<1>8. Repondu'
  BY <1>6, <1>7 DEF IInv, Repondu, AccesOuvert
<1>9. QED
  BY <1>3, <1>4, <1>5, <1>8 DEF IInv

LEMMA RapprochementEtape ==
  /\ "rapprochement" \in Coupeurs \ {"file"} /\ "rapprochement" # "file"
  /\ {"repos", "lecture", "ecriture"} \intersect EtapesDeCoupure = {}
BY DEF Coupeurs, EtapesDeCoupure

LEMMA RienLuType ==
  ASSUME IInv
  PROVE  RienLu \in [status : {"SOLD", "ACTIVE"}, expiresAt : DatesDIci, fin : DatesDIci, echu : BOOLEAN]
BY DatesAvant DEF RienLu

LEMMA LireCandidatsJuste ==
  ASSUME IInv, LireCandidats
  PROVE  IInv'
<1>1. /\ coupe["rapprochement"].etape = "repos" /\ A("rapprochement", "lecture")
      /\ ticket.status \in {"SOLD", "ACTIVE"}
      /\ lu' = [RienLu EXCEPT !.status = ticket.status, !.expiresAt = ticket.expiresAt]
      /\ UNCHANGED <<ticket, compte, cookie, session, enFile, renouv, achats, redemarrages, oubli>>
  BY DEF LireCandidats, EnVente, appareil, compteurs
<1>2. /\ ticket' \in [status : {"SOLD", "ACTIVE", "EXPIRED"}, expiresAt : DatesDIci]
      /\ lu' \in [status : {"SOLD", "ACTIVE"}, expiresAt : DatesDIci, fin : DatesDIci, echu : BOOLEAN]
  BY <1>1, DatesAvant, RienLuType DEF Datees
<1>3. coupe["rapprochement"].etape \notin EtapesDeCoupure
  BY <1>1, RapprochementEtape
<1>4. QED
  BY <1>1, <1>2, <1>3, RapprochementEtape, SansReponseJuste

LEMMA LireRouteurJuste ==
  ASSUME IInv, LireRouteur
  PROVE  IInv'
<1>. DEFINE l == [lu EXCEPT !.fin = compte.fin, !.echu = (compte.fin = 0)]
<1>1. /\ coupe["rapprochement"].etape = "lecture"
      /\ \/ lu' = l /\ A("rapprochement", "ecriture")
         \/ lu' = RienLu /\ A("rapprochement", "repos")
      /\ UNCHANGED <<ticket, compte, cookie, session, enFile, renouv, achats, redemarrages, oubli>>
  BY DEF LireRouteur, appareil, compteurs
<1>2. l \in [status : {"SOLD", "ACTIVE"}, expiresAt : DatesDIci, fin : DatesDIci, echu : BOOLEAN]
  BY DatesAvant DEF Datees
<1>. HIDE DEF l
<1>3. /\ ticket' \in [status : {"SOLD", "ACTIVE", "EXPIRED"}, expiresAt : DatesDIci]
      /\ lu' \in [status : {"SOLD", "ACTIVE"}, expiresAt : DatesDIci, fin : DatesDIci, echu : BOOLEAN]
  BY <1>1, <1>2, DatesAvant, RienLuType DEF Datees
<1>4. coupe["rapprochement"].etape \notin EtapesDeCoupure
  BY <1>1, RapprochementEtape
<1>5. QED
  BY <1>1, <1>3, <1>4, RapprochementEtape, SansReponseJuste

LEMMA RecopierJuste ==
  ASSUME IInv, Recopier
  PROVE  IInv'
<1>1. /\ coupe["rapprochement"].etape = "ecriture" /\ ticket' = Rapproche(lu) /\ lu' = RienLu
      /\ A("rapprochement", IF lu.echu THEN "cookies" ELSE "repos")
      /\ oubli' = IF lu.echu THEN Constat ELSE oubli
      /\ UNCHANGED <<compte, cookie, session, enFile, renouv, achats, redemarrages>>
  BY DEF Recopier, appareil, compteurs
<1>2. /\ ticket' \in [status : {"SOLD", "ACTIVE", "EXPIRED"}, expiresAt : DatesDIci]
      /\ ~lu.echu => ticket'.status # "EXPIRED"
  <2>1. lu.status \in {"SOLD", "ACTIVE"} /\ lu.fin \in DatesDIci
    BY DatesAvant DEF Datees
  <2>2. QED
    BY <1>1, <2>1 DEF Rapproche
<1>3. lu' \in [status : {"SOLD", "ACTIVE"}, expiresAt : DatesDIci, fin : DatesDIci, echu : BOOLEAN]
  BY <1>1, RienLuType
<1>4. CASE lu.echu
  <2>1. A("rapprochement", "cookies") /\ oubli' = Constat
    BY <1>1, <1>4
  <2>2. QED
    BY <1>1, <1>2, <1>3, <2>1, RapprochementEtape, MarqueJuste
<1>5. CASE ~lu.echu
  <2>1. A("rapprochement", "repos") /\ oubli' = oubli /\ (ticket'.status = "EXPIRED" => ticket.status = "EXPIRED")
    BY <1>1, <1>2, <1>5
  <2>2. coupe["rapprochement"].etape \notin EtapesDeCoupure
    BY <1>1, RapprochementEtape
  <2>3. QED
    BY <1>1, <1>2, <1>3, <2>1, <2>2, RapprochementEtape, SansReponseJuste
<1>6. QED
  BY <1>4, <1>5

-----------------------------------------------------------------------------
(* The customer, the console and the clock.                                *)

LEMMA PartirJuste ==
  ASSUME IInv, Partir
  PROVE  IInv'
<1>1. /\ \/ session' = FALSE /\ UNCHANGED cookie
         \/ cookie' = FALSE /\ UNCHANGED session
      /\ UNCHANGED <<ticket, compte, enFile, coupe, lu, renouv, achats, redemarrages, oubli>>
  BY DEF Partir, compteurs
<1>2. /\ cookie' \in BOOLEAN /\ session' \in BOOLEAN /\ (cookie' => cookie) /\ (session' => session)
  <2>1. CASE session' = FALSE /\ UNCHANGED cookie
    BY <2>1, Acquis
  <2>2. CASE cookie' = FALSE /\ UNCHANGED session
    BY <2>2, Acquis
  <2>3. QED
    BY <1>1, <2>1, <2>2
<1>3. Pas("file")
  BY <1>1, <1>2, Acquis DEF Pas, Tient, EnAttenteDeRejeu
<1>4. FileTenue'
  BY <1>1, Acquis DEF FileTenue
<1>5. QED
  BY <1>1, <1>3, <1>4, Acquis, PasJuste

LEMMA ReactiverJuste ==
  ASSUME IInv, Reactiver
  PROVE  IInv'
<1>1. /\ compte' = [compte EXCEPT !.disabled = FALSE]
      /\ UNCHANGED <<ticket, cookie, session, enFile, coupe, lu, renouv, achats, redemarrages, oubli>>
  BY DEF Reactiver, appareil, compteurs
<1>2. compte' \in [fin : {compte.fin}, disabled : BOOLEAN]
  BY <1>1, Acquis
<1>3. Pas("file")
  BY <1>1, Acquis DEF Pas, Tient, EnAttenteDeRejeu
<1>4. FileTenue'
  BY <1>1, Acquis DEF FileTenue
<1>5. QED
  BY <1>1, <1>2, <1>3, <1>4, Acquis, PasJuste

\* By a cookie, without RADIUS: nobody who still closes the sessions has left
\* that cookie behind.
LEMMA RevenirParCookieJuste ==
  ASSUME IInv, RevenirParCookie
  PROVE  IInv'
<1>1. /\ cookie /\ session' = TRUE
      /\ UNCHANGED <<ticket, compte, cookie, enFile, coupe, lu, renouv, achats, redemarrages, oubli>>
  BY DEF RevenirParCookie, compteurs
<1>2. Datees'
  BY <1>1, DatesAvant, DatesStables DEF Datees
<1>3. TypeOK' /\ Bornes'
  BY <1>1, <1>2, Acquis, DatesAvant, DatesApres
<1>4. FileTenue' /\ ProlongationSuivie'
  BY <1>1 DEF IInv, FileTenue, ProlongationSuivie
<1>5. Repondu'
  <2>1. \A a \in Coupeurs : Tient(a) => Tient(a)'
    BY <1>1 DEF Tient
  <2>2. EnAttenteDeRejeu' = EnAttenteDeRejeu /\ AccesOuvert
    BY <1>1 DEF EnAttenteDeRejeu, AccesOuvert
  <2>3. QED
    BY <1>1, <2>1, <2>2 DEF IInv, Repondu
<1>6. QED
  BY <1>3, <1>4, <1>5 DEF IInv

LEMMA SeConnecterJuste ==
  ASSUME IInv, SeConnecter
  PROVE  IInv'
<1>1. /\ compte.fin # 0 /\ session' = TRUE /\ cookie' = TRUE
      /\ UNCHANGED <<ticket, enFile, coupe, lu, renouv, achats, redemarrages, oubli>>
  BY DEF SeConnecter, compteurs
<1>. PICK d \in Empilees : compte' = [compte EXCEPT !.fin = IF @ = Aucune THEN d ELSE @]
  BY DEF SeConnecter
<1>2. compte \in [fin : DatesDIci, disabled : BOOLEAN] /\ d \in DatesDIci
  <2>1. d \in Nat /\ d <= Borne(Faits)
    BY DatesAvant, BorneNat, RachatNat
  <2>2. QED
    BY <2>1, DatesAvant DEF Datees, DatesDIci, DatesDe
<1>3. /\ compte' \in [fin : DatesDIci, disabled : BOOLEAN]
      /\ compte'.fin # 0
  <2>1. d # 0
    BY RachatNat
  <2>2. QED
    BY <1>1, <1>2, <2>1
<1>4. Datees'
  BY <1>1, <1>3, DatesAvant, DatesStables DEF Datees
<1>5. TypeOK' /\ Bornes'
  BY <1>1, <1>4, Acquis, DatesAvant, DatesApres
<1>6. FileTenue' /\ ProlongationSuivie' /\ Repondu'
  BY <1>1, <1>3 DEF IInv, FileTenue, ProlongationSuivie, Repondu
<1>7. QED
  BY <1>5, <1>6 DEF IInv

\* The last tick of an account finds its renewal about to be written.
LEMMA TickJuste ==
  ASSUME IInv, Tick
  PROVE  IInv'
<1>1. /\ ticket' = [ticket EXCEPT !.expiresAt = Vieillir(@)]
      /\ compte' = [compte EXCEPT !.fin = Vieillir(@)]
      /\ lu' = [lu EXCEPT !.expiresAt = Vieillir(@), !.fin = Vieillir(@)]
      /\ renouv' = [renouv EXCEPT !.expiresAt = Vieillir(@), !.rendue = Vieillir(@)]
      /\ UNCHANGED <<cookie, session, enFile, coupe, achats, redemarrages, oubli>>
  BY DEF Tick, appareil, compteurs
<1>2. Datees /\ \A d \in DatesDIci : Vieillir(d) \in DatesDIci
  BY DatesAvant, LesDates DEF DatesDIci
<1>3. renouv'.etape = renouv.etape /\ Faits' = Faits
  BY <1>1, <1>2 DEF Datees, Faits
<1>4. DatesDIci' = DatesDIci
  BY <1>3, DatesAvant, BorneMonte
<1>5. Datees'
  BY <1>1, <1>2, <1>4 DEF Datees
<1>6. TypeOK' /\ Bornes'
  BY <1>1, <1>3, <1>5, Acquis, DatesAvant, DatesApres
<1>7. ticket'.status = ticket.status /\ compte'.fin = Vieillir(compte.fin)
        /\ (compte.fin = 0 => compte'.fin = 0)
  BY <1>1, <1>2 DEF Datees, Vieillir
<1>8. FileTenue' /\ ProlongationSuivie'
  BY <1>1, <1>3, <1>7 DEF IInv, FileTenue, ProlongationSuivie
<1>9. Repondu'
  <2>1. \A a \in Coupeurs : Tient(a)' = Tient(a)
    BY <1>1 DEF Tient
  <2>2. EnAttenteDeRejeu' = EnAttenteDeRejeu /\ AccesOuvert' = AccesOuvert
    BY <1>1 DEF EnAttenteDeRejeu, AccesOuvert
  <2>3. QED
    BY <1>1, <1>3, <1>7, <2>1, <2>2 DEF IInv, Repondu, ProlongationSuivie
<1>10. QED
  BY <1>6, <1>8, <1>9 DEF IInv

-----------------------------------------------------------------------------
(* The renewal and the restart.                                            *)

LEMMA LireTicketJuste ==
  ASSUME IInv, LireTicket
  PROVE  IInv'
<1>1. /\ renouv.etape = "repos" /\ achats < MaxRenouvellements /\ achats' = achats + 1
      /\ renouv' = [SansRenouv EXCEPT !.etape = "attribution", !.expiresAt = ticket.expiresAt]
      /\ UNCHANGED <<ticket, compte, cookie, session, enFile, coupe, lu, redemarrages, oubli>>
  BY DEF LireTicket, appareil
<1>2. /\ renouv' \in [etape : {"repos", "attribution", "ecriture"}, expiresAt : DatesDIci,
                      rendue : DatesDIci]
      /\ renouv'.etape = "attribution"
  BY <1>1, DatesAvant DEF SansRenouv, Datees
<1>3. achats' \in 0..MaxRenouvellements /\ achats' # 0 /\ Faits' = Faits
  <2>1. achats \in Nat /\ MaxRenouvellements \in Nat
    BY DatesAvant, ConstantesTicket
  <2>2. Faits = achats /\ Faits' = achats' - 1
    BY <1>1, <1>2 DEF Faits
  <2>3. QED
    BY <1>1, <2>1, <2>2
<1>4. DatesDIci' = DatesDIci
  BY <1>3, DatesAvant, BorneMonte
<1>5. Datees'
  BY <1>1, <1>2, <1>4, DatesAvant DEF Datees
<1>6. TypeOK' /\ Bornes'
  BY <1>1, <1>3, <1>5, Acquis, DatesAvant, DatesApres
<1>7. FileTenue' /\ ProlongationSuivie'
  BY <1>1 DEF IInv, FileTenue, ProlongationSuivie
<1>8. Repondu'
  BY <1>1 DEF IInv, Repondu, Tient, EnAttenteDeRejeu, AccesOuvert
<1>9. QED
  BY <1>6, <1>7, <1>8 DEF IInv

LEMMA AttribuerJuste ==
  ASSUME IInv, Attribuer
  PROVE  IInv'
<1>1. /\ renouv.etape = "attribution"
      /\ UNCHANGED <<ticket, cookie, session, enFile, coupe, lu, achats, redemarrages, oubli>>
  BY DEF Attribuer, appareil, compteurs
<1>2. PICK rendue \in IF compte.fin = Aucune THEN {Aucune}
                     ELSE Empilees \union {compte.fin + d : d \in Empilees} :
        /\ compte' = [compte EXCEPT !.fin = PlusTard(@, rendue)]
        /\ renouv' = [renouv EXCEPT !.etape = "ecriture", !.rendue = rendue]
  BY DEF Attribuer
<1>3. Datees /\ renouv'.etape = "ecriture" /\ renouv'.rendue = rendue
        /\ renouv'.expiresAt = renouv.expiresAt
  BY <1>2, DatesAvant DEF Datees
<1>4. Faits' = Faits + 1
  <2>1. Faits = achats - 1 /\ Faits' = achats
    BY <1>1, <1>3 DEF Faits
  <2>2. QED
    BY <2>1, DatesAvant
<1>5. /\ DatesDIci \subseteq DatesDIci' /\ Borne(Faits') = Borne(Faits) + Rachat
      /\ Borne(Faits) \in Nat /\ Rachat \in Nat /\ Rachat <= Borne(Faits)
  <2>1. Faits' \in Nat /\ Faits <= Faits'
    BY <1>4, DatesAvant
  <2>2. QED
    BY <1>4, <2>1, DatesAvant, BorneMonte, BorneNat, RachatNat
<1>6. rendue \in DatesDIci'
  <2>1. compte.fin \in {Aucune} \union 0..Borne(Faits)
    BY <1>3 DEF Datees, DatesDIci, DatesDe
  <2>2. DatesDIci' = {Aucune} \union 0..Borne(Faits')
    BY DEF DatesDIci, DatesDe, Borne
  <2>3. \A d \in Empilees : d \in DatesDIci' /\ (compte.fin # Aucune => compte.fin + d \in DatesDIci')
    BY <1>5, <2>1, <2>2, RachatNat
  <2>4. Aucune \in DatesDIci'
    BY <2>2
  <2>5. QED
    BY <1>2, <2>3, <2>4
<1>7. compte' \in [fin : DatesDIci', disabled : BOOLEAN]
  <2>1. compte.fin \in DatesDIci' /\ compte.disabled \in BOOLEAN
    BY <1>3, <1>5 DEF Datees
  <2>2. PlusTard(compte.fin, rendue) \in DatesDIci'
    BY <1>6, <2>1 DEF PlusTard
  <2>3. QED
    BY <1>2, <1>3, <2>1, <2>2 DEF Datees
<1>8. Datees'
  BY <1>1, <1>2, <1>3, <1>5, <1>6, <1>7 DEF Datees
<1>9. TypeOK' /\ Bornes'
  BY <1>1, <1>3, <1>8, Acquis, DatesAvant, DatesApres
<1>10. FileTenue' /\ ProlongationSuivie' /\ Repondu'
  BY <1>1, <1>3 DEF IInv, FileTenue, ProlongationSuivie, Repondu
<1>11. QED
  BY <1>9, <1>10 DEF IInv

\* The renewal ends: what it gave up is known, or the ticket is active.
LEMMA FinDeRenouvellement ==
  ASSUME IInv, renouv' = SansRenouv, achats' = achats, redemarrages' \in 0..MaxRedemarrages
  PROVE  /\ renouv'.etape = "repos" /\ DatesDIci \subseteq DatesDIci'
         /\ renouv' \in [etape : {"repos", "attribution", "ecriture"}, expiresAt : DatesDIci',
                         rendue : DatesDIci']
<1>1. renouv'.etape = "repos" /\ Faits' = achats
  BY DEF SansRenouv, Faits
<1>2. Faits' \in Nat /\ Faits <= Faits'
  BY <1>1, DatesAvant DEF Faits
<1>3. DatesDIci \subseteq DatesDIci' /\ Aucune \in DatesDIci'
  BY <1>2, DatesAvant, BorneMonte
<1>4. QED
  BY <1>1, <1>3 DEF SansRenouv

LEMMA EcrireProlongationJuste ==
  ASSUME IInv, EcrireProlongation
  PROVE  IInv'
<1>1. /\ ticket' = Prolonge /\ renouv' = SansRenouv
      /\ UNCHANGED <<compte, cookie, session, enFile, coupe, lu, achats, redemarrages, oubli>>
  BY DEF EcrireProlongation, appareil, compteurs
<1>2. /\ renouv'.etape = "repos" /\ DatesDIci \subseteq DatesDIci'
      /\ renouv' \in [etape : {"repos", "attribution", "ecriture"}, expiresAt : DatesDIci',
                      rendue : DatesDIci']
  BY <1>1, DatesAvant, FinDeRenouvellement
<1>3. ticket' \in [status : {"SOLD", "ACTIVE", "EXPIRED"}, expiresAt : DatesDIci']
        /\ ticket'.status = "ACTIVE"
  <2>1. renouv.rendue \in DatesDIci /\ renouv.expiresAt \in DatesDIci
    BY DatesAvant DEF Datees
  <2>2. PlusTard(renouv.rendue, renouv.expiresAt) \in DatesDIci'
    BY <1>2, <2>1 DEF PlusTard
  <2>3. QED
    BY <1>1, <2>2 DEF Prolonge
<1>4. Datees'
  BY <1>1, <1>2, <1>3, DatesAvant DEF Datees
<1>5. TypeOK' /\ Bornes'
  BY <1>1, <1>2, <1>4, Acquis, DatesAvant, DatesApres
<1>6. FileTenue' /\ ProlongationSuivie' /\ Repondu'
  BY <1>1, <1>3 DEF IInv, FileTenue, ProlongationSuivie, Repondu
<1>7. QED
  BY <1>5, <1>6 DEF IInv

LEMMA EchouerProlongationJuste ==
  ASSUME IInv, EchouerProlongation
  PROVE  IInv'
<1>1. /\ renouv' = SansRenouv
      /\ oubli' = IF renouv.etape = "ecriture" THEN "erreur" ELSE oubli
      /\ UNCHANGED <<ticket, compte, cookie, session, enFile, coupe, lu, achats, redemarrages>>
  BY DEF EchouerProlongation, appareil, compteurs
<1>2. /\ renouv'.etape = "repos" /\ DatesDIci \subseteq DatesDIci'
      /\ renouv' \in [etape : {"repos", "attribution", "ecriture"}, expiresAt : DatesDIci',
                      rendue : DatesDIci']
  BY <1>1, DatesAvant, FinDeRenouvellement
<1>3. Datees'
  BY <1>1, <1>2, DatesAvant DEF Datees
<1>4. oubli' \in {"non", "erreur", "avale", "abandon", "arret", "perime", "doublon"}
  BY <1>1, Acquis
<1>5. TypeOK' /\ Bornes'
  BY <1>1, <1>2, <1>3, <1>4, Acquis, DatesAvant, DatesApres
<1>6. FileTenue' /\ ProlongationSuivie'
  BY <1>1 DEF IInv, FileTenue, ProlongationSuivie
<1>7. Repondu'
  BY <1>1 DEF IInv, Repondu, Tient, EnAttenteDeRejeu, AccesOuvert
<1>8. QED
  BY <1>5, <1>6, <1>7 DEF IInv

LEMMA RedemarrerJuste ==
  ASSUME IInv, Redemarrer
  PROVE  IInv'
<1>1. /\ redemarrages < MaxRedemarrages /\ redemarrages' = redemarrages + 1
      /\ oubli' = IF EnCoupure \ {"file"} # {} \/ renouv.etape = "ecriture" THEN "arret" ELSE oubli
      /\ coupe' = [a \in Coupeurs |-> AuRepos]
      /\ lu' = RienLu /\ renouv' = SansRenouv
      /\ UNCHANGED <<ticket, compte, cookie, session, enFile, achats>>
  BY DEF Redemarrer, appareil
<1>2. redemarrages' \in 0..MaxRedemarrages
  BY <1>1, DatesAvant, ConstantesTicket
<1>3. coupe' \in [Coupeurs -> Parties] /\ coupe'["file"].etape = "repos"
  BY <1>1, Acquis DEF AuRepos, Parties
<1>4. /\ renouv'.etape = "repos" /\ DatesDIci \subseteq DatesDIci'
      /\ renouv' \in [etape : {"repos", "attribution", "ecriture"}, expiresAt : DatesDIci',
                      rendue : DatesDIci']
  BY <1>1, <1>2, FinDeRenouvellement
<1>5. Datees'
  <2>1. lu' \in [status : {"SOLD", "ACTIVE"}, expiresAt : DatesDIci', fin : DatesDIci', echu : BOOLEAN]
    BY <1>1, <1>4, RienLuType
  <2>2. QED
    BY <1>1, <1>4, <2>1, DatesAvant DEF Datees
<1>6. oubli' \in {"non", "erreur", "avale", "abandon", "arret", "perime", "doublon"}
  BY <1>1, Acquis
<1>7. TypeOK' /\ Bornes'
  BY <1>1, <1>2, <1>3, <1>4, <1>5, <1>6, Acquis, DatesAvant, DatesApres
<1>8. FileTenue' /\ ProlongationSuivie'
  BY <1>1, <1>3 DEF IInv, FileTenue, ProlongationSuivie
\* What the file was cutting still waits in the table.
<1>9. Repondu'
  <2>1. SUFFICES ASSUME ticket.status = "EXPIRED", compte.fin = 0, AccesOuvert', oubli' = "non"
                 PROVE  EnAttenteDeRejeu'
    BY <1>1 DEF Repondu
  <2>2. EnCoupure \ {"file"} = {} /\ renouv.etape # "ecriture" /\ oubli = "non" /\ AccesOuvert
    BY <1>1, <2>1 DEF AccesOuvert
  <2>3. (\E a \in Coupeurs : Tient(a)) \/ EnAttenteDeRejeu
    BY <2>1, <2>2 DEF IInv, Repondu
  <2>4. \A a \in Coupeurs : Tient(a) => a = "file" /\ coupe[a].etape # "repos"
    BY <2>2 DEF EnCoupure, EtapesDeCoupure, Tient
  <2>5. enFile
    BY <2>3, <2>4, Acquis DEF FileTenue, EnAttenteDeRejeu
  <2>6. QED
    BY <1>1, <1>3, <2>5 DEF EnAttenteDeRejeu
<1>10. QED
  BY <1>7, <1>8, <1>9 DEF IInv

-----------------------------------------------------------------------------
(* The initial state and the whole.                                        *)

LEMMA InitIInv == Init => IInv
<1>. SUFFICES ASSUME Init PROVE IInv
  OBVIOUS
<1>1. Faits = 0 /\ 0 \in Nat
  BY DEF Init, Faits, SansRenouv
<1>2. Borne(Faits) \in Nat /\ Borne(MaxRenouvellements) \in Nat
  BY <1>1, BorneNat, ConstantesTicket
<1>3. Aucune \in Dates /\ Aucune \in DatesDe(Borne(Faits))
  BY DEF Dates, DatesDe
<1>4. coupe \in [Coupeurs -> Parties] /\ \A a \in Coupeurs : coupe[a].etape = "repos"
  BY DEF Init, AuRepos, Parties
<1>5. TypeOK
  <2>1. achats \in 0..MaxRenouvellements /\ redemarrages \in 0..MaxRedemarrages
    BY ConstantesTicket DEF Init
  <2>2. /\ ticket \in [status : {"SOLD", "ACTIVE", "EXPIRED"}, expiresAt : Dates]
        /\ compte \in [fin : Dates, disabled : BOOLEAN]
        /\ lu \in [status : {"SOLD", "ACTIVE"}, expiresAt : Dates, fin : Dates, echu : BOOLEAN]
        /\ renouv \in [etape : {"repos", "attribution", "ecriture"}, expiresAt : Dates, rendue : Dates]
    BY <1>3 DEF Init, RienLu, SansRenouv
  <2>3. cookie \in BOOLEAN /\ session \in BOOLEAN /\ enFile \in BOOLEAN /\ oubli = "non"
    <3>1. cookie = FALSE /\ session = FALSE /\ enFile = FALSE /\ oubli = "non"
      BY DEF Init
    <3>2. QED
      BY <3>1
  <2>4. QED
    BY <1>4, <2>1, <2>2, <2>3, Types
<1>6. Bornes
  BY <1>3 DEF Bornes, Init, RienLu, SansRenouv
<1>7. FileTenue
  BY <1>4 DEF FileTenue, Coupeurs
<1>8. ProlongationSuivie /\ Repondu
  BY DEF ProlongationSuivie, Repondu, Init
<1>9. QED
  BY <1>5, <1>6, <1>7, <1>8 DEF IInv

LEMMA ImmobileJuste ==
  ASSUME IInv, UNCHANGED vars
  PROVE  IInv'
<1>1. UNCHANGED <<ticket, compte, cookie, session, enFile, coupe, lu, renouv, achats, redemarrages, oubli>>
  BY DEF vars, appareil, compteurs
<1>2. Pas("file") /\ FileTenue'
  BY <1>1, Acquis DEF Pas, Tient, EnAttenteDeRejeu, FileTenue
<1>3. QED
  BY <1>1, <1>2, Acquis, PasJuste

LEMMA NextIInv == IInv /\ [Next]_vars => IInv'
<1>. SUFFICES ASSUME IInv, [Next]_vars PROVE IInv'
  OBVIOUS
<1>1. CASE UNCHANGED vars
  BY <1>1, ImmobileJuste
<1>2. CASE SeConnecter \/ RevenirParCookie \/ Partir \/ Tick \/ Reactiver
  BY <1>2, SeConnecterJuste, RevenirParCookieJuste, PartirJuste, TickJuste, ReactiverJuste
<1>3. CASE LireEchus \/ MarquerExpire \/ LireCandidats \/ LireRouteur \/ Recopier
  BY <1>3, LireEchusJuste, MarquerExpireJuste, LireCandidatsJuste, LireRouteurJuste, RecopierJuste
<1>4. CASE Rejouer \/ EchecDuRejeu
  BY <1>4, RejouerJuste, EchecDuRejeuJuste
<1>5. ASSUME NEW a \in Coupeurs, Couper(a)
      PROVE  IInv'
  BY <1>5, DesactiverCompteJuste, ListerCookiesJuste, EffacerCookiesJuste, ListerSessionsJuste,
     FermerSessionsJuste, InjoignableJuste, AutreErreurJuste DEF Couper
<1>6. CASE LireTicket \/ Attribuer \/ EcrireProlongation \/ EchouerProlongation
  BY <1>6, LireTicketJuste, AttribuerJuste, EcrireProlongationJuste, EchouerProlongationJuste
<1>7. CASE Redemarrer
  BY <1>7, RedemarrerJuste
<1>8. QED
  BY <1>1, <1>2, <1>3, <1>4, <1>5, <1>6, <1>7 DEF Next

-----------------------------------------------------------------------------
\* The inductive invariant of the end of a ticket: an open access that should be
\* closed has a party that will have closed all of it, a cut that waits for a
\* replay, or a renewal about to be written (ExpiryJobService,
\* VoucherReconciliationService, RouterOperationQueue, VouchersService).
THEOREM Invariance == Spec => []IInv
<1>1. QED
  BY InitIInv, NextIInv, PTL DEF Spec

\* Types; no date of the ticket or of its account goes further than one period
\* for each time the assignment of the sale, or of a renewal, was sent, the
\* answers that were lost included (renouveler, withControlledRetry).
THEOREM TypageTicket == Spec => []TypeOK
<1>1. IInv => TypeOK
  BY DEF IInv
<1>2. QED
  BY <1>1, Invariance, PTL

\* For any period, renewals and restarts, the access of an expired ticket is
\* closed, or somebody answers for it, or one of the six named losses happened
\* (RouterAccessService.revoke and its callers).
THEOREM CoupuresSuivies == Spec => []CoupureSuivie
<1>1. IInv => CoupureSuivie
  <2>1. SUFFICES ASSUME IInv, ticket.status = "EXPIRED", compte.fin = 0, AccesOuvert, oubli = "non"
                 PROVE  PrisEnCharge
    BY DEF CoupureSuivie
  <2>2. (\E a \in Coupeurs : Tient(a)) \/ EnAttenteDeRejeu \/ renouv.etape = "ecriture"
    BY <2>1 DEF IInv, Repondu
  <2>3. \A a \in Coupeurs : Tient(a) => a \in EnCoupure
    BY DEF Tient, EnCoupure, EtapesDeCoupure
  <2>4. QED
    BY <2>2, <2>3 DEF PrisEnCharge, EnAttenteDeRejeu
<1>2. QED
  BY <1>1, Invariance, PTL
=============================================================================
