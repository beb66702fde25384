------------------------- MODULE DeferredOperations -------------------------
(***************************************************************************)
(* RouterOperationQueue: the writes one router missed, kept in the table   *)
(* router_operations and replayed when the breaker hears of its return.    *)
(*                                                                         *)
(* One process (the application runs as one): its memory is the router's   *)
(* health, the flag "draining", the drains in progress and the callers in  *)
(* the middle of enqueue; a restart loses all of it and keeps the table.   *)
(* Every await of drain, replay and enqueue is a place where other steps   *)
(* run.  A row is named by its place in the order of createdAt.            *)
(***************************************************************************)
EXTENDS RouterHealth, FiniteSets

CONSTANTS
  Liens,          \* how the router may answer: "bon", "coupe", "refuse" (bound)
  Modifiable,     \* whether its parameters may be changed (bound)
  Ops,            \* (kind, payload) pairs a caller may defer
  Impossibles,    \* those the router refuses for ever (account deleted)
  Demandeurs,     \* callers that may be in enqueue at the same time
  Vidanges,       \* calls of drain that may be in progress
  MaxLignes,      \* rows the table may hold (bound)
  MaxAttempts,    \* MAX_ATTEMPTS
  Lot,            \* rows one drain reads: take: 200
  MaxRedemarrages, \* restarts that are explored (bound)
  MaxPannes        \* failures of the database that are explored (bound)

ASSUME ConstantesFile ==
  /\ "bon" \in Liens /\ Liens \subseteq {"bon", "coupe", "refuse"}
  /\ Modifiable \in BOOLEAN
  /\ Impossibles \subseteq Ops
  /\ MaxLignes \in Nat
  /\ MaxAttempts \in Nat \ {0}
  /\ Lot \in Nat \ {0}
  /\ MaxRedemarrages \in Nat
  /\ MaxPannes \in Nat

Lignes == 1..MaxLignes

VARIABLES
  lien,      \* how the router answers now
  sante,     \* its RouterHealth
  table,     \* router_operations, per row: op, status, attempts
  draining,  \* the router is in the set "draining"
  vidange,   \* per call of drain: etape, rows left, attempts read, outcome
  demande,   \* per caller: etape and op
  reprise,   \* vidangeAuDemarrage has still to run
  redemarrages, \* restarts so far
  pannes,    \* failures of the database so far
  essais,    \* per row, times it was tried; not in the code
  effets,    \* per row, times it took effect in this life of the process; idem
  sansReponse, \* per row, those of them whose answer never came; idem
  faites,    \* rows that took effect once; idem
  heritees   \* rows that waited when the process started and that it still
             \* owes a try; idem

incidents == <<redemarrages, pannes>>
temoins == <<essais, effets, sansReponse, faites, heritees>>
vars == <<lien, sante, table, draining, vidange, demande, reprise, incidents, temoins>>

Absente == [op |-> "aucune", status |-> "ABSENTE", attempts |-> 0]
AuRepos == [etape |-> "repos", restent |-> {}, lues |-> [l \in Lignes |-> 0], fait |-> FALSE]
SansDemande == [etape |-> "repos", op |-> "aucune"]

EnAttente(l) == table[l].status = "EN_ATTENTE"
Premiere(L) == CHOOSE l \in L : \A k \in L : l <= k
Libres == {l \in Lignes : table[l].status = "ABSENTE"}
EnCours == {d \in Demandeurs : demande[d].etape # "repos"}

Init ==
  /\ lien = "bon"
  /\ sante = Neuf
  /\ table = [l \in Lignes |-> Absente]
  /\ draining = FALSE
  /\ vidange = [v \in Vidanges |-> AuRepos]
  /\ demande = [d \in Demandeurs |-> SansDemande]
  /\ reprise = TRUE
  /\ redemarrages = 0
  /\ pannes = 0
  /\ essais = [l \in Lignes |-> 0]
  /\ effets = [l \in Lignes |-> 0]
  /\ sansReponse = [l \in Lignes |-> 0]
  /\ faites = {}
  /\ heritees = {}

-----------------------------------------------------------------------------
\* (Mutated form of CommencerVidange: no test of the set "draining".)
CommencerSansVerrou(v) ==
  /\ vidange[v].etape = "repos"
  /\ draining' = TRUE
  /\ vidange' = [vidange EXCEPT ![v].etape = "lecture"]

\* drain() up to its first await: another drain of the router gives up.
CommencerVidange(v) ==
  /\ vidange[v].etape = "repos"
  /\ IF draining THEN UNCHANGED <<draining, vidange>>
     ELSE /\ draining' = TRUE
          /\ vidange' = [vidange EXCEPT ![v].etape = "lecture"]

\* What a call that went through leaves of the record h, if the router
\* answers r, and the listeners it wakes up: onRecovered starts a drain.
ApresReponse(h, r) ==
  CASE r = "bon" -> ApresSucces(h)
    [] r = "refuse" -> ApresRefusRouteur(h)
    [] r = "coupe" -> ApresPanneReseau(h)

Prevenir(h, r) ==
  IF r = "bon" /\ SignaleRetour(h)
  THEN \E v \in Vidanges : CommencerVidange(v)
  ELSE UNCHANGED <<draining, vidange>>

\* A call to the router by the rest of the application.
Appeler ==
  /\ ~Refuse(sante)
  /\ LET h == ApresAutorisation(sante) IN
       /\ sante' = ApresReponse(h, lien)
       /\ Prevenir(h, lien)
  /\ UNCHANGED <<lien, table, demande, reprise, incidents, temoins>>

\* POST :id/operations/drain, from the console.
VidangeManuelle ==
  /\ \E v \in Vidanges : CommencerVidange(v)
  /\ UNCHANGED <<lien, sante, table, demande, reprise, incidents, temoins>>

\* vidangeAuDemarrage: a drain if anything waits.
Reprendre ==
  /\ reprise
  /\ reprise' = FALSE
  /\ IF \E l \in Lignes : EnAttente(l)
     THEN \E v \in Vidanges : CommencerVidange(v)
     ELSE UNCHANGED <<draining, vidange>>
  /\ UNCHANGED <<lien, sante, table, demande, incidents, temoins>>

-----------------------------------------------------------------------------
\* The end of drain: its finally.
FinirVidange(v) ==
  /\ draining' = FALSE
  /\ vidange' = [vidange EXCEPT ![v] = AuRepos]

\* The oldest waiting rows, with their attempts as they are now.
Waiting ==
  LET attendent == {l \in Lignes : EnAttente(l)}
  IN  {l \in attendent : Cardinality({k \in attendent : k < l}) < Lot}

\* (Mutated form of Lire: the return on an empty table forgets the flag.)
LireSansRendre(v) ==
  /\ vidange[v].etape = "lecture"
  /\ vidange' = [vidange EXCEPT ![v] =
       IF Waiting = {} THEN AuRepos
       ELSE [etape |-> "rejeu", restent |-> Waiting, fait |-> FALSE,
             lues |-> [l \in Lignes |-> IF l \in Waiting THEN table[l].attempts ELSE 0]]]
  /\ UNCHANGED <<lien, sante, table, draining, demande, reprise, incidents, temoins>>

Lire(v) ==
  /\ vidange[v].etape = "lecture"
  /\ IF Waiting = {} THEN FinirVidange(v)
     ELSE /\ vidange' = [vidange EXCEPT ![v] =
               [etape |-> "rejeu", restent |-> Waiting, fait |-> FALSE,
                lues |-> [l \in Lignes |-> IF l \in Waiting THEN table[l].attempts ELSE 0]]]
          /\ UNCHANGED draining
  /\ UNCHANGED <<lien, sante, table, demande, reprise, incidents, temoins>>

\* replay: forRouter and execute, through the breaker.  A call the breaker
\* refuses fails at once.  One that fails after it was sent may have had its effect:
\* the answer to the last write was lost, or the write resent after it was refused;
\* a cut that stops half way has not.
Executer(v) ==
  LET l == Premiere(vidange[v].restent)
      reponse == IF table[l].op \in Impossibles /\ lien = "bon" THEN "refuse" ELSE lien
      h == ApresAutorisation(sante)
      aboutit == ~Refuse(sante) /\ reponse = "bon"
  IN
  /\ vidange[v].etape = "rejeu"
  /\ sante' = IF Refuse(sante) THEN sante ELSE ApresReponse(h, reponse)
  /\ vidange' = [vidange EXCEPT ![v].etape = "inscription", ![v].fait = aboutit]
  /\ essais' = [essais EXCEPT ![l] = @ + 1]
  /\ \E perdue \in BOOLEAN :
       /\ perdue => ~Refuse(sante) /\ reponse # "bon" /\ table[l].op \notin Impossibles
       /\ effets' = IF aboutit \/ perdue THEN [effets EXCEPT ![l] = @ + 1] ELSE effets
       /\ sansReponse' = IF perdue THEN [sansReponse EXCEPT ![l] = @ + 1] ELSE sansReponse
       /\ faites' = IF aboutit \/ perdue THEN faites \union {l} ELSE faites
  /\ heritees' = heritees \ {l}
  /\ UNCHANGED <<lien, table, draining, demande, reprise, incidents>>

\* (Mutated forms of Inscrite: one try too many; a failure is not counted.)
InscriteUnDePlus(ligne, tentatives, fait) ==
  [ligne EXCEPT
     !.attempts = tentatives + 1,
     !.status = IF fait THEN "TERMINEE"
                ELSE IF tentatives + 1 > MaxAttempts THEN "ABANDONNEE" ELSE @]
InscriteSansCompter(ligne, tentatives, fait) ==
  [ligne EXCEPT
     !.attempts = IF fait THEN tentatives + 1 ELSE tentatives,
     !.status = IF fait THEN "TERMINEE" ELSE @]

\* The row as replay rewrites it, from the attempts drain had read.
Inscrite(ligne, tentatives, fait) ==
  [ligne EXCEPT
     !.attempts = tentatives + 1,
     !.status = IF fait THEN "TERMINEE"
                ELSE IF tentatives + 1 >= MaxAttempts THEN "ABANDONNEE" ELSE @]

\* replay's update, then the loop of drain: it stops after a failure that
\* leaves the breaker shut, and at the last row it had read.
InscrireComme(v, fait) ==
  LET l == Premiere(vidange[v].restent)
      apres == Inscrite(table[l], vidange[v].lues[l], fait)
      retombe == apres.status = "EN_ATTENTE" /\ Bloque(sante)
  IN
  /\ vidange[v].etape = "inscription"
  /\ table' = [table EXCEPT ![l] = apres]
  /\ IF vidange[v].restent = {l} \/ retombe THEN FinirVidange(v)
     ELSE /\ vidange' = [vidange EXCEPT ![v].etape = "rejeu", ![v].restent = @ \ {l}]
          /\ UNCHANGED draining
  /\ heritees' = IF retombe THEN {} ELSE heritees
  /\ UNCHANGED <<lien, sante, demande, reprise, redemarrages, essais, effets, sansReponse, faites>>

Inscrire(v) == InscrireComme(v, vidange[v].fait) /\ UNCHANGED pannes

\* A request to the database fails.  The update of a success is inside the
\* try: its catch writes the row down as a failure.  A failure of the reading,
\* or of the update of the catch, goes through the finally.
PerdreLaBase(v) ==
  /\ pannes < MaxPannes
  /\ pannes' = pannes + 1
  /\ \/ vidange[v].fait /\ InscrireComme(v, FALSE)
     \/ /\ vidange[v].etape \in {"lecture", "inscription"}
        /\ FinirVidange(v)
        /\ heritees' = {}
        /\ UNCHANGED <<lien, sante, table, demande, reprise, redemarrages, essais, effets,
                       sansReponse, faites>>

-----------------------------------------------------------------------------
\* A caller (expiry job, reconciliation) whose write was refused by the
\* breaker catches RouterUnreachableException and will enqueue it.
EtreRefuse(d, o) ==
  /\ demande[d].etape = "repos"
  /\ Refuse(sante)
  /\ Cardinality(EnCours) < Cardinality(Libres)
  /\ demande' = [demande EXCEPT ![d] = [etape |-> "recherche", op |-> o]]
  /\ UNCHANGED <<lien, sante, table, draining, vidange, reprise, incidents, temoins>>

\* enqueue: the same operation already waits, or there is a row to create.
Chercher(d) ==
  /\ demande[d].etape = "recherche"
  /\ demande' = [demande EXCEPT ![d] =
       IF \E l \in Lignes : EnAttente(l) /\ table[l].op = demande[d].op
       THEN SansDemande ELSE [@ EXCEPT !.etape = "creation"]]
  /\ UNCHANGED <<lien, sante, table, draining, vidange, reprise, incidents, temoins>>

Creer(d) ==
  /\ demande[d].etape = "creation"
  /\ table' = [table EXCEPT ![Premiere(Libres)] =
       [op |-> demande[d].op, status |-> "EN_ATTENTE", attempts |-> 0]]
  /\ demande' = [demande EXCEPT ![d] = SansDemande]
  /\ UNCHANGED <<lien, sante, draining, vidange, reprise, incidents, temoins>>

-----------------------------------------------------------------------------
\* The link and the credentials change under the application.
Changer ==
  /\ lien' \in Liens \ {lien}
  /\ UNCHANGED <<sante, table, draining, vidange, demande, reprise, incidents, temoins>>

\* invalidate(): new parameters, the health entry is deleted.
ModifierRouteur ==
  /\ Modifiable
  /\ sante' = Neuf
  /\ UNCHANGED <<lien, table, draining, vidange, demande, reprise, incidents, temoins>>

\* The process stops, wherever it is, and starts again.
Redemarrer ==
  /\ redemarrages < MaxRedemarrages
  /\ redemarrages' = redemarrages + 1
  /\ sante' = Neuf
  /\ draining' = FALSE
  /\ vidange' = [v \in Vidanges |-> AuRepos]
  /\ demande' = [d \in Demandeurs |-> SansDemande]
  /\ reprise' = TRUE
  /\ effets' = [l \in Lignes |-> 0]
  /\ sansReponse' = [l \in Lignes |-> 0]
  /\ heritees' = Waiting
  /\ UNCHANGED <<lien, table, pannes, essais, faites>>

Tick ==
  /\ sante' = UnTickPlusTard(sante)
  /\ UNCHANGED <<lien, table, draining, vidange, demande, reprise, incidents, temoins>>

Next ==
  \/ Appeler \/ VidangeManuelle \/ Reprendre
  \/ \E v \in Vidanges : Lire(v) \/ Executer(v) \/ Inscrire(v) \/ PerdreLaBase(v)
  \/ \E d \in Demandeurs : Chercher(d) \/ Creer(d) \/ (\E o \in Ops : EtreRefuse(d, o))
  \/ Changer \/ ModifierRouteur \/ Redemarrer \/ Tick

\* The node process runs what is ready, time passes, and the application
\* keeps calling its router (the minute and quarter-hour jobs, the screens).
\* Nobody owes a manual drain, a restart or a change of the link.
Fairness ==
  /\ WF_vars(Tick)
  /\ WF_vars(Appeler)
  /\ WF_vars(Reprendre)
  /\ \A v \in Vidanges : WF_vars(Lire(v) \/ Executer(v) \/ Inscrire(v))
  /\ \A d \in Demandeurs : WF_vars(Chercher(d) \/ Creer(d))

Spec == Init /\ [][Next]_vars /\ Fairness

-----------------------------------------------------------------------------
Statuts == {"ABSENTE", "EN_ATTENTE", "TERMINEE", "ABANDONNEE"}

TypeOK ==
  /\ lien \in Liens
  /\ sante \in [state : Etats, consecutiveFailures : 0..Seuil,
                openUntil : {Aucune} \union 0..Repos,
                sondeJusqua : {Aucune} \union 0..BudgetSonde]
  /\ table \in [Lignes -> [op : Ops \union {"aucune"}, status : Statuts,
                           attempts : 0..MaxAttempts]]
  /\ draining \in BOOLEAN
  /\ vidange \in [Vidanges ->
       [etape : {"repos", "lecture", "rejeu", "inscription"}, restent : SUBSET Lignes,
        lues : [Lignes -> 0..MaxAttempts], fait : BOOLEAN]]
  /\ demande \in [Demandeurs -> [etape : {"repos", "recherche", "creation"},
                                 op : Ops \union {"aucune"}]]
  /\ reprise \in BOOLEAN
  /\ redemarrages \in 0..MaxRedemarrages
  /\ pannes \in 0..MaxPannes
  /\ essais \in [Lignes -> Nat]
  /\ effets \in [Lignes -> Nat]
  /\ sansReponse \in [Lignes -> Nat]
  /\ faites \subseteq Lignes
  /\ heritees \subseteq Lignes

\* At least once, and not twice in parallel: whatever crashes and retries, a row that is
\* closed as done has taken effect on the router; within one life of the process it takes
\* effect once, however many signals, manual drains and starts overlap, and once more per
\* failure of the database and per answer of the router that was lost (replay, drain).
RejeuFidele ==
  \A l \in Lignes :
    /\ table[l].status = "TERMINEE" => l \in faites
    /\ effets[l] <= 1 + pannes + sansReponse[l]

\* The attempts of a row are the times it was tried, except the ones that a
\* restart or a failure of the database cut before the update: none is lost to
\* an overlap, so a row is abandoned after MaxAttempts real tries and is not
\* tried for ever.
EnTrainDEtreInscrite(l) ==
  \E v \in Vidanges : vidange[v].etape = "inscription" /\ Premiere(vidange[v].restent) = l

TentativesExactes ==
  \A l \in Lignes :
    LET perdues == essais[l] - table[l].attempts
                     - (IF EnTrainDEtreInscrite(l) THEN 1 ELSE 0)
    IN  0 <= perdues /\ perdues <= redemarrages + pannes

\* What the previous process left waiting, as far as one reading goes, is
\* tried by the new one without waiting for a signal, up to a failure that
\* leaves the breaker shut or to one of the database (vidangeAuDemarrage); and
\* the router's place in "draining" is always given back.
LaFileAvance ==
  /\ heritees # {} ~> heritees = {}
  /\ draining ~> ~draining
=============================================================================
