------------------------------ MODULE JobLock ------------------------------
(***************************************************************************)
(* One row of job_locks, the lock of one scheduled job, taken by the       *)
(* executions that the timers of several processes start.  A timer fires   *)
(* whether or not the execution before it has ended, so one process may    *)
(* have several executions of the job in progress.                         *)
(*                                                                         *)
(* The row names the process that holds the lock (pid and a random         *)
(* suffix), not the execution.  Time is what is left before locked_until,  *)
(* in ticks, 0 once it is reached.                                         *)
(***************************************************************************)
EXTENDS Integers

CONSTANTS
  Processus,   \* processes of the application
  Executions,  \* executions of the job that may be in progress
  De,          \* the process each execution belongs to
  Ttl          \* ttlMs, in ticks

ASSUME ConstantesVerrou ==
  /\ De \in [Executions -> Processus]
  /\ Ttl \in Nat \ {0}

\* Holders that are no live process: nobody yet; the identity of a process
\* that died, since the one that restarts draws a new suffix.
Personne == "personne"
Disparu == "disparu"

ASSUME PorteursDistincts == {Personne, Disparu} \intersect Processus = {}

VARIABLES
  verrou,   \* the row: locked_until and holder (an absent row is a free one)
  etape,    \* per execution: "attente", "travail", "liberation"
  reste,    \* per execution in progress, what is left of the ttl it was granted
  enRetard  \* live processes that have let an execution outlast its ttl

varsVerrou == <<verrou, etape, reste, enRetard>>

InitVerrou ==
  /\ verrou = [lockedUntil |-> 0, holder |-> Personne]
  /\ etape = [e \in Executions |-> "attente"]
  /\ reste = [e \in Executions |-> 0]
  /\ enRetard = {}

\* (Mutated forms of Libre: taken over one tick early; free only when nobody
\* is named.)
LibreTropTot(v) == v.lockedUntil <= 1
LibreSansPorteur(v) == v.holder = Personne

\* WHERE job_locks.locked_until < now()
Libre(v) == v.lockedUntil = 0

\* acquire(): one SQL statement, so one step.  An execution that finds the
\* lock taken gives up its turn and changes nothing.
Acquerir(e) ==
  /\ etape[e] = "attente"
  /\ Libre(verrou)
  /\ verrou' = [lockedUntil |-> Ttl, holder |-> De[e]]
  /\ etape' = [etape EXCEPT ![e] = "travail"]
  /\ reste' = [reste EXCEPT ![e] = Ttl]
  /\ UNCHANGED enRetard

\* The job ends, well or badly: withLock goes on to its finally.
Terminer(e) ==
  /\ etape[e] = "travail"
  /\ etape' = [etape EXCEPT ![e] = "liberation"]
  /\ UNCHANGED <<verrou, reste, enRetard>>

\* (Mutated forms of Rendue: no WHERE holder; the name is cleared instead of the date.)
RendueSansPorteur(v, p) == [v EXCEPT !.lockedUntil = 0]
RendueDuNom(v, p) == IF v.holder = p THEN [v EXCEPT !.holder = Personne] ELSE v

\* UPDATE ... SET locked_until = now() WHERE holder = this process.
Rendue(v, p) == IF v.holder = p THEN [v EXCEPT !.lockedUntil = 0] ELSE v

Quitter(e) ==
  /\ etape[e] = "liberation"
  /\ etape' = [etape EXCEPT ![e] = "attente"]
  /\ reste' = [reste EXCEPT ![e] = 0]
  /\ UNCHANGED enRetard

Liberer(e) ==
  /\ Quitter(e)
  /\ verrou' = Rendue(verrou, De[e])

\* The release fails: a warning, and the lock runs to its end.
LibererEnVain(e) ==
  /\ Quitter(e)
  /\ UNCHANGED verrou

\* A process dies with its executions and comes back under a new identity.
Tuer(p) ==
  /\ verrou' = IF verrou.holder = p THEN [verrou EXCEPT !.holder = Disparu] ELSE verrou
  /\ etape' = [e \in Executions |-> IF De[e] = p THEN "attente" ELSE etape[e]]
  /\ reste' = [e \in Executions |-> IF De[e] = p THEN 0 ELSE reste[e]]
  /\ enRetard' = enRetard \ {p}

\* The clock: the code keeps dates, the model what is left before them.
Moins1(n) == IF n > 0 THEN n - 1 ELSE 0

TickVerrou ==
  /\ verrou' = [verrou EXCEPT !.lockedUntil = Moins1(@)]
  /\ reste' = [e \in Executions |-> Moins1(reste[e])]
  /\ enRetard' = enRetard \union
       {De[e] : e \in {f \in Executions : etape[f] # "attente" /\ reste[f] <= 1}}
  /\ UNCHANGED etape

NextVerrou ==
  \/ \E e \in Executions : Acquerir(e) \/ Terminer(e) \/ Liberer(e) \/ LibererEnVain(e)
  \/ \E p \in Processus : Tuer(p)
  \/ TickVerrou

\* The timers keep trying (setInterval), the job and the release end (every
\* call they make has a timeout), time passes.  Nobody has to die.
FairnessVerrou ==
  /\ WF_varsVerrou(TickVerrou)
  /\ WF_varsVerrou(\E e \in Executions : Acquerir(e))
  /\ \A e \in Executions : WF_varsVerrou(Terminer(e)) /\ WF_varsVerrou(Liberer(e) \/ LibererEnVain(e))

SpecVerrou == InitVerrou /\ [][NextVerrou]_varsVerrou /\ FairnessVerrou

-----------------------------------------------------------------------------
\* Types, and a lock that holds always names a process, living or dead: nobody waits
\* behind a row of which nothing says who keeps it.
TypeOKVerrou ==
  /\ verrou \in [lockedUntil : 0..Ttl, holder : Processus \union {Personne, Disparu}]
  /\ etape \in [Executions -> {"attente", "travail", "liberation"}]
  /\ reste \in [Executions -> 0..Ttl]
  /\ enRetard \subseteq Processus
  /\ verrou.lockedUntil > 0 => verrou.holder # Personne

\* In progress, within the ttl that was granted.
Couverte(e) == etape[e] # "attente" /\ reste[e] > 0

\* Two executions within their ttl never overlap, in one process or in two,
\* unless one of their processes let an earlier execution outlast its ttl.
PasDeChevauchement ==
  \A e, f \in Executions :
    Couverte(e) /\ Couverte(f) /\ e # f => De[e] \in enRetard \/ De[f] \in enRetard

\* The delays of one process never cost another its lock: as long as its own
\* process has not been late, an execution holds the lock to the end of its
\* ttl, whatever the others do (release's WHERE holder = ...).
RetardsSansContagion ==
  \A e \in Executions :
    Couverte(e) /\ De[e] \notin enRetard =>
      verrou.holder = De[e] /\ verrou.lockedUntil = reste[e]

\* A process killed in the middle of the job, a release that is lost: the job
\* is taken up again once the ttl is over, for ever.
LeTravailReprend == []<>(\E e \in Executions : etape[e] = "travail")
=============================================================================
