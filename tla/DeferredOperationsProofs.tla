---------------------- MODULE DeferredOperationsProofs ----------------------
(***************************************************************************)
(* The queue of deferred operations, for any number of rows, callers and   *)
(* drains, any ceiling of attempts, and any restarts and failures of the   *)
(* database.                                                               *)
(*                                                                         *)
(* Everything rests on the flag "draining": one drain only is at work, so  *)
(* the rows it has read are as it read them until it writes them down      *)
(* (Tenue), and what it has just done to one of them is counted once       *)
(* (Compte).                                                               *)
(***************************************************************************)
EXTENDS DeferredOperations, FiniteSetTheorems, WellFoundedInduction, TLAPS

Active(v) == vidange[v].etape # "repos"
Ecrit(v) == vidange[v].etape = "inscription"

\* One drain at a time, under the flag.
UneVidange ==
  \A u, v \in Vidanges : Active(u) => draining /\ (Active(v) => u = v)

\* A row that waits may still be tried; one that does not exist has no history.
LignesTenues ==
  \A l \in Lignes :
    /\ EnAttente(l) => table[l].attempts < MaxAttempts
    /\ table[l].status = "ABSENTE" => table[l].attempts = 0 /\ essais[l] = 0 /\ effets[l] = 0

\* What a drain holds: rows that wait, with their attempts of now; and the one
\* it is about to close took effect.
Tenue(v) ==
  vidange[v].etape \in {"rejeu", "inscription"} =>
    /\ vidange[v].restent # {}
    /\ \A l \in vidange[v].restent : EnAttente(l) /\ vidange[v].lues[l] = table[l].attempts
    /\ Ecrit(v) /\ vidange[v].fait => Premiere(vidange[v].restent) \in faites

VidangesTenues == \A v \in Vidanges : Tenue(v)

FaitesTenues == \A l \in Lignes : table[l].status = "TERMINEE" => l \in faites

\* An effect is that of a closed row, or is about to close it, or a failure of
\* the database has hidden it, or its answer was lost.
AFermer(l) ==
  table[l].status = "TERMINEE"
    \/ \E v \in Vidanges : Ecrit(v) /\ vidange[v].fait /\ Premiere(vidange[v].restent) = l

Compte ==
  \A l \in Lignes : effets[l] <= pannes + sansReponse[l] + (IF AFermer(l) THEN 1 ELSE 0)

\* A caller that looks for a row to create will find one.
Places ==
  /\ IsFiniteSet(EnCours)
  /\ Cardinality(EnCours) <= Cardinality(Libres)

IInv ==
  /\ TypeOK
  /\ UneVidange
  /\ LignesTenues
  /\ VidangesTenues
  /\ FaitesTenues
  /\ Compte
  /\ TentativesExactes
  /\ Places

-----------------------------------------------------------------------------
(* The rows, their order, and the health of the router.                    *)

LEMMA PremiereDedans ==
  ASSUME NEW L, L \subseteq Lignes, L # {}
  PROVE  Premiere(L) \in L
<1>. DEFINE R == OpToRel(<, Nat)
<1>1. L \subseteq Nat
  BY ConstantesFile DEF Lignes
<1>2. IsWellFoundedOn(R, Nat)
  BY NatLessThanWellFounded
<1>3. \A k, l \in Nat : <<k, l>> \notin R => l <= k
  BY DEF OpToRel
<1>. HIDE DEF R
<1>4. \E l \in L : \A k \in L : <<k, l>> \notin R
  BY <1>1, <1>2, WFMin
<1>5. \E l \in L : \A k \in L : l <= k
  BY <1>1, <1>3, <1>4
<1>6. QED
  BY <1>5 DEF Premiere

Sante == [state : Etats, consecutiveFailures : 0..Seuil,
          openUntil : {Aucune} \union 0..Repos, sondeJusqua : {Aucune} \union 0..BudgetSonde]

LEMMA NeufTypee == Neuf \in Sante
BY ConstantesDisjoncteur DEF Neuf, Sante, Etats

LEMMA SanteTypee ==
  ASSUME NEW h \in Sante
  PROVE  /\ ApresAutorisation(h) \in Sante /\ UnTickPlusTard(h) \in Sante
         /\ \A r \in Liens : ApresReponse(h, r) \in Sante
<1>1. ApresAutorisation(h) \in Sante
  <2>. DEFINE o == IF h.sondeJusqua = Aucune THEN Aucune ELSE h.openUntil
  <2>1. o \in {Aucune} \union 0..Repos /\ BudgetSonde \in 0..BudgetSonde
    BY ConstantesDisjoncteur DEF Sante
  <2>2. ApresAutorisation(h) = IF ~PrendLaSonde(h) THEN h
                               ELSE [h EXCEPT !.sondeJusqua = BudgetSonde, !.openUntil = o]
    BY DEF ApresAutorisation
  <2>. HIDE DEF o
  <2>3. QED
    BY <2>1, <2>2 DEF Sante
<1>2. UnTickPlusTard(h) \in Sante
  <2>1. /\ Vieillir(h.openUntil) \in {Aucune} \union 0..Repos
        /\ Vieillir(h.sondeJusqua) \in {Aucune} \union 0..BudgetSonde
    BY ConstantesDisjoncteur DEF Vieillir, Sante, Aucune
  <2>2. QED
    BY <2>1 DEF UnTickPlusTard, Sante
<1>3. ApresSucces(h) \in Sante
  BY ConstantesDisjoncteur DEF ApresSucces, Sante, Etats
<1>4. ApresRefusRouteur(h) \in Sante
  BY DEF ApresRefusRouteur, Sante, Etats
<1>5. ApresPanneReseau(h) \in Sante
  BY ConstantesDisjoncteur DEF ApresPanneReseau, UnEchecDePlus, Sante, Etats
<1>6. \A r \in Liens : ApresReponse(h, r) \in Sante
  BY <1>3, <1>4, <1>5, ConstantesFile DEF ApresReponse
<1>7. QED
  BY <1>1, <1>2, <1>6

-----------------------------------------------------------------------------
(* The types, taken apart.                                                 *)

EtatsDeVidange == [etape : {"repos", "lecture", "rejeu", "inscription"}, restent : SUBSET Lignes,
                   lues : [Lignes -> 0..MaxAttempts], fait : BOOLEAN]
Rangees == [op : Ops \union {"aucune"}, status : Statuts, attempts : 0..MaxAttempts]
Appels == [etape : {"repos", "recherche", "creation"}, op : Ops \union {"aucune"}]

LEMMA Types ==
  TypeOK <=> /\ lien \in Liens /\ sante \in Sante /\ table \in [Lignes -> Rangees]
             /\ draining \in BOOLEAN /\ vidange \in [Vidanges -> EtatsDeVidange]
             /\ demande \in [Demandeurs -> Appels] /\ reprise \in BOOLEAN
             /\ redemarrages \in 0..MaxRedemarrages /\ pannes \in 0..MaxPannes
             /\ essais \in [Lignes -> Nat] /\ effets \in [Lignes -> Nat]
             /\ sansReponse \in [Lignes -> Nat]
             /\ faites \subseteq Lignes /\ heritees \subseteq Lignes
BY DEF TypeOK, Sante, EtatsDeVidange, Rangees, Appels

\* The drain at work is the only one: what holds of "a drain" holds of it.
LEMMA SeuleActive ==
  ASSUME UneVidange, NEW v \in Vidanges, Active(v), NEW l
  PROVE  /\ \A u \in Vidanges : u # v => vidange[u].etape = "repos"
         /\ AFermer(l) <=> table[l].status = "TERMINEE"
              \/ (Ecrit(v) /\ vidange[v].fait /\ Premiere(vidange[v].restent) = l)
         /\ EnTrainDEtreInscrite(l) <=> Ecrit(v) /\ Premiere(vidange[v].restent) = l
BY DEF UneVidange, Active, AFermer, Ecrit, EnTrainDEtreInscrite

\* A step of the drain at work.
Suite(v, w) ==
  /\ vidange' = [vidange EXCEPT ![v] = w]
  /\ w.etape = "repos" \/ draining'

LEMMA ResteSeule ==
  ASSUME IInv, NEW v \in Vidanges, Active(v), NEW w \in EtatsDeVidange, Suite(v, w)
  PROVE  /\ vidange' \in [Vidanges -> EtatsDeVidange] /\ vidange'[v] = w
         /\ \A u \in Vidanges : u # v => vidange'[u].etape = "repos"
         /\ UneVidange'
         /\ Tenue(v)' => VidangesTenues'
         /\ \A l : AFermer(l)' <=> table'[l].status = "TERMINEE"
              \/ (w.etape = "inscription" /\ w.fait /\ Premiere(w.restent) = l)
         /\ \A l : EnTrainDEtreInscrite(l)' <=> w.etape = "inscription" /\ Premiere(w.restent) = l
<1>1. vidange \in [Vidanges -> EtatsDeVidange] /\ UneVidange
  BY Types DEF IInv
<1>2. /\ vidange' \in [Vidanges -> EtatsDeVidange] /\ vidange'[v] = w
      /\ \A u \in Vidanges : u # v => vidange'[u].etape = "repos"
  BY <1>1 DEF Suite, UneVidange, Active
<1>3. UneVidange'
  BY <1>2 DEF Suite, UneVidange, Active
<1>4. Tenue(v)' => VidangesTenues'
  BY <1>2 DEF VidangesTenues, Tenue
<1>5. \A l : AFermer(l)' <=> table'[l].status = "TERMINEE"
              \/ (w.etape = "inscription" /\ w.fait /\ Premiere(w.restent) = l)
  BY <1>2 DEF AFermer, Ecrit
<1>6. \A l : EnTrainDEtreInscrite(l)' <=> w.etape = "inscription" /\ Premiere(w.restent) = l
  BY <1>2 DEF EnTrainDEtreInscrite
<1>7. QED
  BY <1>2, <1>3, <1>4, <1>5, <1>6

-----------------------------------------------------------------------------
(* Steps that leave the drains alone, or begin one.                        *)

Commence ==
  \/ UNCHANGED <<draining, vidange>>
  \/ \E v \in Vidanges :
       /\ ~draining /\ vidange[v].etape = "repos"
       /\ draining' = TRUE
       /\ vidange' = [vidange EXCEPT ![v].etape = "lecture"]

LEMMA Commencements ==
  /\ UNCHANGED <<draining, vidange>> => Commence
  /\ (\E v \in Vidanges : CommencerVidange(v)) => Commence
  /\ \A h, r : Prevenir(h, r) => Commence
BY DEF CommencerVidange, Prevenir, Commence

\* What a drain that begins does not change.
LEMMA CommenceSansRien ==
  ASSUME IInv, Commence
  PROVE  /\ vidange' \in [Vidanges -> EtatsDeVidange] /\ draining' \in BOOLEAN /\ UneVidange'
         /\ \A u \in Vidanges : vidange'[u].etape \in {"rejeu", "inscription"} => vidange'[u] = vidange[u]
         /\ \A u \in Vidanges : vidange[u].etape = "inscription" => vidange'[u] = vidange[u]
<1>1. vidange \in [Vidanges -> EtatsDeVidange] /\ draining \in BOOLEAN /\ UneVidange
  BY Types DEF IInv
<1>2. CASE UNCHANGED <<draining, vidange>>
  BY <1>1, <1>2 DEF UneVidange, Active
<1>3. ASSUME NEW v \in Vidanges, ~draining, vidange[v].etape = "repos", draining' = TRUE,
             vidange' = [vidange EXCEPT ![v].etape = "lecture"]
      PROVE  /\ vidange' \in [Vidanges -> EtatsDeVidange] /\ draining' \in BOOLEAN /\ UneVidange'
             /\ \A u \in Vidanges :
                  vidange'[u].etape \in {"rejeu", "inscription"} => vidange'[u] = vidange[u]
             /\ \A u \in Vidanges : vidange[u].etape = "inscription" => vidange'[u] = vidange[u]
  <2>. DEFINE w == [vidange[v] EXCEPT !.etape = "lecture"]
  <2>1. w \in EtatsDeVidange /\ w.etape = "lecture" /\ vidange' = [vidange EXCEPT ![v] = w]
    BY <1>1, <1>3 DEF EtatsDeVidange
  <2>. HIDE DEF w
  <2>2. /\ vidange' \in [Vidanges -> EtatsDeVidange] /\ vidange'[v] = w
        /\ \A u \in Vidanges : u # v => vidange'[u] = vidange[u]
    BY <1>1, <2>1
  <2>3. \A u \in Vidanges : vidange[u].etape = "repos"
    BY <1>1, <1>3 DEF UneVidange, Active
  <2>4. UneVidange'
    BY <1>3, <2>2, <2>3 DEF UneVidange, Active
  <2>5. QED
    BY <1>3, <2>1, <2>2, <2>3, <2>4
<1>4. QED
  BY <1>2, <1>3 DEF Commence

LEMMA CommenceJuste ==
  ASSUME IInv, Commence, UNCHANGED <<table, demande, incidents, temoins>>,
         sante' \in Sante, lien' \in Liens, reprise' \in BOOLEAN
  PROVE  IInv'
<1>1. /\ vidange' \in [Vidanges -> EtatsDeVidange] /\ draining' \in BOOLEAN /\ UneVidange'
      /\ \A u \in Vidanges : vidange'[u].etape \in {"rejeu", "inscription"} => vidange'[u] = vidange[u]
      /\ \A u \in Vidanges : vidange[u].etape = "inscription" => vidange'[u] = vidange[u]
  BY CommenceSansRien
<1>2. UNCHANGED <<table, demande, redemarrages, pannes, essais, effets, sansReponse, faites,
                heritees>>
  BY DEF incidents, temoins
<1>3. TypeOK'
  <2>1. TypeOK
    BY DEF IInv
  <2>2. QED
    BY <1>1, <1>2, <2>1, Types DEF TypeOK, Sante, EtatsDeVidange, Rangees, Appels
<1>4. LignesTenues'
  BY <1>2 DEF IInv, LignesTenues, EnAttente
<1>5. VidangesTenues'
  BY <1>1, <1>2 DEF IInv, VidangesTenues, Tenue, EnAttente, Ecrit
<1>6. FaitesTenues'
  BY <1>2 DEF IInv, FaitesTenues
<1>7. \A l \in Lignes : AFermer(l)' <=> AFermer(l)
  BY <1>1, <1>2 DEF AFermer, Ecrit
<1>8. \A l \in Lignes : EnTrainDEtreInscrite(l)' <=> EnTrainDEtreInscrite(l)
  BY <1>1 DEF EnTrainDEtreInscrite
<1>9. Compte'
  BY <1>2, <1>7 DEF IInv, Compte
<1>10. TentativesExactes'
  BY <1>2, <1>8 DEF IInv, TentativesExactes
<1>11. Places'
  BY <1>2 DEF IInv, Places, EnCours, Libres
<1>12. QED
  BY <1>1, <1>3, <1>4, <1>5, <1>6, <1>9, <1>10, <1>11 DEF IInv

LEMMA AppelerJuste ==
  ASSUME IInv, Appeler
  PROVE  IInv'
<1>1. sante \in Sante /\ lien \in Liens /\ reprise \in BOOLEAN
  BY Types DEF IInv
<1>2. sante' \in Sante
  BY <1>1, SanteTypee DEF Appeler
<1>3. Commence
  BY Commencements DEF Appeler
<1>4. QED
  BY <1>1, <1>2, <1>3, CommenceJuste DEF Appeler

LEMMA VidangeManuelleJuste ==
  ASSUME IInv, VidangeManuelle
  PROVE  IInv'
<1>1. sante \in Sante /\ lien \in Liens /\ reprise \in BOOLEAN
  BY Types DEF IInv
<1>2. Commence
  BY Commencements DEF VidangeManuelle
<1>3. QED
  BY <1>1, <1>2, CommenceJuste DEF VidangeManuelle

LEMMA ReprendreJuste ==
  ASSUME IInv, Reprendre
  PROVE  IInv'
<1>1. sante \in Sante /\ lien \in Liens
  BY Types DEF IInv
<1>2. Commence
  BY Commencements DEF Reprendre
<1>3. QED
  BY <1>1, <1>2, CommenceJuste DEF Reprendre

LEMMA EntourageJuste ==
  ASSUME IInv, Changer \/ ModifierRouteur \/ Tick
  PROVE  IInv'
<1>1. sante \in Sante /\ lien \in Liens /\ reprise \in BOOLEAN
  BY Types DEF IInv
<1>2. sante' \in Sante /\ lien' \in Liens /\ reprise' \in BOOLEAN
  BY <1>1, SanteTypee, NeufTypee DEF Changer, ModifierRouteur, Tick
<1>3. Commence /\ UNCHANGED <<table, demande, incidents, temoins>>
  BY Commencements DEF Changer, ModifierRouteur, Tick
<1>4. QED
  BY <1>2, <1>3, CommenceJuste

-----------------------------------------------------------------------------
(* Steps of the drain at work.                                             *)

LEMMA AuReposTypee == AuRepos \in EtatsDeVidange /\ AuRepos.etape = "repos"
BY ConstantesFile DEF AuRepos, EtatsDeVidange

LEMMA Fin ==
  ASSUME NEW v, FinirVidange(v)
  PROVE  Suite(v, AuRepos) /\ draining' = FALSE
BY AuReposTypee DEF FinirVidange, Suite

\* What the drain at work holds, when it replays.
LEMMA LigneTenue ==
  ASSUME IInv, NEW v \in Vidanges, vidange[v].etape \in {"rejeu", "inscription"},
         NEW l, l = Premiere(vidange[v].restent)
  PROVE  /\ l \in Lignes /\ l \in vidange[v].restent /\ vidange[v].restent \subseteq Lignes
         /\ EnAttente(l) /\ vidange[v].lues[l] = table[l].attempts /\ table[l].attempts < MaxAttempts
         /\ table[l] \in Rangees
         /\ Ecrit(v) /\ vidange[v].fait => l \in faites
<1>1. Tenue(v) /\ vidange[v] \in EtatsDeVidange /\ table \in [Lignes -> Rangees]
  BY Types DEF IInv, VidangesTenues
<1>2. vidange[v].restent # {} /\ vidange[v].restent \subseteq Lignes
  BY <1>1 DEF Tenue, EtatsDeVidange
<1>3. l \in vidange[v].restent
  BY <1>2, PremiereDedans
<1>4. QED
  BY <1>1, <1>2, <1>3 DEF Tenue, IInv, LignesTenues

\* A step that leaves the table and the history alone, by a drain that is not
\* writing a row down and does not begin to.
LEMMA LectureJuste ==
  ASSUME IInv, NEW v \in Vidanges, vidange[v].etape = "lecture", NEW w \in EtatsDeVidange,
         Suite(v, w), draining' \in BOOLEAN, w.etape \in {"repos", "rejeu"},
         w.etape = "rejeu" => /\ w.restent # {}
                              /\ \A l \in w.restent : EnAttente(l) /\ w.lues[l] = table[l].attempts,
         UNCHANGED <<lien, sante, table, demande, reprise, redemarrages, essais, effets,
                     sansReponse, faites>>,
         pannes' \in 0..MaxPannes, pannes <= pannes', heritees' \subseteq Lignes
  PROVE  IInv'
<1>1. Active(v) /\ TypeOK /\ UneVidange
  BY DEF IInv, Active
<1>2. /\ vidange' \in [Vidanges -> EtatsDeVidange] /\ vidange'[v] = w
      /\ UneVidange'
      /\ Tenue(v)' => VidangesTenues'
      /\ \A l : AFermer(l)' <=> table'[l].status = "TERMINEE"
           \/ (w.etape = "inscription" /\ w.fait /\ Premiere(w.restent) = l)
      /\ \A l : EnTrainDEtreInscrite(l)' <=> w.etape = "inscription" /\ Premiere(w.restent) = l
  BY <1>1, ResteSeule
<1>3. TypeOK'
  BY <1>1, <1>2, Types DEF TypeOK, Sante, EtatsDeVidange, Rangees, Appels
<1>4. LignesTenues'
  BY DEF IInv, LignesTenues, EnAttente
<1>5. VidangesTenues'
  BY <1>2 DEF Tenue, EnAttente, Ecrit
<1>6. FaitesTenues'
  BY DEF IInv, FaitesTenues
<1>7. pannes \in Nat /\ pannes' \in Nat /\ redemarrages \in Nat
        /\ effets \in [Lignes -> Nat] /\ essais \in [Lignes -> Nat]
        /\ sansReponse \in [Lignes -> Nat]
  BY <1>1, ConstantesFile, Types
<1>8. Compte'
  <2>1. SUFFICES ASSUME NEW l \in Lignes
                 PROVE  effets'[l] <= pannes' + sansReponse'[l] + (IF AFermer(l)' THEN 1 ELSE 0)
    BY DEF Compte
  <2>2. AFermer(l) <=> table[l].status = "TERMINEE"
    BY <1>1, SeuleActive DEF Ecrit
  <2>3. AFermer(l)' <=> AFermer(l)
    BY <1>2, <2>2
  <2>4. effets[l] <= pannes + sansReponse[l] + (IF AFermer(l) THEN 1 ELSE 0)
    BY DEF IInv, Compte
  <2>5. QED
    BY <1>7, <2>3, <2>4
<1>9. TentativesExactes'
  <2>1. \A l \in Lignes : ~EnTrainDEtreInscrite(l) /\ ~EnTrainDEtreInscrite(l)'
    BY <1>1, <1>2, SeuleActive DEF Ecrit
  <2>2. \A l \in Lignes : table[l].attempts \in Nat
    BY <1>1, ConstantesFile, Types DEF Rangees
  <2>3. QED
    BY <1>7, <2>1, <2>2 DEF IInv, TentativesExactes
<1>10. Places'
  BY DEF IInv, Places, EnCours, Libres
<1>11. QED
  BY <1>2, <1>3, <1>4, <1>5, <1>6, <1>8, <1>9, <1>10 DEF IInv

LEMMA LireJuste ==
  ASSUME IInv, NEW v \in Vidanges, Lire(v)
  PROVE  IInv'
<1>1. /\ vidange[v].etape = "lecture"
      /\ UNCHANGED <<lien, sante, table, demande, reprise, redemarrages, pannes, essais, effets,
                     sansReponse, faites, heritees>>
  BY DEF Lire, incidents, temoins
<1>2. pannes' \in 0..MaxPannes /\ pannes <= pannes' /\ heritees' \subseteq Lignes
  BY <1>1, ConstantesFile, Types DEF IInv
<1>3. CASE FinirVidange(v)
  BY <1>1, <1>2, <1>3, AuReposTypee, Fin, LectureJuste
<1>4. ASSUME Waiting # {}, UNCHANGED draining,
             vidange' = [vidange EXCEPT ![v] =
               [etape |-> "rejeu", restent |-> Waiting, fait |-> FALSE,
                lues |-> [l \in Lignes |-> IF l \in Waiting THEN table[l].attempts ELSE 0]]]
      PROVE  IInv'
  <2>. DEFINE lu == [l \in Lignes |-> IF l \in Waiting THEN table[l].attempts ELSE 0]
              w == [etape |-> "rejeu", restent |-> Waiting, fait |-> FALSE, lues |-> lu]
  <2>1. Waiting \subseteq Lignes /\ \A l \in Waiting : EnAttente(l)
    BY DEF Waiting
  <2>2. table \in [Lignes -> Rangees] /\ draining \in BOOLEAN
    BY Types DEF IInv
  <2>3. lu \in [Lignes -> 0..MaxAttempts] /\ \A l \in Waiting : lu[l] = table[l].attempts
    BY <2>1, <2>2, ConstantesFile DEF Rangees
  <2>. HIDE DEF lu
  <2>4. w \in EtatsDeVidange /\ w.etape = "rejeu" /\ w.restent = Waiting /\ w.lues = lu
    BY <2>1, <2>3 DEF EtatsDeVidange
  <2>5. vidange' = [vidange EXCEPT ![v] = w]
    BY <1>4 DEF lu
  <2>. HIDE DEF w
  <2>6. draining = TRUE
    BY <1>1, <2>2 DEF IInv, UneVidange, Active
  <2>7. Suite(v, w) /\ draining' \in BOOLEAN
    BY <1>4, <2>5, <2>6 DEF Suite
  <2>8. \A l \in w.restent : EnAttente(l) /\ w.lues[l] = table[l].attempts
    BY <2>1, <2>3, <2>4
  <2>9. QED
    BY <1>1, <1>2, <1>4, <2>4, <2>7, <2>8, LectureJuste
<1>5. QED
  BY <1>3, <1>4 DEF Lire

LEMMA ExecuterJuste ==
  ASSUME IInv, NEW v \in Vidanges, Executer(v)
  PROVE  IInv'
<1>. DEFINE l == Premiere(vidange[v].restent)
            reponse == IF table[l].op \in Impossibles /\ lien = "bon" THEN "refuse" ELSE lien
            aboutit == ~Refuse(sante) /\ reponse = "bon"
            w == [vidange[v] EXCEPT !.etape = "inscription", !.fait = aboutit]
<1>1. /\ vidange[v].etape = "rejeu"
      /\ vidange' = [vidange EXCEPT ![v].etape = "inscription", ![v].fait = aboutit]
      /\ essais' = [essais EXCEPT ![l] = @ + 1]
      /\ heritees' = heritees \ {l}
      /\ UNCHANGED <<lien, table, draining, demande, reprise, redemarrages, pannes>>
  BY DEF Executer, incidents
<1>0. PICK perdue \in BOOLEAN :
        /\ perdue => ~aboutit
        /\ effets' = IF aboutit \/ perdue THEN [effets EXCEPT ![l] = @ + 1] ELSE effets
        /\ sansReponse' = IF perdue THEN [sansReponse EXCEPT ![l] = @ + 1] ELSE sansReponse
        /\ faites' = IF aboutit \/ perdue THEN faites \union {l} ELSE faites
  BY Zenon DEF Executer
<1>2. TypeOK /\ UneVidange /\ Active(v) /\ draining = TRUE
  BY <1>1, Types DEF IInv, UneVidange, Active
<1>3. vidange \in [Vidanges -> EtatsDeVidange] /\ sante \in Sante /\ lien \in Liens
        /\ essais \in [Lignes -> Nat] /\ effets \in [Lignes -> Nat] /\ faites \subseteq Lignes
        /\ sansReponse \in [Lignes -> Nat]
        /\ pannes \in Nat /\ redemarrages \in Nat /\ table \in [Lignes -> Rangees]
  BY <1>2, ConstantesFile, Types
<1>4. /\ l \in Lignes /\ l \in vidange[v].restent /\ EnAttente(l)
      /\ table[l].attempts < MaxAttempts
  BY <1>1, LigneTenue
<1>5. sante' \in Sante
  <2>1. aboutit \in BOOLEAN /\ (reponse \in Liens \/ Refuse(sante) \/ reponse = "refuse")
    BY <1>3
  <2>2. ApresRefusRouteur(ApresAutorisation(sante)) \in Sante
    BY <1>3, SanteTypee DEF ApresRefusRouteur, Sante, Etats
  <2>3. \A r \in Liens \union {"refuse"} : ApresReponse(ApresAutorisation(sante), r) \in Sante
    BY <1>3, <2>2, SanteTypee DEF ApresReponse
  <2>4. reponse \in Liens \union {"refuse"}
    BY <1>3
  <2>5. sante' = IF Refuse(sante) THEN sante ELSE ApresReponse(ApresAutorisation(sante), reponse)
    BY DEF Executer
  <2>. HIDE DEF reponse
  <2>6. QED
    BY <1>3, <2>3, <2>4, <2>5
<1>6. aboutit \in BOOLEAN
  OBVIOUS
<1>. HIDE DEF aboutit
<1>7. /\ w \in EtatsDeVidange /\ w.etape = "inscription" /\ w.fait = aboutit
      /\ w.restent = vidange[v].restent /\ w.lues = vidange[v].lues
      /\ vidange' = [vidange EXCEPT ![v] = w]
  BY <1>1, <1>3, <1>6 DEF EtatsDeVidange
<1>. HIDE DEF w
<1>8. Suite(v, w)
  BY <1>1, <1>2, <1>7 DEF Suite
<1>9. /\ vidange' \in [Vidanges -> EtatsDeVidange] /\ vidange'[v] = w
      /\ UneVidange'
      /\ Tenue(v)' => VidangesTenues'
      /\ \A k : AFermer(k)' <=> table'[k].status = "TERMINEE"
           \/ (w.etape = "inscription" /\ w.fait /\ Premiere(w.restent) = k)
      /\ \A k : EnTrainDEtreInscrite(k)' <=> w.etape = "inscription" /\ Premiere(w.restent) = k
  BY <1>2, <1>7, <1>8, ResteSeule
<1>10. /\ essais' \in [Lignes -> Nat] /\ effets' \in [Lignes -> Nat] /\ faites' \subseteq Lignes
       /\ heritees' \subseteq Lignes /\ faites \subseteq faites'
       /\ essais'[l] = essais[l] + 1 /\ \A k \in Lignes : k # l => essais'[k] = essais[k]
       /\ sansReponse' \in [Lignes -> Nat]
       /\ effets'[l] - sansReponse'[l] <= effets[l] - sansReponse[l] + (IF aboutit THEN 1 ELSE 0)
       /\ \A k \in Lignes : k # l => effets'[k] = effets[k] /\ sansReponse'[k] = sansReponse[k]
       /\ aboutit => l \in faites'
  <2>1. heritees' \subseteq Lignes
    BY <1>1, <1>2, Types
  <2>2. essais' \in [Lignes -> Nat]
          /\ essais'[l] = essais[l] + 1 /\ \A k \in Lignes : k # l => essais'[k] = essais[k]
    BY <1>1, <1>3, <1>4
  <2>3. CASE aboutit
    BY <1>0, <1>3, <1>4, <2>1, <2>2, <2>3
  <2>4. CASE perdue
    BY <1>0, <1>3, <1>4, <2>1, <2>2, <2>4
  <2>5. CASE ~aboutit /\ ~perdue
    BY <1>0, <1>3, <1>4, <2>1, <2>2, <2>5
  <2>6. QED
    BY <2>3, <2>4, <2>5
<1>11. TypeOK'
  BY <1>1, <1>2, <1>5, <1>9, <1>10, Types DEF TypeOK, Sante, EtatsDeVidange, Rangees, Appels
<1>12. LignesTenues'
  BY <1>1, <1>4, <1>10 DEF IInv, LignesTenues, EnAttente
<1>13. VidangesTenues'
  <2>1. Tenue(v)
    BY DEF IInv, VidangesTenues
  <2>2. Tenue(v)'
    BY <1>1, <1>7, <1>9, <1>10, <2>1 DEF Tenue, EnAttente, Ecrit
  <2>3. QED
    BY <1>9, <2>2
<1>14. FaitesTenues'
  BY <1>1, <1>10 DEF IInv, FaitesTenues
<1>15. Compte'
  <2>1. SUFFICES ASSUME NEW k \in Lignes
                 PROVE  effets'[k] <= pannes' + sansReponse'[k] + (IF AFermer(k)' THEN 1 ELSE 0)
    BY DEF Compte
  <2>2. AFermer(k) <=> table[k].status = "TERMINEE"
    BY <1>1, <1>2, SeuleActive DEF Ecrit
  <2>3. effets[k] <= pannes + sansReponse[k] + (IF AFermer(k) THEN 1 ELSE 0)
    BY DEF IInv, Compte
  <2>4. CASE k # l
    <3>1. AFermer(k)' <=> AFermer(k)
      BY <1>1, <1>7, <1>9, <2>2, <2>4
    <3>2. QED
      BY <1>1, <1>3, <1>10, <2>3, <2>4, <3>1
  <2>5. CASE k = l
    <3>1. ~AFermer(k) /\ (AFermer(k)' <=> aboutit)
      BY <1>1, <1>4, <1>7, <1>9, <2>2, <2>5 DEF EnAttente
    <3>2. effets'[k] <= pannes + sansReponse'[k] + (IF aboutit THEN 1 ELSE 0)
      BY <1>3, <1>6, <1>10, <2>3, <2>5, <3>1
    <3>3. QED
      BY <1>1, <3>1, <3>2
  <2>6. QED
    BY <2>4, <2>5
<1>16. TentativesExactes'
  <2>1. SUFFICES ASSUME NEW k \in Lignes
                 PROVE  /\ 0 <= essais'[k] - table'[k].attempts
                                  - (IF EnTrainDEtreInscrite(k)' THEN 1 ELSE 0)
                        /\ essais'[k] - table'[k].attempts
                             - (IF EnTrainDEtreInscrite(k)' THEN 1 ELSE 0) <= redemarrages' + pannes'
    BY DEF TentativesExactes
  <2>2. ~EnTrainDEtreInscrite(k)
    BY <1>1, <1>2, SeuleActive DEF Ecrit
  <2>3. EnTrainDEtreInscrite(k)' <=> k = l
    BY <1>7, <1>9
  <2>4. 0 <= essais[k] - table[k].attempts /\ essais[k] - table[k].attempts <= redemarrages + pannes
    BY <1>3, <2>2, ConstantesFile DEF IInv, TentativesExactes, Rangees
  <2>5. table[k].attempts \in Nat
    BY <1>3, ConstantesFile DEF Rangees
  <2>6. essais'[k] = essais[k] + (IF k = l THEN 1 ELSE 0)
    BY <1>3, <1>10
  <2>7. QED
    BY <1>1, <1>3, <2>3, <2>4, <2>5, <2>6
<1>17. Places'
  BY <1>1 DEF IInv, Places, EnCours, Libres
<1>18. QED
  BY <1>9, <1>11, <1>12, <1>13, <1>14, <1>15, <1>16, <1>17 DEF IInv

\* The row is written down: as it went, or as a failure because the database
\* failed on a success.
LEMMA InscrireCommeJuste ==
  ASSUME IInv, NEW v \in Vidanges, NEW fait \in BOOLEAN, InscrireComme(v, fait),
         \/ fait = vidange[v].fait /\ pannes' = pannes
         \/ ~fait /\ pannes' = pannes + 1,
         pannes' \in 0..MaxPannes
  PROVE  IInv'
<1>. DEFINE l == Premiere(vidange[v].restent)
            apres == Inscrite(table[l], vidange[v].lues[l], fait)
            retombe == apres.status = "EN_ATTENTE" /\ Bloque(sante)
<1>1. /\ vidange[v].etape = "inscription"
      /\ table' = [table EXCEPT ![l] = apres]
      /\ IF vidange[v].restent = {l} \/ retombe THEN FinirVidange(v)
         ELSE /\ vidange' = [vidange EXCEPT ![v].etape = "rejeu", ![v].restent = @ \ {l}]
              /\ UNCHANGED draining
      /\ heritees' = IF retombe THEN {} ELSE heritees
      /\ UNCHANGED <<lien, sante, demande, reprise, redemarrages, essais, effets,
                     sansReponse, faites>>
  BY DEF InscrireComme
<1>2. TypeOK /\ UneVidange /\ Active(v) /\ Ecrit(v) /\ draining = TRUE
  BY <1>1, Types DEF IInv, UneVidange, Active, Ecrit
<1>3. vidange \in [Vidanges -> EtatsDeVidange] /\ table \in [Lignes -> Rangees]
        /\ essais \in [Lignes -> Nat] /\ effets \in [Lignes -> Nat]
        /\ sansReponse \in [Lignes -> Nat]
        /\ pannes \in Nat /\ redemarrages \in Nat /\ MaxAttempts \in Nat
  BY <1>2, ConstantesFile, Types
<1>4. /\ l \in Lignes /\ l \in vidange[v].restent /\ vidange[v].restent \subseteq Lignes
      /\ EnAttente(l) /\ vidange[v].lues[l] = table[l].attempts
      /\ table[l].attempts < MaxAttempts /\ table[l].attempts \in Nat
      /\ vidange[v].fait => l \in faites
  <2>1. vidange[v].etape \in {"rejeu", "inscription"}
    BY <1>1
  <2>2. QED
    BY <1>2, <1>3, <2>1, LigneTenue DEF Rangees
<1>5. /\ apres \in Rangees /\ apres.attempts = table[l].attempts + 1
      /\ apres.status \in {"EN_ATTENTE", "TERMINEE", "ABANDONNEE"}
      /\ apres.status = "TERMINEE" <=> fait
      /\ apres.status = "EN_ATTENTE" => apres.attempts < MaxAttempts
  <2>. DEFINE st == IF fait THEN "TERMINEE"
                    ELSE IF table[l].attempts + 1 >= MaxAttempts THEN "ABANDONNEE" ELSE "EN_ATTENTE"
  <2>1. apres = [table[l] EXCEPT !.attempts = table[l].attempts + 1, !.status = st]
    <3>1. table[l].status = "EN_ATTENTE"
      BY <1>4 DEF EnAttente
    <3>2. QED
      BY <1>3, <1>4, <3>1 DEF Inscrite, Rangees
  <2>2. /\ st \in {"EN_ATTENTE", "TERMINEE", "ABANDONNEE"} /\ (st = "TERMINEE" <=> fait)
        /\ st = "EN_ATTENTE" => table[l].attempts + 1 < MaxAttempts
    BY <1>3, <1>4
  <2>. HIDE DEF st, apres
  <2>3. apres \in Rangees /\ apres.attempts = table[l].attempts + 1 /\ apres.status = st
    <3>1. table[l] \in Rangees
      BY <1>3, <1>4
    <3>2. table[l].attempts + 1 \in 0..MaxAttempts /\ st \in Statuts
      BY <1>3, <1>4, <2>2 DEF Statuts
    <3>3. QED
      BY <2>1, <3>1, <3>2 DEF Rangees
  <2>4. QED
    BY <2>2, <2>3
<1>. HIDE DEF apres, retombe
<1>6. table' \in [Lignes -> Rangees] /\ table'[l] = apres
        /\ \A k \in Lignes : k # l => table'[k] = table[k]
  BY <1>1, <1>3, <1>4, <1>5
<1>7. \E w \in EtatsDeVidange :
        /\ Suite(v, w) /\ draining' \in BOOLEAN /\ w.etape \in {"repos", "rejeu"}
        /\ w.etape = "rejeu" => w.restent = vidange[v].restent \ {l} /\ w.restent # {}
                                  /\ w.lues = vidange[v].lues
  <2>1. CASE FinirVidange(v)
    BY <2>1, AuReposTypee, Fin
  <2>2. CASE /\ vidange[v].restent # {l}
             /\ vidange' = [vidange EXCEPT ![v].etape = "rejeu", ![v].restent = @ \ {l}]
             /\ UNCHANGED draining
    <3>. DEFINE w == [vidange[v] EXCEPT !.etape = "rejeu", !.restent = @ \ {l}]
    <3>1. /\ w \in EtatsDeVidange /\ w.etape = "rejeu" /\ w.restent = vidange[v].restent \ {l}
          /\ w.lues = vidange[v].lues /\ vidange' = [vidange EXCEPT ![v] = w]
      BY <1>3, <2>2 DEF EtatsDeVidange
    <3>2. w.restent # {}
      BY <1>4, <2>2, <3>1
    <3>3. Suite(v, w) /\ draining' \in BOOLEAN
      BY <1>2, <2>2, <3>1 DEF Suite
    <3>. HIDE DEF w
    <3>4. QED
      BY <3>1, <3>2, <3>3
  <2>3. QED
    BY <1>1, <2>1, <2>2
<1>8. PICK w \in EtatsDeVidange :
        /\ Suite(v, w) /\ draining' \in BOOLEAN /\ w.etape \in {"repos", "rejeu"}
        /\ w.etape = "rejeu" => w.restent = vidange[v].restent \ {l} /\ w.restent # {}
                                  /\ w.lues = vidange[v].lues
  BY <1>7
<1>9. /\ vidange' \in [Vidanges -> EtatsDeVidange] /\ vidange'[v] = w
      /\ UneVidange'
      /\ Tenue(v)' => VidangesTenues'
      /\ \A k : AFermer(k)' <=> table'[k].status = "TERMINEE"
           \/ (w.etape = "inscription" /\ w.fait /\ Premiere(w.restent) = k)
      /\ \A k : EnTrainDEtreInscrite(k)' <=> w.etape = "inscription" /\ Premiere(w.restent) = k
  BY <1>2, <1>8, ResteSeule
<1>10. TypeOK'
  <2>1. heritees' \subseteq Lignes
    BY <1>1, <1>2, Types
  <2>2. QED
    BY <1>1, <1>2, <1>6, <1>8, <1>9, <2>1, Types
    DEF TypeOK, Sante, EtatsDeVidange, Rangees, Appels
<1>11. LignesTenues'
  BY <1>1, <1>5, <1>6 DEF IInv, LignesTenues, EnAttente
<1>12. VidangesTenues'
  <2>1. Tenue(v)
    BY DEF IInv, VidangesTenues
  <2>2. \A k \in vidange[v].restent \ {l} : table'[k] = table[k]
    BY <1>4, <1>6
  <2>3. Tenue(v)'
    BY <1>1, <1>8, <1>9, <2>1, <2>2 DEF Tenue, EnAttente, Ecrit
  <2>4. QED
    BY <1>9, <2>3
<1>13. FaitesTenues'
  <2>1. fait => l \in faites
    BY <1>4
  <2>2. QED
    BY <1>1, <1>5, <1>6, <2>1 DEF IInv, FaitesTenues
<1>14. Compte'
  <2>1. SUFFICES ASSUME NEW k \in Lignes
                 PROVE  effets'[k] <= pannes' + sansReponse'[k] + (IF AFermer(k)' THEN 1 ELSE 0)
    BY DEF Compte
  <2>2. AFermer(k) <=> table[k].status = "TERMINEE" \/ (vidange[v].fait /\ l = k)
    BY <1>2, SeuleActive
  <2>3. AFermer(k)' <=> table'[k].status = "TERMINEE"
    BY <1>8, <1>9
  <2>4. effets[k] <= pannes + sansReponse[k] + (IF AFermer(k) THEN 1 ELSE 0)
    BY DEF IInv, Compte
  <2>5. CASE k # l
    <3>1. AFermer(k)' <=> AFermer(k)
      BY <1>6, <2>2, <2>3, <2>5
    <3>2. QED
      BY <1>1, <1>3, <2>4, <3>1
  <2>6. CASE k = l
    <3>1. (AFermer(k) <=> vidange[v].fait) /\ (AFermer(k)' <=> fait)
      BY <1>4, <1>5, <1>6, <2>2, <2>3, <2>6 DEF EnAttente
    <3>2. CASE pannes' = pannes + 1
      BY <1>1, <1>3, <2>4, <3>2
    <3>3. CASE fait = vidange[v].fait /\ pannes' = pannes
      <4>1. AFermer(k)' <=> AFermer(k)
        BY <3>1, <3>3
      <4>2. QED
        BY <1>1, <1>3, <2>4, <3>3, <4>1
    <3>4. QED
      BY <3>2, <3>3
  <2>7. QED
    BY <2>5, <2>6
<1>15. TentativesExactes'
  <2>1. SUFFICES ASSUME NEW k \in Lignes
                 PROVE  /\ 0 <= essais'[k] - table'[k].attempts
                                  - (IF EnTrainDEtreInscrite(k)' THEN 1 ELSE 0)
                        /\ essais'[k] - table'[k].attempts
                             - (IF EnTrainDEtreInscrite(k)' THEN 1 ELSE 0) <= redemarrages' + pannes'
    BY DEF TentativesExactes
  <2>2. EnTrainDEtreInscrite(k) <=> k = l
    BY <1>2, SeuleActive
  <2>3. ~EnTrainDEtreInscrite(k)'
    BY <1>8, <1>9
  <2>4. /\ 0 <= essais[k] - table[k].attempts - (IF k = l THEN 1 ELSE 0)
        /\ essais[k] - table[k].attempts - (IF k = l THEN 1 ELSE 0) <= redemarrages + pannes
    BY <2>2 DEF IInv, TentativesExactes
  <2>5. table[k].attempts \in Nat /\ pannes <= pannes' /\ pannes' \in Nat
    BY <1>3, ConstantesFile DEF Rangees
  <2>6. table'[k].attempts = table[k].attempts + (IF k = l THEN 1 ELSE 0)
    BY <1>5, <1>6, <2>5
  <2>7. QED
    BY <1>1, <1>3, <2>3, <2>4, <2>5, <2>6
<1>16. Places'
  <2>1. Libres' = Libres
    BY <1>4, <1>5, <1>6 DEF Libres, EnAttente
  <2>2. QED
    BY <1>1, <2>1 DEF IInv, Places, EnCours
<1>17. QED
  BY <1>9, <1>10, <1>11, <1>12, <1>13, <1>14, <1>15, <1>16 DEF IInv

LEMMA InscrireJuste ==
  ASSUME IInv, NEW v \in Vidanges, Inscrire(v)
  PROVE  IInv'
<1>1. vidange[v].fait \in BOOLEAN /\ pannes' = pannes /\ pannes' \in 0..MaxPannes
  BY Types DEF IInv, Inscrire, EtatsDeVidange
<1>2. QED
  BY <1>1, InscrireCommeJuste DEF Inscrire

LEMMA PerdreLaBaseJuste ==
  ASSUME IInv, NEW v \in Vidanges, PerdreLaBase(v)
  PROVE  IInv'
<1>1. TypeOK /\ pannes \in Nat /\ pannes' = pannes + 1 /\ pannes' \in 0..MaxPannes
  BY ConstantesFile, Types DEF IInv, PerdreLaBase
<1>2. CASE InscrireComme(v, FALSE)
  BY <1>1, <1>2, InscrireCommeJuste
<1>3. CASE /\ vidange[v].etape \in {"lecture", "inscription"} /\ FinirVidange(v) /\ heritees' = {}
           /\ UNCHANGED <<lien, sante, table, demande, reprise, redemarrages, essais, effets,
                     sansReponse, faites>>
  <2>1. CASE vidange[v].etape = "lecture"
    <3>1. Suite(v, AuRepos) /\ draining' \in BOOLEAN
      BY <1>3, Fin
    <3>2. /\ AuRepos \in EtatsDeVidange /\ AuRepos.etape \in {"repos", "rejeu"}
          /\ AuRepos.etape # "rejeu"
      BY AuReposTypee
    <3>3. pannes <= pannes' /\ heritees' \subseteq Lignes
      BY <1>1, <1>3
    <3>4. QED
      BY <1>1, <1>3, <2>1, <3>1, <3>2, <3>3, LectureJuste
  <2>2. CASE vidange[v].etape = "inscription"
    <3>. DEFINE l == Premiere(vidange[v].restent)
    <3>1. Active(v) /\ Ecrit(v) /\ UneVidange /\ Suite(v, AuRepos) /\ draining' = FALSE
      BY <1>3, <2>2, Fin DEF Active, Ecrit, IInv
    <3>2. /\ vidange' \in [Vidanges -> EtatsDeVidange] /\ vidange'[v] = AuRepos
          /\ UneVidange'
          /\ Tenue(v)' => VidangesTenues'
          /\ \A k : AFermer(k)' <=> table'[k].status = "TERMINEE"
          /\ \A k : ~EnTrainDEtreInscrite(k)'
      BY <3>1, AuReposTypee, ResteSeule
    <3>3. table \in [Lignes -> Rangees] /\ effets \in [Lignes -> Nat] /\ essais \in [Lignes -> Nat]
        /\ sansReponse \in [Lignes -> Nat]
            /\ redemarrages \in Nat
      BY <1>1, ConstantesFile, Types
    <3>4. TypeOK'
      BY <1>1, <1>3, <3>1, <3>2, Types DEF TypeOK, Sante, EtatsDeVidange, Rangees, Appels
    <3>5. LignesTenues' /\ FaitesTenues' /\ Places'
      BY <1>3 DEF IInv, LignesTenues, EnAttente, FaitesTenues, Places, EnCours, Libres
    <3>6. VidangesTenues'
      BY <3>2, AuReposTypee DEF Tenue
    <3>7. Compte'
      <4>1. SUFFICES ASSUME NEW k \in Lignes
                     PROVE  effets'[k] <= pannes' + sansReponse'[k] + (IF AFermer(k)' THEN 1 ELSE 0)
        BY DEF Compte
      <4>2. effets[k] <= pannes + sansReponse[k] + (IF AFermer(k) THEN 1 ELSE 0)
        BY DEF IInv, Compte
      <4>3. QED
        BY <1>1, <1>3, <3>3, <4>2
    <3>8. TentativesExactes'
      <4>1. SUFFICES ASSUME NEW k \in Lignes
                     PROVE  /\ 0 <= essais'[k] - table'[k].attempts
                                      - (IF EnTrainDEtreInscrite(k)' THEN 1 ELSE 0)
                            /\ essais'[k] - table'[k].attempts
                                 - (IF EnTrainDEtreInscrite(k)' THEN 1 ELSE 0) <= redemarrages' + pannes'
        BY DEF TentativesExactes
      <4>2. /\ 0 <= essais[k] - table[k].attempts - (IF EnTrainDEtreInscrite(k) THEN 1 ELSE 0)
            /\ essais[k] - table[k].attempts - (IF EnTrainDEtreInscrite(k) THEN 1 ELSE 0)
                 <= redemarrages + pannes
        BY DEF IInv, TentativesExactes
      <4>3. table[k].attempts \in Nat /\ ~EnTrainDEtreInscrite(k)'
        BY <3>2, <3>3, ConstantesFile DEF Rangees
      <4>4. QED
        BY <1>1, <1>3, <3>3, <4>2, <4>3
    <3>9. QED
      BY <3>2, <3>4, <3>5, <3>6, <3>7, <3>8 DEF IInv
  <2>3. QED
    BY <1>3, <2>1, <2>2
<1>4. QED
  BY <1>2, <1>3 DEF PerdreLaBase

-----------------------------------------------------------------------------
(* The callers: there is a row for each of them.                           *)

LEMMA LibresFinies == IsFiniteSet(Libres) /\ Cardinality(Libres) \in Nat /\ Libres \subseteq Lignes
<1>1. IsFiniteSet(Lignes)
  BY ConstantesFile, FS_Interval DEF Lignes
<1>2. Libres \subseteq Lignes
  BY DEF Libres
<1>3. QED
  BY <1>1, <1>2, FS_Subset, FS_CardinalityType

LEMMA DemandeJuste ==
  ASSUME IInv, demande' \in [Demandeurs -> Appels], Places',
         UNCHANGED <<lien, sante, table, draining, vidange, reprise, incidents, temoins>>
  PROVE  IInv'
<1>1. UNCHANGED <<redemarrages, pannes, essais, effets, sansReponse, faites,
                heritees>>
  BY DEF incidents, temoins
<1>2. TypeOK'
  <2>1. TypeOK
    BY DEF IInv
  <2>2. QED
    BY <1>1, <2>1, Types DEF TypeOK, Sante, EtatsDeVidange, Rangees, Appels
<1>3. UneVidange' /\ LignesTenues' /\ FaitesTenues'
  BY <1>1 DEF IInv, UneVidange, Active, LignesTenues, EnAttente, FaitesTenues
<1>4. VidangesTenues'
  BY <1>1 DEF IInv, VidangesTenues, Tenue, Ecrit, EnAttente
<1>5. Compte'
  BY <1>1 DEF IInv, Compte, AFermer, Ecrit
<1>6. TentativesExactes'
  BY <1>1 DEF IInv, TentativesExactes, EnTrainDEtreInscrite
<1>7. QED
  BY <1>2, <1>3, <1>4, <1>5, <1>6 DEF IInv

LEMMA EtreRefuseJuste ==
  ASSUME IInv, NEW d \in Demandeurs, NEW o \in Ops, EtreRefuse(d, o)
  PROVE  IInv'
<1>1. demande \in [Demandeurs -> Appels] /\ IsFiniteSet(EnCours)
  BY Types DEF IInv, Places
<1>2. /\ demande[d].etape = "repos" /\ Cardinality(EnCours) < Cardinality(Libres)
      /\ demande' = [demande EXCEPT ![d] = [etape |-> "recherche", op |-> o]]
      /\ UNCHANGED <<lien, sante, table, draining, vidange, reprise, incidents, temoins>>
  BY DEF EtreRefuse
<1>3. demande' \in [Demandeurs -> Appels]
  BY <1>1, <1>2 DEF Appels
<1>4. EnCours' = EnCours \union {d} /\ d \notin EnCours /\ Libres' = Libres
  BY <1>1, <1>2 DEF EnCours, Libres
<1>5. IsFiniteSet(EnCours') /\ Cardinality(EnCours') = Cardinality(EnCours) + 1
  BY <1>1, <1>4, FS_AddElement
<1>6. Cardinality(EnCours) \in Nat /\ Cardinality(Libres) \in Nat
  BY <1>1, FS_CardinalityType, LibresFinies
<1>7. Places'
  BY <1>2, <1>4, <1>5, <1>6 DEF Places
<1>8. QED
  BY <1>2, <1>3, <1>7, DemandeJuste

LEMMA ChercherJuste ==
  ASSUME IInv, NEW d \in Demandeurs, Chercher(d)
  PROVE  IInv'
<1>1. /\ demande \in [Demandeurs -> Appels] /\ IsFiniteSet(EnCours)
      /\ Cardinality(EnCours) <= Cardinality(Libres)
  BY Types DEF IInv, Places
<1>. DEFINE w == IF \E l \in Lignes : EnAttente(l) /\ table[l].op = demande[d].op
                 THEN SansDemande ELSE [demande[d] EXCEPT !.etape = "creation"]
<1>2. /\ demande[d].etape = "recherche" /\ demande' = [demande EXCEPT ![d] = w]
      /\ UNCHANGED <<lien, sante, table, draining, vidange, reprise, incidents, temoins>>
  BY DEF Chercher
<1>3. w \in Appels
  BY <1>1 DEF Appels, SansDemande
<1>. HIDE DEF w
<1>4. demande' \in [Demandeurs -> Appels]
  BY <1>1, <1>2, <1>3
<1>5. EnCours' \subseteq EnCours /\ Libres' = Libres
  BY <1>1, <1>2 DEF EnCours, Libres
<1>6. IsFiniteSet(EnCours') /\ Cardinality(EnCours') <= Cardinality(EnCours)
  BY <1>1, <1>5, FS_Subset
<1>7. /\ Cardinality(EnCours) \in Nat /\ Cardinality(Libres) \in Nat
      /\ Cardinality(EnCours') \in Nat
  BY <1>1, <1>6, FS_CardinalityType, LibresFinies
<1>8. Places'
  BY <1>1, <1>5, <1>6, <1>7 DEF Places
<1>9. QED
  BY <1>2, <1>4, <1>8, DemandeJuste

LEMMA CreerJuste ==
  ASSUME IInv, NEW d \in Demandeurs, Creer(d)
  PROVE  IInv'
<1>. DEFINE l == Premiere(Libres)
            r == [op |-> demande[d].op, status |-> "EN_ATTENTE", attempts |-> 0]
<1>1. /\ demande[d].etape = "creation" /\ table' = [table EXCEPT ![l] = r]
      /\ demande' = [demande EXCEPT ![d] = SansDemande]
      /\ UNCHANGED <<lien, sante, draining, vidange, reprise, incidents, temoins>>
  BY DEF Creer
<1>2. /\ TypeOK /\ demande \in [Demandeurs -> Appels] /\ table \in [Lignes -> Rangees]
      /\ vidange \in [Vidanges -> EtatsDeVidange]
      /\ IsFiniteSet(EnCours) /\ Cardinality(EnCours) <= Cardinality(Libres)
      /\ essais \in [Lignes -> Nat] /\ effets \in [Lignes -> Nat]
      /\ sansReponse \in [Lignes -> Nat]
      /\ pannes \in Nat /\ redemarrages \in Nat
  BY Types, ConstantesFile DEF IInv, Places
<1>3. UNCHANGED <<redemarrages, pannes, essais, effets, sansReponse, faites,
                heritees>>
  BY <1>1 DEF incidents, temoins
<1>4. d \in EnCours
  BY <1>1 DEF EnCours
<1>5. /\ IsFiniteSet(EnCours \ {d}) /\ Cardinality(EnCours \ {d}) = Cardinality(EnCours) - 1
      /\ Cardinality(EnCours) \in Nat /\ Cardinality(EnCours \ {d}) \in Nat
  BY <1>2, <1>4, FS_RemoveElement, FS_CardinalityType
<1>6. Libres # {}
  <2>1. Cardinality({}) = 0
    BY FS_EmptySet
  <2>2. Cardinality(Libres) # 0
    BY <1>2, <1>5, LibresFinies
  <2>3. QED
    BY <2>1, <2>2
<1>7. l \in Libres /\ l \in Lignes
  BY <1>6, LibresFinies, PremiereDedans
<1>8. table[l].status = "ABSENTE" /\ essais[l] = 0 /\ effets[l] = 0 /\ table[l].attempts = 0
  BY <1>7 DEF Libres, IInv, LignesTenues
<1>9. r \in Rangees /\ r.status = "EN_ATTENTE" /\ r.attempts = 0
  BY <1>1, <1>2, ConstantesFile DEF Rangees, Appels, Statuts
<1>. HIDE DEF l, r
<1>10. /\ table' \in [Lignes -> Rangees] /\ table'[l] = r
       /\ \A k \in Lignes : k # l => table'[k] = table[k]
       /\ demande' \in [Demandeurs -> Appels]
  BY <1>1, <1>2, <1>7, <1>9 DEF SansDemande, Appels
<1>11. TypeOK'
  BY <1>1, <1>2, <1>3, <1>10, Types DEF TypeOK, Sante, EtatsDeVidange, Rangees, Appels
<1>12. UneVidange'
  BY <1>1 DEF IInv, UneVidange, Active
<1>13. LignesTenues'
  BY <1>3, <1>9, <1>10, ConstantesFile DEF IInv, LignesTenues, EnAttente
<1>14. \A v \in Vidanges : vidange[v].etape \in {"rejeu", "inscription"} => l \notin vidange[v].restent
  BY <1>8 DEF IInv, VidangesTenues, Tenue, EnAttente
<1>15. VidangesTenues'
  <2>1. SUFFICES ASSUME NEW v \in Vidanges PROVE Tenue(v)'
    BY DEF VidangesTenues
  <2>2. Tenue(v) /\ vidange[v].restent \subseteq Lignes
    BY <1>2 DEF IInv, VidangesTenues, EtatsDeVidange
  <2>3. QED
    BY <1>1, <1>3, <1>10, <1>14, <2>2 DEF Tenue, EnAttente, Ecrit
<1>16. FaitesTenues'
  BY <1>3, <1>9, <1>10 DEF IInv, FaitesTenues
<1>17. Compte'
  <2>1. SUFFICES ASSUME NEW k \in Lignes
                 PROVE  effets'[k] <= pannes' + sansReponse'[k] + (IF AFermer(k)' THEN 1 ELSE 0)
    BY DEF Compte
  <2>2. CASE k = l
    BY <1>2, <1>3, <1>8, <2>2
  <2>3. CASE k # l
    <3>1. AFermer(k)' <=> AFermer(k)
      BY <1>1, <1>10, <2>3 DEF AFermer, Ecrit
    <3>2. QED
      BY <1>3, <3>1 DEF IInv, Compte
  <2>4. QED
    BY <2>2, <2>3
<1>18. TentativesExactes'
  <2>1. \A k \in Lignes : table'[k].attempts = table[k].attempts
    BY <1>8, <1>9, <1>10
  <2>2. \A k \in Lignes : EnTrainDEtreInscrite(k)' <=> EnTrainDEtreInscrite(k)
    BY <1>1 DEF EnTrainDEtreInscrite
  <2>3. QED
    BY <1>3, <2>1, <2>2 DEF IInv, TentativesExactes
<1>19. Places'
  <2>1. EnCours' = EnCours \ {d}
    BY <1>1, <1>2 DEF EnCours, SansDemande
  <2>2. Libres' = Libres \ {l}
    BY <1>7, <1>9, <1>10 DEF Libres
  <2>3. Cardinality(Libres') = Cardinality(Libres) - 1 /\ Cardinality(Libres) \in Nat
    BY <1>7, <2>2, LibresFinies, FS_RemoveElement
  <2>4. QED
    BY <1>2, <1>5, <2>1, <2>3 DEF Places
<1>20. QED
  BY <1>11, <1>12, <1>13, <1>15, <1>16, <1>17, <1>18, <1>19 DEF IInv

-----------------------------------------------------------------------------
(* The restart, the initial state, and the whole.                          *)

\* The new process has no drain: a row that was about to be written down loses
\* that try, and no row has yet taken effect in its life.
LEMMA RedemarrerJuste ==
  ASSUME IInv, Redemarrer
  PROVE  IInv'
<1>1. /\ TypeOK /\ table \in [Lignes -> Rangees] /\ essais \in [Lignes -> Nat]
      /\ pannes \in Nat /\ redemarrages \in Nat
  BY Types, ConstantesFile DEF IInv
<1>2. /\ redemarrages < MaxRedemarrages /\ redemarrages' = redemarrages + 1
      /\ sante' = Neuf /\ draining' = FALSE
      /\ vidange' = [v \in Vidanges |-> AuRepos]
      /\ demande' = [d \in Demandeurs |-> SansDemande]
      /\ reprise' = TRUE /\ effets' = [l \in Lignes |-> 0] /\ heritees' = Waiting
      /\ sansReponse' = [l \in Lignes |-> 0]
      /\ UNCHANGED <<lien, table, pannes, essais, faites>>
  BY DEF Redemarrer
<1>3. \A v \in Vidanges : vidange'[v].etape = "repos"
  BY <1>2, AuReposTypee
<1>4. TypeOK'
  <2>1. vidange' \in [Vidanges -> EtatsDeVidange] /\ demande' \in [Demandeurs -> Appels]
    BY <1>2, AuReposTypee DEF SansDemande, Appels
  <2>2. sante' \in Sante /\ heritees' \subseteq Lignes /\ redemarrages' \in 0..MaxRedemarrages
    BY <1>1, <1>2, NeufTypee, ConstantesFile DEF Waiting
  <2>3. QED
    BY <1>1, <1>2, <2>1, <2>2, Types DEF TypeOK, Sante, EtatsDeVidange, Rangees, Appels
<1>5. UneVidange' /\ VidangesTenues'
  BY <1>3 DEF UneVidange, VidangesTenues, Tenue, Active
<1>6. LignesTenues' /\ FaitesTenues'
  BY <1>2 DEF IInv, LignesTenues, FaitesTenues, EnAttente
<1>7. Compte'
  BY <1>1, <1>2 DEF Compte
<1>8. TentativesExactes'
  <2>1. SUFFICES ASSUME NEW k \in Lignes
                 PROVE  /\ 0 <= essais'[k] - table'[k].attempts
                                  - (IF EnTrainDEtreInscrite(k)' THEN 1 ELSE 0)
                        /\ essais'[k] - table'[k].attempts
                             - (IF EnTrainDEtreInscrite(k)' THEN 1 ELSE 0) <= redemarrages' + pannes'
    BY DEF TentativesExactes
  <2>2. /\ 0 <= essais[k] - table[k].attempts - (IF EnTrainDEtreInscrite(k) THEN 1 ELSE 0)
        /\ essais[k] - table[k].attempts - (IF EnTrainDEtreInscrite(k) THEN 1 ELSE 0)
             <= redemarrages + pannes
    BY DEF IInv, TentativesExactes
  <2>3. table[k].attempts \in Nat /\ ~EnTrainDEtreInscrite(k)'
    BY <1>1, <1>3, ConstantesFile DEF Rangees, EnTrainDEtreInscrite
  <2>4. QED
    BY <1>1, <1>2, <2>2, <2>3
<1>9. Places'
  <2>1. EnCours' = {} /\ Libres' = Libres
    BY <1>2 DEF EnCours, SansDemande, Libres
  <2>2. QED
    BY <2>1, LibresFinies, FS_EmptySet DEF Places
<1>10. QED
  BY <1>4, <1>5, <1>6, <1>7, <1>8, <1>9 DEF IInv

LEMMA InitIInv == Init => IInv
<1>. SUFFICES ASSUME Init PROVE IInv
  OBVIOUS
<1>1. /\ \A v \in Vidanges : vidange[v] = AuRepos
      /\ \A l \in Lignes : /\ table[l] = Absente /\ essais[l] = 0 /\ effets[l] = 0
                           /\ sansReponse[l] = 0
      /\ pannes = 0 /\ redemarrages = 0
  BY DEF Init
<1>2. /\ \A v \in Vidanges : vidange[v].etape = "repos"
      /\ \A l \in Lignes : table[l].status = "ABSENTE" /\ table[l].attempts = 0
  BY <1>1, AuReposTypee DEF Absente
<1>3. TypeOK
  <2>1. /\ vidange \in [Vidanges -> EtatsDeVidange] /\ demande \in [Demandeurs -> Appels]
        /\ table \in [Lignes -> Rangees]
    BY AuReposTypee, ConstantesFile DEF Init, SansDemande, Appels, Absente, Rangees, Statuts
  <2>2. /\ lien \in Liens /\ sante \in Sante /\ draining \in BOOLEAN /\ reprise \in BOOLEAN
        /\ redemarrages \in 0..MaxRedemarrages /\ pannes \in 0..MaxPannes
    <3>1. lien = "bon" /\ sante = Neuf /\ draining = FALSE /\ reprise = TRUE
      BY DEF Init
    <3>2. lien \in Liens /\ sante \in Sante
      BY <3>1, NeufTypee, ConstantesFile
    <3>3. draining \in BOOLEAN /\ reprise \in BOOLEAN
      BY <3>1
    <3>4. redemarrages \in 0..MaxRedemarrages /\ pannes \in 0..MaxPannes
      BY <1>1, ConstantesFile
    <3>5. QED
      BY <3>2, <3>3, <3>4
  <2>3. /\ essais \in [Lignes -> Nat] /\ effets \in [Lignes -> Nat]
        /\ sansReponse \in [Lignes -> Nat]
        /\ faites \subseteq Lignes /\ heritees \subseteq Lignes
    BY DEF Init
  <2>4. QED
    BY <2>1, <2>2, <2>3, Types
<1>4. UneVidange /\ VidangesTenues
  BY <1>2 DEF UneVidange, VidangesTenues, Tenue, Active
<1>5. LignesTenues /\ FaitesTenues
  BY <1>1, <1>2 DEF LignesTenues, FaitesTenues, EnAttente
<1>6. Compte
  BY <1>1 DEF Compte
<1>7. TentativesExactes
  <2>1. \A l \in Lignes : ~EnTrainDEtreInscrite(l)
    BY <1>2 DEF EnTrainDEtreInscrite
  <2>2. QED
    BY <1>1, <1>2, <2>1 DEF TentativesExactes
<1>8. Places
  <2>1. EnCours = {}
    BY DEF Init, EnCours, SansDemande
  <2>2. QED
    BY <2>1, LibresFinies, FS_EmptySet DEF Places
<1>9. QED
  BY <1>3, <1>4, <1>5, <1>6, <1>7, <1>8 DEF IInv

LEMMA NextIInv == IInv /\ [Next]_vars => IInv'
<1>. SUFFICES ASSUME IInv, [Next]_vars PROVE IInv'
  OBVIOUS
<1>1. CASE UNCHANGED vars
  <2>1. UNCHANGED <<draining, vidange>> /\ UNCHANGED <<table, demande, incidents, temoins>>
          /\ UNCHANGED <<sante, lien, reprise>>
    BY <1>1 DEF vars
  <2>2. sante' \in Sante /\ lien' \in Liens /\ reprise' \in BOOLEAN
    BY <2>1, Types DEF IInv
  <2>3. QED
    BY <2>1, <2>2, Commencements, CommenceJuste
<1>2. CASE Appeler \/ VidangeManuelle \/ Reprendre
  BY <1>2, AppelerJuste, VidangeManuelleJuste, ReprendreJuste
<1>3. ASSUME NEW v \in Vidanges, Lire(v) \/ Executer(v) \/ Inscrire(v) \/ PerdreLaBase(v)
      PROVE  IInv'
  BY <1>3, LireJuste, ExecuterJuste, InscrireJuste, PerdreLaBaseJuste
<1>4. ASSUME NEW d \in Demandeurs, Chercher(d) \/ Creer(d) \/ (\E o \in Ops : EtreRefuse(d, o))
      PROVE  IInv'
  BY <1>4, ChercherJuste, CreerJuste, EtreRefuseJuste
<1>5. CASE Changer \/ ModifierRouteur \/ Tick
  BY <1>5, EntourageJuste
<1>6. CASE Redemarrer
  BY <1>6, RedemarrerJuste
<1>7. QED
  BY <1>1, <1>2, <1>3, <1>4, <1>5, <1>6 DEF Next

-----------------------------------------------------------------------------
\* One drain at work under the flag, the rows it holds are as it read them, each
\* effect and each try is accounted for, and every caller has its row (the
\* inductive invariant of RouterOperationQueue).
THEOREM Invariance == Spec => []IInv
<1>1. QED
  BY InitIInv, NextIInv, PTL DEF Spec

\* Every variable keeps its type; above all no row ever counts more than
\* MaxAttempts tries.
THEOREM TypageFile == Spec => []TypeOK
<1>1. IInv => TypeOK
  BY DEF IInv
<1>2. QED
  BY <1>1, Invariance, PTL

\* A row closed as done took effect on the router, and within one life of the
\* process it took effect once, one more for each failure of the database and for
\* each of its own effects whose answer was lost (drain, replay).
THEOREM RejeuxFideles == Spec => []RejeuFidele
<1>1. IInv => RejeuFidele
  <2>1. SUFFICES ASSUME IInv, NEW l \in Lignes
                 PROVE  /\ table[l].status = "TERMINEE" => l \in faites
                        /\ effets[l] <= 1 + pannes + sansReponse[l]
    BY DEF RejeuFidele
  <2>2. effets[l] \in Nat /\ pannes \in Nat /\ sansReponse[l] \in Nat
    BY <2>1, ConstantesFile, Types DEF IInv
  <2>3. effets[l] <= pannes + sansReponse[l] + (IF AFermer(l) THEN 1 ELSE 0)
    BY <2>1 DEF IInv, Compte
  <2>4. QED
    BY <2>1, <2>2, <2>3 DEF IInv, FaitesTenues
<1>2. QED
  BY <1>1, Invariance, PTL

\* The attempts of a row are the times it was tried, less at most one for each
\* restart and each failure of the database (the update at the end of replay).
THEOREM TentativesComptees == Spec => []TentativesExactes
<1>1. IInv => TentativesExactes
  BY DEF IInv
<1>2. QED
  BY <1>1, Invariance, PTL

-----------------------------------------------------------------------------
(* What no step does to a row.                                             *)

Fermee(l) == table[l].status \in {"TERMINEE", "ABANDONNEE"}

\* A closed row is neither rewritten nor tried on the router again, a row keeps
\* the operation it was created for, and its attempts never go back: a late
\* update of replay cannot overwrite what another drain wrote.
LignePreservee(l) ==
  /\ Fermee(l) => table'[l] = table[l] /\ essais'[l] = essais[l]
  /\ table[l].attempts <= table'[l].attempts
  /\ table[l].status # "ABSENTE" => table'[l].op = table[l].op

\* The row a drain works on waits, with the attempts that the drain has read.
LEMMA LigneAuTravail ==
  ASSUME IInv, NEW v \in Vidanges, vidange[v].etape \in {"rejeu", "inscription"}
  PROVE  LET l == Premiere(vidange[v].restent)
         IN  l \in Lignes /\ ~Fermee(l) /\ vidange[v].lues[l] = table[l].attempts
<1>1. vidange[v].restent # {} /\ vidange[v].restent \subseteq Lignes
  BY Types DEF IInv, VidangesTenues, Tenue, EtatsDeVidange
<1>2. Premiere(vidange[v].restent) \in vidange[v].restent
  BY <1>1, PremiereDedans
<1>3. QED
  BY <1>1, <1>2 DEF IInv, VidangesTenues, Tenue, EnAttente, Fermee

LEMMA RienChange ==
  ASSUME IInv, UNCHANGED <<table, essais>>, NEW l \in Lignes
  PROVE  LignePreservee(l)
<1>1. table[l].attempts \in Int
  BY Types, ConstantesFile DEF IInv, Rangees
<1>2. QED
  BY <1>1 DEF LignePreservee

LEMMA InscrirePreserve ==
  ASSUME IInv, NEW v \in Vidanges, NEW fait, InscrireComme(v, fait), NEW l \in Lignes
  PROVE  LignePreservee(l)
<1>. DEFINE k == Premiere(vidange[v].restent)
            apres == Inscrite(table[k], vidange[v].lues[k], fait)
<1>1. vidange[v].etape = "inscription" /\ table' = [table EXCEPT ![k] = apres] /\ essais' = essais
  BY DEF InscrireComme
<1>2. k \in Lignes /\ ~Fermee(k) /\ vidange[v].lues[k] = table[k].attempts
  BY <1>1, LigneAuTravail
<1>3. table \in [Lignes -> Rangees]
  BY Types DEF IInv
<1>4. \A i \in Lignes : table[i].attempts \in Int
  BY <1>3, ConstantesFile DEF Rangees
<1>5. apres.attempts = table[k].attempts + 1 /\ apres.op = table[k].op
  BY <1>2, <1>3 DEF Inscrite, Rangees
<1>6. table'[l] = IF l = k THEN apres ELSE table[l]
  BY <1>1, <1>3
<1>. HIDE DEF k, apres
<1>7. QED
  BY <1>1, <1>2, <1>4, <1>5, <1>6 DEF LignePreservee

LEMMA ExecuterPreserve ==
  ASSUME IInv, NEW v \in Vidanges, Executer(v), NEW l \in Lignes
  PROVE  LignePreservee(l)
<1>. DEFINE k == Premiere(vidange[v].restent)
<1>1. vidange[v].etape = "rejeu" /\ table' = table /\ essais' = [essais EXCEPT ![k] = @ + 1]
  BY DEF Executer
<1>2. k \in Lignes /\ ~Fermee(k)
  BY <1>1, LigneAuTravail
<1>3. table \in [Lignes -> Rangees] /\ essais \in [Lignes -> Nat]
  BY Types DEF IInv
<1>4. table[l].attempts \in Int
  BY <1>3, ConstantesFile DEF Rangees
<1>5. l # k => essais'[l] = essais[l]
  BY <1>1, <1>3
<1>. HIDE DEF k
<1>6. QED
  BY <1>1, <1>2, <1>4, <1>5 DEF LignePreservee

\* The row that a caller takes had no history.
LEMMA CreerPreserve ==
  ASSUME IInv, NEW d \in Demandeurs, Creer(d), NEW l \in Lignes
  PROVE  LignePreservee(l)
<1>. DEFINE k == Premiere(Libres)
            r == [op |-> demande[d].op, status |-> "EN_ATTENTE", attempts |-> 0]
<1>1. /\ demande[d].etape = "creation" /\ table' = [table EXCEPT ![k] = r] /\ essais' = essais
  BY DEF Creer, temoins
<1>2. d \in EnCours /\ IsFiniteSet(EnCours) /\ Cardinality(EnCours) <= Cardinality(Libres)
  BY <1>1 DEF EnCours, IInv, Places
<1>3. Cardinality(EnCours \ {d}) = Cardinality(EnCours) - 1 /\ Cardinality(EnCours \ {d}) \in Nat
  BY <1>2, FS_RemoveElement, FS_CardinalityType
<1>4. Libres # {}
  <2>1. Cardinality({}) = 0
    BY FS_EmptySet
  <2>2. Cardinality(EnCours) \in Nat
    BY <1>2, FS_CardinalityType
  <2>3. Cardinality(Libres) # 0
    BY <1>2, <1>3, <2>2, LibresFinies
  <2>4. QED
    BY <2>1, <2>3
<1>5. k \in Libres
  BY <1>4, LibresFinies, PremiereDedans
<1>6. k \in Lignes /\ table[k].status = "ABSENTE" /\ table[k].attempts = 0
  BY <1>5 DEF Libres, IInv, LignesTenues
<1>7. table \in [Lignes -> Rangees]
  BY Types DEF IInv
<1>8. table[l].attempts \in Int
  BY <1>7, ConstantesFile DEF Rangees
<1>9. table'[l] = IF l = k THEN r ELSE table[l]
  BY <1>1, <1>7
<1>. HIDE DEF k
<1>10. QED
  BY <1>1, <1>6, <1>8, <1>9 DEF LignePreservee, Fermee

\* For any number of overlapping drains, callers, restarts and failures of the
\* database, no step of the queue reopens, rewrites or replays a row that drain
\* has closed, nor takes an attempt back.
THEOREM LignesFermeesPourToujours == Spec => [][\A l \in Lignes : LignePreservee(l)]_vars
<1>1. IInv /\ [Next]_vars => [\A l \in Lignes : LignePreservee(l)]_vars
  <2> SUFFICES ASSUME IInv, Next, NEW l \in Lignes
               PROVE  LignePreservee(l)
    OBVIOUS
  <2>1. CASE Appeler \/ VidangeManuelle \/ Reprendre
    BY <2>1, RienChange DEF Appeler, VidangeManuelle, Reprendre, temoins
  <2>2. ASSUME NEW v \in Vidanges, Lire(v) \/ Executer(v) \/ Inscrire(v) \/ PerdreLaBase(v)
        PROVE  LignePreservee(l)
    <3>1. CASE Lire(v)
      BY <3>1, RienChange DEF Lire, temoins
    <3>2. CASE Executer(v)
      BY <3>2, ExecuterPreserve
    <3>3. CASE Inscrire(v)
      BY <3>3, InscrirePreserve DEF Inscrire
    <3>4. CASE PerdreLaBase(v)
      BY <3>4, InscrirePreserve, RienChange DEF PerdreLaBase
    <3>5. QED
      BY <2>2, <3>1, <3>2, <3>3, <3>4
  <2>3. ASSUME NEW d \in Demandeurs, Chercher(d) \/ Creer(d) \/ (\E o \in Ops : EtreRefuse(d, o))
        PROVE  LignePreservee(l)
    BY <2>3, CreerPreserve, RienChange DEF Chercher, EtreRefuse, temoins
  <2>4. CASE Changer \/ ModifierRouteur \/ Redemarrer \/ Tick
    BY <2>4, RienChange DEF Changer, ModifierRouteur, Redemarrer, Tick, temoins
  <2>5. QED
    BY <2>1, <2>2, <2>3, <2>4 DEF Next
<1>2. QED
  BY <1>1, Invariance, PTL DEF Spec
=============================================================================
