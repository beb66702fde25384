# GEMIKROT in TLA+

GEMIKROT sells Internet access by ticket or by subscription on MikroTik routers. A NestJS backend
(`src/apps/backend`) keeps tickets, payments and subscriptions in PostgreSQL and drives the routers
over links that fall, through a client package (`src/packages/mikrotik-service`). The console
(`src/apps/frontend`) and the public purchase page only call the backend.

The hard part of the program is that **two things that are both slow and both fail — a database and a
router at the end of a poor link — have to tell the same story**: who has paid, who may connect, whose
access must be closed, which router is which. No transaction spans them. Every `await` is a place where
another request, a timer or a signal runs. This directory models the parts of the code where that matters.

## 1. Inventory

Paths are relative to `src/apps/backend/src`. "State" says where it lives: a restart loses memory.

| Component | State | Operations | Hard behaviour | What makes it correct |
|---|---|---|---|---|
| Router health, circuit breaker (`routers/router-health.service.ts`, `mikrotik-client.factory.ts`) | memory: per router `state`, `consecutiveFailures`, `openUntil`, `sondeJusqua`; listeners | `autoriserAppel`, `recordSuccess`, `recordFailure`, `reset`, `blockedReason`, `onRecovered` | concurrent calls, verdicts late, out of order or never; parameters changed under calls in flight | one probe at a time; a dead link is never left open; a refusal always ends; the return is signalled |
| Deferred operations (`routers/router-operation.service.ts`) | table `router_operations`; memory: `draining` | `enqueue`, `drain`, `replay`, `vidangeAuDemarrage` | overlapping drains, crash between the effect and its record, signals that live in memory | at least once; not twice in parallel; attempts that count; leftovers taken up |
| Job lock (`scheduling/job-lock.service.ts`) | table `job_locks` | `acquire`, `withLock`, `release` | several processes, jobs that outlast their ttl, deaths, lost releases | mutual exclusion within the ttl; the job is always taken up again |
| Scheduler (`scheduling/scheduler.service.ts`) | memory: timers, `dernièrePurge` | minute, quarter-hour and hourly timers | a timer fires while the previous run goes on | a failed job does not stop its cadence |
| Expiry job (`scheduling/expiry-job.service.ts`) | none | `run`, `runForTenant`, `suspendExhausted` | marks first, cuts next, defers only one kind of error | a past date is acted on; the access is closed or its closing is recorded |
| Reconciliation (`vouchers/voucher-reconciliation.service.ts`) | none | `reconcileTenant` | rewrites rows from reads that have aged | never undoes a paid renewal |
| Router access (`routers/router-access.service.ts`) | none | `revoke`, `purgeCookies`, `closeSessions` | lists then deletes; swallows errors | no cookie reopens a closed access |
| Vouchers (`vouchers/vouchers.service.ts`) | table `vouchers` | `generateSingle`, `generateBatch`, `activate`, `renouveler`, `disable`, `cancel` | check, router call, unconditional update | a ticket is sold once; a renewal opens the access |
| Payments (`payments/payments.service.ts`) | table `payments` | `create`, `verifyPayment`, `reject` | concurrent verifications, rejection against verification, crash between claim and effect | one access per payment; money and access agree |
| Public page (`public/public.service.ts`, `rate-limit.guard.ts`) | tables `payment_claims`, `customers`; memory: windows | `claim`, follow-up | creations that no transaction joins | an identifier is reserved for one customer |
| Subscriptions, devices (`subscriptions/`, `devices/`) | tables `subscriptions`, `devices`; accounts and ip-bindings on the router | `create`, `renew`, `suspend`, `resume`, `reconcile`, `enableBypass` | period read, router called, period written; a bypass that skips the account | the access follows the status; paid days are never lost |
| Plans (`plans/`) and User Manager screens (`user-manager/`) | table `plans`; profile, limitation, junctions on the router | `create`, `update`, `remove`, `reconcile`, the screen | requests sent again after a lost answer; reconciliations side by side | what is on the router is the plan; the next reconciliation can run |
| Platform subscription (`tenants/abonnement-plateforme.service.ts`) | columns of `tenants` | `demarrerEssai`, `souscrire`, `definir`, `exiger*` | limits checked before the creation they guard; dates read then written | a paid period stays; a tenant stays within its offer |
| Authentication (`auth/`) | table `users`; memory: failure counts | `login`, `signup`, `renvoyerLeCode`, `confirmerCourriel`, throttle | count checked before an asynchronous comparison; a code written before its mail | the ceiling holds; the code received counts |
| Enrolment, assistant, WireGuard (`routers/router-enrollment.service.ts`, `raccordement-assiste.service.ts`, `wireguard.service.ts`) | table `router_enrollments`; the server's file of peers; the router's tunnel | `invite`, `consume`, `cancel`, `raccorder`, `allocateAddress`, `addPeer`, `removePeer` | token raced, address allocated twice, a stop between peer and row | one router per token, one router per address, rows and peers in agreement |
| Login page (`hotspot/page-connexion.service.ts`) | settings, table `hotspot_login_publications`; page and walled garden on the router | `etat`, `publier`, `reparer`, settings, pasted script | the page and its row are written from two readings; others work on the same router | a repaired path is open; the row says what the page carries |
| Purge (`scheduling/purge-job.service.ts`) | — | deletions by age | a ticket renewed after its expiry | only what is finished is deleted |
| mikrotik-service package | none | REST calls, `withControlledRetry` | a creation retried after a timeout | retries do not duplicate |
| Tenancy (`tenancy/`, `prisma/`) | async context | `runAsTenant`, `scoped`, `scopedStrict` | every call site must be placed on a tenant | no query leaves its tenant |
| Batches, imports, HotSpot forms, tickets, e-mail, notifications, customers, dashboard, audit, health | rows | forms, single calls, rendering | little | — |

**Who calls whom.** Every router call of every service passes through the factory's proxy, so through the
breaker. The breaker, on a return, calls the queue (`onRecovered`). The timers start the expiry job and the
reconciliation under a job lock; both mark tickets and cut accesses with `revoke`, and record a cut in the
queue when the breaker refuses them. The minute job also suspends subscriptions. A verified payment calls
`activate` or `renouveler` on the same tickets, or `renew` on the same subscriptions, at the same time; both
call `reconcile` of the plan first. Deleting a router removes its peer; the login page tells customers where
to buy.

`PROJECT.json` lists every component with what is modelled of it, and the hazards of the code at their lines.

## 2. The modules

| Module | Models | Kind |
|---|---|---|
| `RouterHealth` | what each method of `RouterHealthService` does to the record of one router | pure operators |
| `CircuitBreaker` | what a circuit breaker promises its callers | abstract specification |
| `RouterBreaker` | the proxy and the record under concurrent callers | detailed specification, refines `CircuitBreaker` |
| `JobLock` | the row of a scheduled job, its executions, its processes | specification |
| `DeferredOperations` | the table, the drains, the callers of `enqueue`, composed with `RouterHealth` | specification |
| `TicketExpiry` | one ticket between the expiry job, the reconciliation, the queue, a renewal, the customer | specification that composes five services |
| `PaymentLedger` | what a payment promises the customer and the till | abstract specification |
| `TicketSales` | declarations, verifications, rejections, cancellations of several requests at once, on tickets, payments and the routers' accounts | detailed specification that composes three services, refines `PaymentLedger` |
| `RouterEnrolment` | invitations, callbacks, the assistant, deletions: rows, peers, addresses, what each router carries | specification that composes four services |
| `Subscriptions` | subscriptions, their accounts and devices, the minute job and the queue | specification that composes four services |
| `PlanProvisioning` | a plan, its profile, limitation and junctions, requests sent again | specification that composes two services and the REST client |
| `PlatformAccounts` | an operator: log-in, code by e-mail, trial, subscription, ceiling of routers | specification that composes four services |
| `LoginPage` | the login page, the walled garden, the address of the console | specification |
| `SharedRecordProofs`, `TicketSalesProofs`, `LoginPageProofs`, `PlatformAccountsProofs`, `RouterEnrolmentProofs`, `DeferredOperationsProofs`, `TicketExpiryProofs`, `SubscriptionsProofs` | the theorems | proofs |
| `MC*` | the instances TLC checks | |

Names of variables, constants and operators are those of the code where TLA+ allows it. The code stores absolute
dates and compares them with now; the modules keep the time that is left before them, so a tick decreases them and
`0` is a date that is reached. That countdown (`Vieillir`, `Moins1`, the ticks) is the clock, which is external.

Three conventions hold in every module. A request is a record: how far it is (`etape`) and what it has read
and keeps in local variables; each read, each write and each router call is a step, and others run between
two steps. A call whose answer is lost is the call, then an action that cuts the request short; where
`withControlledRetry` sends it again and doing it twice matters, it is a step with the number of times it was done
(`MaxRetries`). Observations
that the code does not keep (history variables) are grouped and declared as such; they never appear in a
guard. Where the code is exposed to a race it does not defend against, the property names the exact
circumstance ("unless two writers of the contract crossed") and an observation records it: the property then
says that **nothing else** can cause the loss, which is what a change of the code could break.

### RouterHealth, RouterBreaker, CircuitBreaker

`sante` is the router's `RouterHealth`. A call has two steps, `Lancer` (the proxy calls `autoriserAppel` and
lets the call go) and one of `Reussir`, `PanneReseau`, `RefusDuRouteur` (the proxy records the verdict); a call
may also never come back. `Reinitialiser` is `invalidate`. Each method of the service is synchronous, so it is
one step. `consecutiveFailures` saturates at the threshold because the code only compares it with it.
`fenetre` is an observation that the code does not keep: how long each probe has left. `SignaleRetour` says when
`recordSuccess` calls its listeners; the queue uses it. `TypeOK` also says that the record never holds a rest and a
probe's place at once (`DatesExclusives`), which each method must keep.

`CircuitBreaker` has three phases and no counters. The refinement maps `sondeJusqua` set to the phase "sonde",
`openUntil` set to "repos", neither to "ferme". The abstract specification says what matters: while the breaker
is not closed, a call only goes through as the one live probe.

### JobLock

`acquire` and `release` are one SQL statement each, so one step each. A timer starts an execution whether or
not the previous one has ended (`setInterval`), so a process may have several. `enRetard` is an observation:
the live processes that once let an execution outlast its ttl. A process that dies comes back with another
identity (`holder` has a random suffix). A lock that holds must name its process: `release` finds it by the name.

### DeferredOperations

`vidange` is one record per call of `drain` in progress; its steps are the awaits of the code: read the table
(`Lire`), execute one operation (`Executer`, through the breaker; the effect of a call that ends in a failure may have
been done, its answer being lost or a `revoke` half done, which `sansReponse` observes), write the row (`Inscrire`),
and so on to the `finally` (`FinirVidange`). `PerdreLaBase` is a request to the database that fails: of the update of
a success (the `catch` then writes a failure), of the reading, or of the update of the `catch`. `demande` is one
record per caller between the refusal it met and the row it creates. `Redemarrer` loses memory and keeps the table.
`Appeler` is a whole call of the rest of the application, in one step, since `RouterBreaker` already splits it.
`essais`, `effets`, `faites`, `heritees` are observations that the properties speak of: the real tries, the effects,
what was done, what a process left to the next one.

### TicketExpiry

One ticket with a User Manager account. `coupe` says how far each of the three parties is in `revoke`: the
minute job and the reconciliation do not disable the account, the replay does. Each router call is a step that
may succeed, be refused by the breaker, or fail in another way; errors of the deletions are swallowed as in the
code. Rows are read in one step and written in a later one, so the model has the stale writes of the code. The
router and the customer are external: a login goes through RADIUS and leaves a cookie, a cookie reopens a
session without RADIUS, and the account's end is computed by the router. `oubli` is an observation: the reason
why nobody answers any more for the access of the ticket. An assignment is sent again when its answer is lost, and
stacks a period each time (`Empilees`, at the sale and at a renewal).

### TicketSales, PaymentLedger

A request to the backend is one record of `requete`: how far it is, and what it has read and keeps in local
variables (`r` the payment, `v` the ticket, `c` the customer, `ou` the router of the next account). Each read, each
write and each router call is a step; two requests interleave between them. `claim` is `Declarer`,
`ChercherIdentifiant`, then `Reserver` and `Rattacher` or only `Racheter`. `verifyPayment` is `Verifier`, then
`Choisir` (stock or `generateSingle`), `Activer` with what it provisions, `Vendre`, `Reclamer`; or
`ReclamerReabonnement`, `Prolonger`, `EcrireProlongation`. `cancel` and `disable` are `Retirer`, `CouperAcces`,
`EcrireRetrait`: whether and where to cut is decided on the row as read, the final write is unconditional. Unique
columns (`code`, the reference, `voucherId`) make the second write fail, which ends the request. The router refuses
to create an account that exists (`CreerCompte`). `Echouer` is any exception or the end of the process between two
steps; the database and the router keep what was done. `Prolonger` adds a
period each time the assignment was sent, 1 to `1 + MaxRetries` times. `vendus`, `reclames`, `periodes`, `renvois` (the
periods that only lost answers explain) and `rompus` are observations.

A ticket has an account from the start, or is a historical one (`Historiques`), opened on the HotSpot when sold.
Customers only claim identifiers of `Noms`; generated codes are others, since both are unique in one table.

`PaymentLedger` knows no requests and no routers: a payment is recorded for a ticket it reserves, for none in
particular or for a period; it is honoured once, by a ticket that was sold for it before, or by a period that is owed
from then on and is added once or lost, with as many more as the router lost answers (`renvois`); it may be refused,
even after. The refinement maps the state of a payment to its status, its ticket to `voucherId`, the payments for a
period to those with `renewsVoucherId`, the tickets sold for it to `vendus`, and the periods owed to the requests that
have claimed and not yet called the router (`PeriodesDues`): a request that ends there, refused by `renouveler` or cut
short, is a period lost. The order of the two halves is the contrast the abstract specification makes visible: a
ticket is delivered before the money is claimed, a period after.

### RouterEnrolment

Three ways in share the addresses of the tunnel, the rows of the routers and the server's file of peers: the script
with its token (`Consommer`, then `Bruler`, `ChercherFiche`, `EcrireFiche`, `FaireLeMenage`, `Lier`, `PoserPair`), the
assistant (`Raccorder`, `PoserTunnel`, `PoserPairAssiste`, `Reconnaitre`, then a new row or one it recognises,
`Completer`) and an address that an operator types (`Ajouter`). Beside them, invitations are prepared, cancelled and
expire, routers are deleted, `reecrireLePair` rewrites a peer from a row read earlier, and a restart loads the peers
of the rows (`Redemarrer`). `addPeer` may write no peer and say so without throwing (the file is absent or refuses):
the callback, the assistant and the restart go on all the same (`PoserLePair`); a peer that cannot be removed does not
stop the deletion (`RetirerPair`). A script kept from an invitation that was used, has expired or is gone sets the
tunnel's address before it is refused (`RejouerScript`). Unique columns make the second write fail. A router has one
serial number and one key, taken for the same thing. `Occupe` says that whoever stands before a router does one thing
at a time with it. `deranges` and `perdues` observe which routers and invitations the last event has left half way.

### Subscriptions

`abonnement` is the row, `compte` the account on the router, `appareil` the ip-binding of a device, `enFile` a
deferred BASCULER_COMPTE. A gesture (`requete`) keeps the row it read at its beginning; `travail` is
`suspendExhausted` with its list. The end that the router gives for a new period is the router's affair: it may be
absent, or counted from now or from the current end (`FinsRendues`), with one more period for each time the assignment
was sent again (`Empilees`); a renewal whose last answer is lost too may have prolonged the account
(`AttributionEchouee`). `Retenue` is the test that the code makes of the end that it is given. `Anciens` are the
subscriptions that exist at the beginning. `trouble`, `perte` and `du` are observations: why a row and its router may
disagree, whether an end was written over one that had moved, and what the recorded renewals add up to.

### PlanProvisioning

`offre` is the row of the plan, `routeur` its profile, limitation and junctions. A call of `reconcile`, a removal,
or a gesture of the User Manager screen is a record of `appel`; its requests are steps, each of which may be done
and its answer lost, then sent again up to `MaxRetries` times, as `withControlledRetry` does. `cours` observes how
the call went: alone with every answer received, beside others of the same plan, or crossed. A profile put at the
tariff is read on the router in one step (`LireAuTarif`) and becomes a plan in another (`Publier`), which writes
nothing on the router and keeps the values of a plan that exists.

### PlatformAccounts

One operator: `exploitant` (status, end of the period, tolerance, ceiling of routers), `compte` (code, date,
confirmation), `compteur` (the two kinds of keys of `LoginThrottleService`), `routeurs`. A log-in reads the counters,
the account and its operator, then compares with what it read and counts (two steps); sign-up, resending,
confirmation, trial, subscription, activation, suspension and the creation of a router read and write at separate
steps. `EnrolerRouteur` is a router that calls back: `consume` creates its row and asks no limit. `Redemarrer` empties
the counters. `boite`, `doute` and `promis` observe the last code that arrived, whether a code was lost or two
crossed, and what was paid or set whatever the row says.

### LoginPage

`portail` is the address in the settings, `page` what `login.html` carries in each folder, `publication` its row,
`jardin` the walled garden, `console` where the console answers today. `reparer` reads the state, saves the address,
opens the garden, reads the settings, composes the page once (a second reading of the settings), then for each folder
writes the page and, when the request names its router, the row (from the first reading); otherwise the page only
(`NePasInscrire`). `publier` does the last part. An operator saves settings, pastes the script, and works in WinBox in
between. `ecart` observes why a row may differ from its page. An address is a URL with or without a port (`SansPort`);
rules of the garden and addresses are compared as the code does, which ignores the port of a rule on a name and
accepts a rule on any port for an address that has none (`DejaOuverte`). `reparer` does not give `etat` the port of
the console, so it aims at the address without it unless the console has a public one (`AdresseActuelle`,
`Publiques`).

## 3. What is checked

| Run | Shows | Bounds |
|---|---|---|
| `breaker` | `UneSeuleSonde`, `LienMortGarde`, `JamaisFermePourToujours`, refinement `TientSaPromesse` | the code's threshold of 3; rest 3, probe 2 ticks (30 s, 25 s); 3 callers |
| `job_lock` | `PasDeChevauchement`, `RetardsSansContagion`, `LeTravailReprend` | 2 processes, 2 executions each, ttl 2 |
| `queue` | `RejeuFidele`, `TentativesExactes`, `LaFileAvance` | 2 rows, 2 drains, 1 caller, threshold, rest and probe of 1, 2 attempts, lots of 2, a link that is good or cut, 1 restart, 1 failure of the database |
| `ticket` | `CoupureSuivie`, `EcheanceConstatee` | a period of 2 ticks, 1 renewal, 1 restart, a call sent again once |
| `sales` | `ReserveAuSien`, `VerifieOuvert`, `EnAttenteReglable`, refinement `TientLeGrandLivre` | 2 payments, 2 customers, 2 requests, 1 name and 1 code to generate, 1 ticket retired at a time, 1 payment whose verification is cut short, a call sent again twice |
| `sales_renewal` | **finding** `ReabonnementHonore`: a verified renewal that adds nothing | 1 request, nothing interrupted |
| `enrolment` | `TunnelCoherent`, `AdresseRendue`, `JetonServiUneFois` | 2 routers, invitations, rows, addresses and requests; an offer of 1 router; 1 accident |
| `subscriptions` | `AccesSuitStatut`, `PeriodesPayees`, `ToleranceFinie` | 2 subscriptions of which 1 exists at the beginning, 2 requests, period and grace of 1, 2 gestures, 1 failure, a call sent again once |
| `subscriptions_blocked` | **finding** `AccesExpireCoupe`: one absent account keeps the others open | 2 subscriptions, 1 request, no grace, 2 gestures, 1 failure, a call sent again once |
| `plans` | `ReconciliationTient`, `ReconciliationRejouable` | 2 calls, 2 versions, 1 request sent again, 2 junctions, 2 changes of the plan |
| `accounts` | `EssaisBornes`, `PlateformePayee`, `CodeRecuVaut`, `PlafondTenu` | 2 requests, ceilings of 1 and 2 failures, window, trial, tolerance and validity of 1 tick, period of 2, 4 requests begun, 2 routers |
| `purchase_path` | `ReparationOuvre`, `PublicationFidele` | 2 requests, 2 folders, 2 requests begun, 1 act of somebody else; 4 addresses: a name (public) and an address in figures (local), each with and without a port |

Every passing run also checks the `TypeOK` of its module. Each property of a passing run is shown to depend on
the code: `PROJECT.json` names, for each, a plausible bug of a mapped definition (the operators commented
"Mutated form of") under which TLC finds it violated.

**Why the bounds are enough.** The breaker compares one counter with a threshold and two dates with now: three callers
give one that opens it, one probe and one straggler, and the proofs cover every other value. Two executions per
process are what an overlap in one process needs, two processes what a takeover needs; the proofs cover the rest. In
the queue, two drains are one more than the code allows at a time, two rows are an order, two attempts tell the last
from the others; one failure opens the breaker, since `breaker` has shown what the others do. The ticket needs one
renewal to be overwritten and one restart to lose a party; the dates tell "passed", "running" and "prolonged" apart;
one call sent again stacks one period more than was bought. For the sale, two requests are a race, two payments are
two sales of one ticket or a sale and a renewal, two customers are a stranger who types a name that is taken; the
stock starts empty, so that its one code is generated, left in the stock by an interruption, and sold again. For the
enrolment, two routers dispute two addresses, and one more accident only adds a second router to `deranges`. For
subscriptions, two requests and the job are three writers of one row; one that exists and one to create put two in one
pass of the job, so that the failure of one is met before or after the other; two gestures are two renewals that
cross, a suspension and a resumption, or a creation beside either. For the plan, two calls cross, two versions tell an
old row from a new one. For the account, two requests cross, and four are a sign-up, a confirmation, a subscription
and what disturbs it. For the login page, two gestures are a publication and a repair that cross, and an act of
somebody else is what disturbs them; a public address in figures is not in the instance, nor a second port (the proofs
cover them). The proofs of section 4 remove these bounds for every safety property of a passing run.

**Fairness and why the code justifies it.** Time passes (`Tick`). In `RouterBreaker` nothing else is owed. In
`JobLock` the timers keep trying (`setInterval`, whose errors are caught) and every job ends because each of its
router calls has a timeout. In `DeferredOperations` the event loop runs what is ready (drains and callers, each to its
end), and the application keeps calling its router, which the minute and quarter-hour jobs do; a new process drains
what the previous one left (`Reprendre`). A manual drain, a restart, a change of the link are never owed. In
`TicketExpiry` only the clock and the minute job are fair; in `Subscriptions` only the steps of the minute job
(`Travailler`): they end, well or badly, and its pass takes the subscriptions in any order. `ToleranceFinie` owes
nothing to a subscription in whose pass an account is absent: that is the finding `AccesExpireCoupe`; it does owe an
end to one whose neighbour's cut failed because of the link or in another way that passes. The other modules have no
fairness: a request may stop anywhere, and their properties are safety.

**Deadlock** is checked in every run but those of `TicketSales`, `RouterEnrolment`, `Subscriptions` and
`LoginPage`, whose gestures are finite in number: they rest when all are spent.

## 4. What is proved

For every value of the constants that the named assumptions allow.

`SharedRecordProofs` holds three proofs that have nothing to do with each other but the shape: one shared record, and
actors that each read it in one step and change it in another. `RouterBreaker` keeps the plain names; `JobLock` and
`PlanProvisioning` say `...Verrou` and `...Offre` (`SpecVerrou`, `TypeOKOffre`), so that one module can extend all
three.

The breaker (`ConstantesDisjoncteur`: a positive threshold and a rest at least as long as the budget of a
probe, as 30 s and 25 s are):
- `TypageDisjoncteur`, `SondeUnique`, `LienMortToujoursGarde`: type correctness, one live probe, no dead link left
  open; types include `DatesExclusives`. `UneSeuleSonde` is not inductive: that two probes never overlap depends on
  the date held by the record being at least as far as the budget of every live probe (`FenetresCouvertes`); a
  straggler's network failure turns the wait for a probe into a rest, and it is there that `BudgetSonde <= Repos` is
  needed; `AttenteMeritee` says that the breaker waits only past the threshold, so that such a failure does open a
  rest.
- `Raffinement`: `Spec` implements `CircuitBreaker`'s specification under the mapping of section 2. Every step is an
  abstract step or a stutter; the invariant supplies that a call let through while the breaker is not closed finds
  no live probe.

The job lock (`ConstantesVerrou`, `PorteursDistincts`: the holders "nobody" and "a process that is gone" are no
live process):
- `TypageVerrou`, `ExclusionSansRetard`, `SansContagion`. The two safety properties need each other: the release
  of an execution is harmless to a covered one of the same process because two covered ones never coexist in a
  punctual process, and they never coexist because nobody released the lock early.

The plans (`ConstantesOffre`: versions are positive numbers, so that "absent" is none of them, a plan sets its shared
users or does not, junctions are finite in number and there is one at least):
- `TypageOffre`, `OffreEnPlace`, `ToujoursRejouable`: all three properties of the run. What a reconciliation has put on
  the router may be overwritten by another one, so it stands only because the calls that are not crossed all work from
  one plan (`MemeOffre`), which is still the row's (`OffreLue`): whatever one of them writes is what the others want.
  On that stands how far each has brought the router, request by request, although any of them may be sent twice
  (`Avancee`). That one which is alone is never refused needs more: that nothing it has read of the router has changed
  (`SeulSiNet`, `JamaisRefusee`), and that a published plan has the shared users of its profile (`PartageDuProfil`).

`TicketSalesProofs` (`ConstantesVentes`, `PagesConnues`: the routers exist; `AucunClient`: "nobody" is no customer):
- `PaiementVerifieUneFois`: one claim per payment, and at most one period plus those that lost answers added. The
  counters are not inductive: that a claim is the first one depends on the status (a payment that waits was never
  claimed, and nothing goes back to waiting: `EnAttenteNonReclame`); that a period is owed once depends on its request
  holding the only claim (`ProlongeUneFois`) and on no other request of the same payment being at that step
  (`SeulAProlonger`). All steps but three are shown to be `Ordinaire`: they bring nobody to the prolongation, revive
  no payment, touch no counter.
- `TypageVentes`, `ReservesAuxLeurs`, `VerifiesOuverts`, from a second invariant, `JInv`. That a reserved ticket is
  sold for its own payment depends on what each request knows of the two at each of its steps (`Suit`): a name is free,
  then held by the one request that reserved it (`SeulAReserver`) and bound to no payment, then by the one payment
  bound to it (`Livre`); a verification that has chosen holds the payment's own ticket as soon as one of the two is a
  name, because a name always has a customer (`Billets`) and the stock is what has none. One lemma says which changes
  of the tables a request does not notice (`SuitAutres`), one per kind of step gives them.
- `AttentesReglables`, from a third, `KInv`, that stands on the second: the account of a reserved ticket is created on
  the default router by one verification of its payment (`AttenteSuivie`, `SeulAInscrire`), which claims the payment or
  was cut short, and until it has written the row nobody sells the ticket or prolongs it (`CompteDuNom`, `SuitNom`).
- `LeGrandLivreEstTenu`: `Spec` implements `PaymentLedger`'s specification under the mapping of section 2. `JInv`
  supplies that a request which claims has sold its ticket and that a payment for a period has none, `IInv` that the
  request which leaves the prolongation was the only one to owe its period; `EnAttenteReserve` (a payment that waits is
  bound to a reserved ticket or to none) that a claim never changes the ticket of a payment.

`LoginPageProofs` (`ConstantesPage`, `AdressesPropres`, `PortsPropres`: removing the port twice removes it once, and
keeps a name a name):
- `TypageParcours`, `PublicationsFideles`, `ReparationsOuvrent`. The row gets the first reading of the settings and
  the page the second: the invariant says what a gesture knows of the two at each of its steps, until somebody saves
  or rewrites behind its back (`Juste`). For the repair, an undisturbed one has beside it only repairs aimed at the
  same address (`Paix`), so what it has opened and written stays until it ends. `ReparationOuvre` says where that
  suffices: the address aimed at is the console's own, and no rule is limited to another port of its host.
  `PublicationFidele` has five reasons, of which `anonyme` is a publication that did not name its router.

`PlatformAccountsProofs` (`ConstantesPlateforme`, `AdresseNEstPasUnCompte`):
- `TypageComptes`, `PeriodeGardee`, `CodeOuvre`, `RouteursSousPlafond`, `EssaisLimites`: all five properties of the
  run. What a request has read stays true until another of its family begins or a router enrols itself, and then they
  are marked (`Contrat`). For the throttle, the comparisons in progress are part of the count: a key lets one in only
  under its ceiling, and a failure is counted only once its request no longer compares.

`RouterEnrolmentProofs` (`ConstantesEnrolement`, `RienDeTel`: the names of "nothing" are no router, row or invitation):
- `Typage`, `JetonUneSeuleFois`, `AdressesRendues`, `TunnelsCoherents`: all four properties of the run. A connection
  that ends well must leave its router right although others have run since it laid the tunnel, put the peer and wrote
  the row; so the invariant says what each request knows at each step (`Tient`): the router carries its address, its
  peer is alone in the file, was displaced or could not be written, the row it wrote is still the one of its router or
  is gone. It holds because one request at a time connects a router, or several run one script of which one only has
  burnt the token (`Exclusives`, from `Occupe`, `Brulable` and the unique indexes). Requests are changed one at a
  time, so four lemmas carry the steps: those that only move a request (`AvanceJuste`), change the invitations
  (`LettresChangees`), the peers (`FichierChange`) or a row (`FichesChangees`).

`DeferredOperationsProofs` (`ConstantesFile`, `ConstantesDisjoncteur`):
- `TypageFile`, `RejeuxFideles`, `TentativesComptees`: the safety of the run. `effets[l] <= 1 + pannes +
  sansReponse[l]` is not inductive: it holds because an effect is that of a row already closed, or of one that a drain
  is about to close, or was hidden by a failure of the database or by a lost answer (`Compte`), and because a drain
  tries only rows that wait. That last fact stands while other drains are called since the flag lets one work at a
  time (`UneVidange`), so that a row it has read keeps its state and its attempts until it is written down (`Tenue`).
  `Places` says that every caller on its way to a creation has a row left, so that the bound on the rows cuts no
  caller short.
- `LignesFermeesPourToujours`, an action property that no run lists: from the same invariant, no step rewrites or
  replays a closed row, or takes an attempt back. It is `Tenue` again: the row a drain works on still waits, with the
  attempts that the drain has read (`LigneAuTravail`).

`TicketExpiryProofs` (`ConstantesTicket`):
- `TypageTicket`, `CoupuresSuivies`: the safety of the run. That somebody is cutting is not enough: a party that has
  passed the cookies when the customer comes back by one would return with the access open. So the invariant says how
  far a party still closes everything (`Tient`): before the cookies, or with the cookie among those it will delete, or
  with no cookie left and the session among those it will close. A cut deferred for a breaker waits in the table
  unless it was taken for the one under replay (`FileTenue`), which is one of the named losses. A ticket marked
  expired whose account has time left is marked by mistake or about to be prolonged (`ProlongationSuivie`): it is
  there when the last tick of that time passes. The dates are bounded by one period for each time an assignment may have
  been sent (`Bornes`, `Rachat`).

`SubscriptionsProofs` (`ConstantesAbonnement`, `PersonneNEstAbonne`: "nobody" is no subscription):
- `Typage`, `PeriodesJamaisPerdues`, `RouteurSuitLaLigne`: the safety of the run, for any number of subscriptions,
  operators and failures.
- That no date goes further than one period for each time an assignment may have been sent depends on the gestures
  that may still add some: each holds back its share (`Rachat`) until it has written it (`EnAttente`, counted by its
  cardinality; `Plafond(Faits)` bounds the row, the account and what every gesture keeps, `Bornes`).
- That a renewal writes at least what it owes depends on both having been taken at the same instant, since time
  passes for the two together (`RenouvellementsTenus`, `VieillirDates`).
- That the router does what the row says when nobody is at work depends on what a gesture that nobody crossed knows of
  the account and of the device between two of its steps (`Savoir`, `JobSait`), and on the fact that two openings or
  closings of one access both know that they are not alone (`Croisements`). The row and the router agree except while
  a gesture is between the two (`CompteSuit`, `AppareilSuit`).
- Every step is an instance of one of two lemmas: a gesture moves and touches its own subscription (`PasIInv`), or the
  job, the replay or the router does and no gesture moves (`PasDAutruiIInv`).

Only model-checked: liveness (`JamaisFermePourToujours`, `LeTravailReprend`, `LaFileAvance`, `EcheanceConstatee`,
`ToleranceFinie`), out of the prover's reach, as is `ENABLED`.
Every safety invariant of a passing run, and both refinements, have a theorem.

## 5. What the findings say

Two comments of the code promise something that the code does not do; the runs marked **finding** give the
shortest execution, and `PROJECT.json` quotes the lines. Both lose money or access:
- a customer who declares twice under the same name while the first payment waits: the second declaration is taken
  for a renewal, and if it is verified first its payment ends `VERIFIED` and gives nothing;
- a subscriber whose account was deleted on the router stops the pass of `suspendExhausted` every minute: those
  behind him in the list keep an expired access for ever.

The following were seen while modelling and have no run of their own. Where a property bears on one, it names it as an
exception; the others break no property that is stated here. Breaker, queue, end of a ticket:
- the return of a link may go unsignalled when the last straggler succeeds (`router-health.service.ts:263`; the
  comment at 126-127 says otherwise), nor is it when a refusal between the outage and the return has written
  `REPOND_MAL` (`:225` asks for `INJOIGNABLE`); no property speaks of it. A row created just after the drain of the
  return waits for the next outage, restart or manual drain (`router-operation.service.ts:119`, `:142`);
- an operation whose answer was lost, or a `revoke` that failed half way, is replayed (`sansReponse` in
  `RejeuFidele`); the head of `router-operation.service.ts` (11-17) promises at least once and no more;
- a cut is lost when the link falls before the breaker opens: the ticket is already marked and is not listed again
  (`expiry-job.service.ts:190`, `voucher-reconciliation.service.ts:235`);
- a deferred cut disables the account, and the paid renewal that crosses it leaves it disabled
  (`router-operation.service.ts:258`);
- the row of a job lock names a process, so a late execution releases the lock of a later one of the same process
  (`job-lock.service.ts:71`).

Sale:
- an assignment sent again after a lost answer stacks one more period (`retry.ts:24-33`,
  `routeros-mikrotik.service.ts:827`): `renvois` in the ledger, `Empilees` for tickets and subscriptions;
- with two routers, every online purchase is opened on the oldest one (`vouchers.service.ts:390`);
- two verifications of one counter payment may sell two tickets (`payments.service.ts:161`, accepted there by a
  comment; `schema.prisma:820-821` says one);
- a cancellation that overlaps a verification may leave a ticket `CANCELLED` with an open account
  (`vouchers.service.ts:498`).

Subscriptions and plans:
- gestures that cross each other or the job leave the status of one and the router of another (`AccesSuitStatut` exempts
  them until an opening or a closing has ended alone);
- the job's suspension does not block the bypassed devices of the subscription, and `enableBypass` does not look at
  the subscription; cut before it is remembered, it leaves a bypass that no suspension knows of;
- a deferred BASCULER_COMPTE replayed after a payment disables a paid account;
- `resume` may write `SUSPENDED` beside an open account when the grace ends between its check and its write;
- a creation cut after the account leaves an account that makes every retry refused;
- the reconciliation never reactivates, and takes the router's end even when it is earlier;
- a profile put at the tariff becomes a plan without caps, since only the profile is read; if it still has its
  limitation (a plan with caps was deleted, which leaves the router as it is), the next sale's reconciliation removes
  it, though the screen promises that nothing is written on the router (`rapprochement-profils.service.ts:190`);
- `updateProfile` cannot remove `override-shared-users`; a request whose answer is lost is sent again and may add a
  second junction; `pruneOrphanAssignments` is called by nothing; a router update that fails leaves the row written.

Operators:
- `exigerAbonnementValide` is only called by `generateBatch` (`vouchers.service.ts:179`) though its message says that
  sales are suspended; the token of a suspended operator goes on working;
- two overlapping `souscrire` lose a period; an activation that crosses a subscription may put a trial over it
  (`PlateformePayee` exempts requests of the contract that crossed);
- a router that enrols itself is never counted (`router-enrollment.service.ts:670` creates its row without
  `exigerRouteurDisponible`), though `abonnement-plateforme.service.ts:179-185` says that the limit is counted at the
  creation: `PlafondTenu` speaks of the routers that the console creates;
- two creations of routers may cross their limit, and two resendings of a code may arrive in the other order
  (`CodeRecuVaut` exempts them); a resending whose mail fails leaves a
  code that nobody knows;
- a comment (`auth.service.ts:278-279`) says that an account waits for its activation, the code creates it active;
  another (`schema.prisma:452-454`) says that an unconfirmed account cannot subscribe, which `souscrire` does not check.

Routers and login page:
- an invitation whose callback is cut between the burning of its token and the link keeps its address for ever; the
  assistant reserves nothing, so two routers may receive one address; a peer that could not be written leaves a row that
  says the router is connected, and an old script moves a router away from its row (`deranges` in `TunnelCoherent`);
- the diagnosis of the page looks only at the first folder found; the repair rewrites the whole form as it was read,
  and two repairs may add the rule of the garden twice;
- a publication or repair that does not name its router writes the page and no row (`page-connexion.service.ts:1010`),
  the fifth exception of `PublicationFidele`;
- the repair of a console of the local network on another port than 80 engraves and opens the address without the port
  (`:804` calls `etat` without `portConsole`), and a rule limited to a port counts as open for an address without one
  (`:1143-1147`): both end without an error on a closed path, and are the exceptions of `ReparationOuvre`.

## 6. What is not modelled, and why

- Of `RouterOperationQueue`, the kinds of operation beyond "it took effect" and their payloads; the tenants, since
  a drain concerns one router. Two equal rows created by two callers at once: the replay is idempotent.
- Of `revoke` as seen from the queue: one step in `DeferredOperations`, split in `TicketExpiry`.
- Of the expiry job, the other tickets of the same pass (one exception ends the pass of a tenant) and its limit of
  500 rows.
- Of the reconciliation, tickets of the HotSpot table.
- Of the sale, batches, HotSpot tickets with an account of their own, expiry, and the tenants; a taken identifier is
  refused whichever tenant has it.
- Of the enrolment, routers without a serial number, an interface `wg` that somebody else manages, the generated
  script, the choice of ports.
- Of the plans, their status, HotSpot profiles, the read-only comparison, and what nothing calls.
- Of the accounts, password reset, refresh tokens, roles, hashing, the texts of mails.
- Of the login page, everything but the address it carries; the domains of the operator as candidate addresses, which
  the repair never aims at.
- The client cache of the factory, credentials, texts of errors and logs, screens, rendering, mappers.
- Tenancy: whether each query is placed on its tenant is a property of each call site, not of a state machine.
- The browser console (`src/apps/frontend`, more than a third of the lines of the repository): screens over the
  backend's routes, without state that outlives a page.
- Imports, repairs and batches of tickets: each line is independent of the others and what fails is reported line by
  line; the purge: one conditional statement per table; the rate limit guard: one synchronous step.

## 7. Plan

Done, in the order of what would cost most if it were wrong: breaker with its abstract specification, job lock,
queue, end of a ticket, sale of tickets with its ledger, enrolment of routers, subscriptions, plans, accounts of
operators, login page; proofs of the safety of all of them.

What is left:
1. What a single step may not do, stated and proved so far for the queue (`LignesFermeesPourToujours`): for example that
   nothing shortens a subscription but the reconciliation, from the invariants that exist.
2. Batches: `generateBatch` and the creations that the router's own tool makes, against the import.
3. The HotSpot branches of the sale and of the reconciliation; the purge against renewals.
