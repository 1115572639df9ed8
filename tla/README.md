# GOST-Manager in TLA+

A model of GOST-Manager beside its code: TLA+ modules translated from the
source, TLC runs that check them on small instances, and theorems that TLAPS
proves for every value of the constants. `PROJECT.json` maps each definition to
the lines it stands for and lists runs, mutants, hazards, findings and theorems.

Contents: [the system](#the-system), [plan](#plan),
[modules](#modules-and-the-code), [runs](#runs), [fairness](#fairness),
[proofs](#proofs), [findings](#findings-and-observations),
[what is not modelled](#what-is-not-modelled).

## The system

GOST-Manager runs GOST tunnels between an "Iran" host and "Kharej" hosts. A
profile (`iran-N` or `kharej-N`) is an env file, a systemd unit and, on the
Kharej side, a set of iptables rules. There are four programs.

| Component | State it keeps | Operations |
|---|---|---|
| Manager (`gost-manager.sh`) | env files, units, the INPUT chain, services, snapshot files in `/tmp` | create, clone, edit, delete, cleanup, stability settings, installation of the GOST binary |
| Upstream Watchdog (`gost_watchdog/`) | one SQLite row for each Iran profile, one mode file for each profile, deadlines in memory | daemon cycle (ping, count, stop, start), commands: set-mode, maintenance, re-arm, reset |
| Monitoring (`monitoring/`) | SQLite samples, roll-ups and events, a runtime lock | collector cycle, retention, migration; queries and exports only read |
| Installer (`setup.sh`, `install.sh`, `uninstall.sh`) | installed files, staged copies, states of collector and Watchdog units | verified download, staged replacement with rollback, removal |

How they meet:

* Manager, Watchdog and operator all start and stop the same tunnel services
  through `systemctl`. No lock is shared between them.
* Watchdog daemon and Watchdog commands share the row. Each reads the whole
  row, works on a copy and writes the whole row back.
* The manager shares the INPUT chain with every other program on the host, and
  addresses rules by position.
* The installer stops and restores collector and Watchdog around the
  replacement of their files.
* The collector reads what the others leave in `/proc`, `ss`, systemd and the
  env files, and changes none of it. Collector and purge exclude each other by a
  lock file; `gost-monitor-admin maintenance` and `migrate` take no lock.

What is hard, and the property that would make each part correct:

* **Durable actions** (`engine.py`). A stop or start of a service is three
  things that can fail apart: the saved intent, the `systemctl` command, the
  saved ownership. A stop must never be forgotten; no command may run without
  its intent; an intent may only be saved where it is authorised, because a
  restart carries out whatever it finds.
* **Shared row.** Daemon and command overlap at every row access, so a row may
  be overwritten by an older copy. It must stay consistent even then.
* **Time.** Recovery deadlines are wall-clock times in a row that survives
  restarts; the scheduler skips missed periods.
* **Liveness.** Intents are resolved in every mode; a lasting outage stops the
  service, a lasting recovery starts it.
* **Rules by position** (`gost-manager.sh` 1024-1371). Every insertion and
  deletion moves the rules below. The served port must never be open, other
  programs' rules must survive, an undo must leave the chain as it was.
* **Profile operations** (`gost-manager.sh` 1763-1852, 2083-2215, 2531-2840).
  Env file, unit, rules and service change one after the other; each may fail,
  each point of failure has its own undo path, and each step of that may fail.
* **Installation** (`install.sh`, `setup.sh`). Fifteen files, two databases and
  two services change one after the other, under an error handler that undoes
  all of it and may itself fail; a second script around it exchanges the source
  tree, and signals reach either. What is reported as rolled back must be, and
  nothing old may be lost before the commit.
* **Collector cycles** (`collector.py`). Two readings of the host some time apart,
  one transaction with savepoints, and saves outside of it; each may fail or be
  cut by a crash. Rates must not invent traffic or spikes, events must say what
  the saved states say, estimates must belong to the process that runs, and
  health must not call healthy what is out of service.
* **Stored history** (`schema.py`, `query_engine.py`). Samples become roll-ups
  and age out, written by cycles and by a maintenance without a lock; a query
  puts its answer together from both. No sample may be counted twice or dropped.
* **Purge** (`admin_cli.py`). A database is replaced through hard links while
  other processes may hold it open; the old history must survive every failure
  up to the point of no return, and a report must be true.

## Plan

In order of importance. The first eight are built, the uninstaller excepted.

1. `ProfileState`, `Watchdog`: the row, the durable actions, daemon, commands,
   operator, failures and crashes; safety, liveness.
2. `OutageSpec`, `RecoveryClock`: the abstract promise about outages, and the
   timed health machine that implements it.
3. `WatchdogScheduler`: deadlines and wake-ups.
4. `WatchdogProofs`, `RecoveryClockProofs`, `WatchdogSchedulerProofs`.
5. `Firewall`, `FirewallProofs`: the chain, command by command.
6. `ProfileTransaction`: create, edit, delete and cleanup with all undo paths. It
   uses the firewall through the outcomes `Firewall` establishes.
7. `Installer`, `Setup`, `InstallerProofs`: replacement, rollback and service
   states of `install.sh` inside the exchange of the source tree of `setup.sh`.
   Open: `Uninstaller`, the removal of `uninstall.sh` on the host of `Installer`.
8. Monitoring: `HistoryPurge`; `Collector` with `EventState`, `Counters` and
   `Health`; `MetricStore` and, on top of it, `HistoryQuery`. Their proofs are in
   `HistoryPurgeProofs`, `CollectorProofs` and `HistoryQueryProofs`.
9. Extensions: the stability settings; the port conflict check with two managers;
   the conversion of databases of an earlier schema; event history and pruning of
   the Watchdog store.
10. Composition of manager and Watchdog on one service with the Watchdog's row.
    `ProfileTransaction` has somebody else start or stop the service (`Outside`).

## Modules and the code

### ProfileState

The record of one profile and every change `engine.py` makes to it in memory,
one operator for each: `Suspend`, `Stopped`, `Started`, `Compensated`,
`ResumedStop`, `ResumedStart`, `ResumeFailed`, `ReconcileService`,
`SuccessfulCheck`, `FailedCheck`, `ExitedWithStart`, `ExitedNoStart`.
Timestamps are reduced to what the code tests of them (set or not); fields that
are only displayed are left out.

### Watchdog

One profile with its daemon, one administration command at a time, the row, the
mode file, the service, an operator with `systemctl`, and the upstream. A
process has a program counter and a copy of the row (`st`); a step is at most one
access to shared state. `DurableServiceActions.stop` and `.start` are the points
`intent`, `query`, `act`, `commit`, `compensate`, `recommit`, `refuse`;
`reconcile_pending` is `resume_query`, `resume_act`, `resume_save`. Faults are a
constant set: a ping that is no answer, a failing query, a command that fails or
times out (with or without effect), a failing save, the death of either process
at any point. `stopper` is a history variable: who made the service inactive.

`Overlap` says whether operations of daemon and commands may interleave. The
code has no lock, so `TRUE` is the code; what holds only for `FALSE` is stated
as such, and two findings show what the overlap costs.

### OutageSpec and RecoveryClock

`OutageSpec` states an outage in terms of the answers themselves: it begins only
when the last `FailureThreshold` answers were failures, and ends only when the
last `SuccessThreshold` were successes and `Hold` seconds have passed since they
first all were. `RecoveryClock` is the health machine of the engine with its
counters, deadlines, jitter and wall clock; the clock may be set back. The
comparison of row and service, which shares the handler, is in `Watchdog`.
`ImplementsOutageSpec` is the refinement (`outage` is "down or recovering",
`time` the time that really passed).

### WatchdogScheduler

`run_cycle`, `run` and `advance_deadline` for a set of profiles: who is due, when
each is due again, when the daemon wakes. Slow cycles, late wake-ups, profiles
that leave and come back, an unreadable global configuration. `Configure` is what an
administrator does while the daemon sleeps: `SetMode`, `ConfigureProfile`,
`ResetProfile` and `SetGlobal` change modes, a profile's own interval and the global
one that profiles without their own inherit (`IntervalOf`); `SpoilOrRepair` stands
for files edited by hand. A cycle reads all of it once and keeps the deadlines
that are pending: a new interval counts from the pending deadline on. So the history
variables `used` and `origin` say with which interval a deadline was computed and
from which deadline on that interval has been in force.

### Firewall

The INPUT chain as a sequence. A process of the manager is a phase with a queue
of iptables commands and a final check; `Execute` issues one command, `Fail`
makes a command or a reading of the chain fail, `Verify` is the check at the end.
`StartPrepare`, `StartFinalize`, `StartRollback` are the modes of
`transition_kharej_firewall_rules`; `StartMutate` and `StartRestore` those of
`mutate_kharej_firewall_rules`. A rule is reduced to tag, source and port: what
`signatures` compares. `prepare` and `finalize` compare the words themselves, and
iptables may print a rule in other words than those it was given (`-s` before `-p`,
`-m tcp` added). `verbatim`, chosen once for a host, says whether it does not;
`Recognised` is the comparison of a read candidate with the written one, and a
comparison of two readings is not affected. The
code's lists of pairs of a position and a rule are functions from positions to
rules; a loop over `sorted(...)` goes through their domain with `Nth`.
`Foreign` is every other program: it appends at any time, and inserts at the head
only while no process of the manager runs (see the observations).

### ProfileTransaction

One action for each helper of `install_new_profile_from_loaded`, `edit_profile`,
`delete_tunnel` and `clean_old_broken_configs` that changes something; each may
fail. Env and unit files,
the rules as one of the chains `Firewall` can leave, the service with the
configuration it runs, the snapshots on disk and what the manager reports.
The manager may be killed between any two actions: what must hold then is an
invariant (`OldRecoverable`). `Outside` is the Watchdog or an operator who starts
or stops the service, once in an operation; `meddled` remembers it, and the
properties say which of their parts such a step may break. A cleanup decides at
its listing and removes after the operator's answer without looking again.

### Installer

`install.sh` on a host: the content of every managed file (found, new, absent),
the managed directories, the schema of both databases, and what systemd knows of
the two services (the unit it has loaded, enabled, active, and the code the
process was started with). `tx` holds the script's own variables: what it
recorded, listed, backed up and attempted. The script is a program counter over
the groups of commands between which the host changes. `CommandFails` and the
failing disjuncts of the other actions run the ERR trap; `PrepareServiceRollback`
to `RestoreServiceState` are `rollback_transaction`, each with the ways it can
fail; `EndUndo` is `on_error`. The script runs with `set -E`, so a command that
fails inside `$( )` runs the trap in the subshell and then again in the script:
`subshell` and `twice` follow that. systemd and `systemctl` are external: what a
command that succeeds does, and that one which fails did it or did not.

### Setup

`setup.sh` around it: the prior source tree is renamed, then noted in a flag, the
candidate likewise, the installer run, its status noted, and the EXIT trap puts
the tree back unless the installer succeeded or could not verify its rollback.
`Interrupt` is INT or TERM between any two commands, `InstallerKilled` a signal
that ends the installer at any point. `MCSetup` lists the hosts.

### HistoryPurge

`gost-monitor-admin purge-history` file operation by file operation: the new
database, two hard-linked anchors and a link of the WAL, the replacement, the
fsyncs, the removal of the anchors, the `except` branch that puts everything back
and the `finally` branch. The state directory maps names to contents; `durable` is
the set of directories a power failure may leave. Collector (under the lock) and
maintenance (without one) open the database beside it.

### Collector, EventState, Counters, Health

`Collector` is the daemon: `Begin` fixes timestamp and what is due, `CaptureHost`
and `CaptureServices` are the two readings, `Transact` the transaction with its
parts in the order of `collect_once`, then checkpoint, overrun and deadline.
`TransactFails` and `RecordFailure` are the failed cycle, `Crash` and `Reboot` may
come anywhere. The host has kernel counters, which may be replaced or start again,
and one service with its process, listener and tunnel.
`EventState` has the operators of `event_state.py`, `Counters` the differences of
`network_readers.py` and `proc_readers.py`, `Health` the verdict of `health.py` over
the snapshot `query_engine.py` reads.

Conventions: sources are independent in the code, so a behaviour follows one
`kind` of source, and `Slice` keeps the part of the database that kind uses;
maintenance belongs to the kind "service". Time passes and the host changes while
the daemon is down, sleeps or is between its two readings (`Between`); a sleeping
daemon wakes for its deadline. The second interface, disks and processes always
move. The failures of all sources share one budget; a failing `network_metrics` is
met in the kinds that have network counters. `traffic`, `served`,
`out_of_service` and `missed` are history variables.

### MetricStore and HistoryQuery

`MetricStore` is the history of one gauge: samples, roll-ups, watermark,
retention. A cycle fixes its timestamp (`BeginCycle`) and commits later
(`CommitCycle`, with maintenance at the cycle's timestamp, without, or with a failed
one), `AdminMaintenance` runs at the time of the clock at any moment. A roll-up row
is the set of the samples it was computed from; counts, minimum and maximum are
functions of that set. A unit of time is not longer than the shortest sample
interval: one cycle begins in each (after a restart there may in truth be two). A
cycle whose time a stored sample has replaces that sample, as the upsert does; this
happens only after the clock was set back.

`HistoryQuery` has what the query engine computes: the window, the cost-aware
plan with its limits, raw, rolled-up and mixed summaries, the streaming one, the
rows of an export. A query reads one snapshot of the database, so these are
operators, evaluated for every window (resolved up to `MaxLag` before the reading)
in every state without an open cycle; the samples themselves are the reference. The
cadence of the metric, which decides how many samples a stretch of time should hold
(`Due`) and how long a sample lasts (`MaxGap`), is a parameter of the summaries: each
window is asked for every member of `Cadences`, which need neither divide a minute
nor fit into one. `ExpectedFits` allows for the rounding of the code (see the
observations). A roll-up row expects what the cadence gives for a minute.

## Runs

Every property of a passing run has a mutant in `PROJECT.json`: a definition
replaced by a plausible bug, under which TLC finds the property violated. The
mutated forms stand before the definitions they mutate and are used nowhere else.
Closely related claims are checked as one property, a conjunction of named parts,
the type invariant of the module among them: `FollowsUpstream`, `TimesRight`,
`ScheduleKept`, `ReportExact`, `OperationReportTrue`, `SparesRunning`,
`InstallReportTrue`, `HistorySafe`, `RatesTrue`, `HealthIsTrue`, `StoreComplete`,
`AnswerRight`. The parts are what the text below names.

| Run | Instance | Shows |
|---|---|---|
| `watchdog_serial` | thresholds 2 and 2, all commands, all faults, operations do not overlap | `NoOrphanStop`: a service stopped by Watchdog or maintenance is owned, pending or reported after any crash or failure. `IntentBeforeAction`, `OverrideSticky` |
| `watchdog_liveness` | thresholds 1 and 1, enter-stop, dying commands, full overlap, fairness | `IntentResolved`, `FollowsUpstream` (`EventuallyRestarted`, `EventuallyStopped`); `OwnershipConsistent`, `OutageConsistent`, `PendingAuthorised` of the saved row in every interleaving |
| `watchdog_operator_stop`, `watchdog_maintenance_race` | thresholds 1 and 1, the commands the case needs, no faults | violations: see the findings |
| `recovery_clock` | thresholds 2 and 3, hold 2, jitter up to 1, clock set back by 2, 8 seconds | the refinement of `OutageSpec`; recovery in time, reported durations |
| `watchdog_scheduler` | two profiles, intervals 1 and 3 and any changes of them (own, global, reset), cycles and wake-ups up to 1 late, 8 instants; the profiles are symmetric | every profile is checked in time by the interval of its last check, deadlines stay on the grid of an unchanged interval, missed periods are skipped |
| `firewall` | two ports, two sources, protected and not; four start chains; up to 2 failures in a transaction, 2 foreign rules, chains up to 5 rules at the start of a transaction; rules printed verbatim or not | never open, foreign rules kept, applied and restored exactly, giving up only for a reason |
| `profile_transaction` | no constants: every operation, every state of the service, every combination of failures, one start or stop by somebody else | what is reported as restored is, with no snapshot left and nothing given up without cause; what is changed is recoverable; the served port is covered; deletes and cleanups take nothing from a running service |
| `setup` | six kinds of host (none, only history, older release, one from before the Watchdog, older release with the same units, same release) with three combinations of service states; every command may fail, one failure while undoing, signals anywhere | what is reported as rolled back is (`UndoneOnceMeansRestored`), giving up only for a reason, old files, databases and source recoverable, services started from one release only, source and runtime aligned |
| `history_purge` | every operation may raise, two of: kill, power failure, maintenance | the database name always holds an fsynced file, the old history survives until the anchor is removed, reports are true, no WAL is replayed into the other database unless maintenance ran inside the purge; a purge ends |
| `collector` | six kinds of source, four instants, two lives of a counter or process, one failure, crash or reboot | rates count nothing twice and do not spike, events agree with saved states, estimates are of the process that runs, what health calls healthy served lately and what it calls down was down |
| `metric_store` | three samples (one unavailable) in four minutes of two units; raw retention 4, roll-ups 6, batches of one minute; one step of the clock; limits of 1 and 2 rows; metrics of cadence 2 and 3 | no sample is dropped or late but for the stated reasons, roll-ups are final; every answer counts exactly its samples, misses none it should have, expects no less than are due and no more than the rounding of its parts adds; streaming and exports agree |

Why the bounds are enough. Thresholds: with 2 a count can be below, at and beyond
the threshold before it is capped; the proofs cover the rest. All commands with
all faults in full overlap are out of TLC's reach: the serial run has the
commands and faults, the liveness run the overlap, and the proofs of the three
row properties cover the product. The clock's 8 seconds hold two outages at these thresholds (checks need no time) and
a hold with jitter between them. The scheduler's 8 instants hold two periods of the
slow interval, eight of the fast one and a change between them; nothing but the
configuration tells the two profiles apart, so they are symmetric. Two failures
are one in an operation and one in its undo; a third would meet a process that has no further handler.
Two foreign rules are one at the start and one added, above or below. A
transaction starts on at most 5 rules, which includes stray rules of a failed one
before; that run disables the deadlock check because beyond that bound, with no
failures left, no transaction starts. `collector` and `metric_store` disable it
because their time is bounded. Everything else is checked for deadlock. The
hosts of `setup` differ in what the scripts test: file present or equal, unit
present, service enabled or active, directory and database present. One failure
while undoing reaches every failure path, since each ends the undoing but that
of a file; `InstallerProofs` covers any number and any host. Two faults of
`history_purge` are one that ends a purge and one in the next attempt or in its
undoing. Four instants of `collector` hold a gap (three intervals), a refresh
at its cadence and a stale point; with one fault a source fails and recovers
there. In `metric_store` four minutes hold a sample that is rolled up, one that
leaves raw retention and one whose roll-up is too old; a batch of one minute makes
maintenance fall behind, the row limits make the plan choose each of its answers
and refuse. One cadence is a whole minute, so that only windows that cut a minute are
rounded, and one is longer, so that every roll-up row rounds up.

## Fairness

Two runs use it. `history_purge`: `WF(Purge)`, the purge is a program without waits
that runs on (it may be killed, and every step may fail); nothing else need
happen. `watchdog_liveness`: `WF(DaemonStep)`: the unit has
`Restart=on-failure`, and every ping, query and command of the daemon has a
timeout, so the daemon does not stand still. `SF(Evaluate(FALSE, TRUE))`: time
passes between checks that repeat forever, so again and again one comes after the
comparison interval and after the recovery deadline. Nothing is assumed of
commands or operator: they may stop half-way, or never begin. The run has no
daemon crashes: with an unbounded number of them no progress could be promised.

## Proofs

TLAPS checks eight modules from nothing. Assumptions are the named ones of the
modules: `ThresholdAssumption` (both thresholds at least 1; `config.py` bounds),
`OverlapAssumption`, `CommandsAssumption`, `FaultsAssumption`,
`SchedulerAssumption`, `ClockAssumption`, of `Installer` `HostsAssumption` (a
host's units are loaded, a service without a unit is off) and
`MaxFaultsAssumption`, `CollectorAssumption` (intervals are positive),
`StoreAssumption` (a minute and the longest cycle together are not longer than raw
samples are kept: seconds against six hours), `QueryAssumption` (cadences are
positive and finitely many, limits are naturals), and `FirewallAssumption` (the stranger is in no
source list, chains are sequences of rules). `NoneAssumption` of `HistoryPurge`,
`RecoveryClock` and `Collector`, and a part of `StoreAssumption`, say that the
value standing for Python's `None` is not one of the other values. Inductive
invariants were checked by TLC on small instances before they were proved.

* `WatchdogProofs`: `TypeCorrect`, `OwnershipAlwaysConsistent`,
  `OutageAlwaysConsistent`, `PendingAlwaysAuthorised`, for all thresholds, sets of
  commands and faults, and with overlap. The soundness of the row is not
  inductive: a process saves its copy, so the copies must be sound as well, and
  what a copy holds depends on where its process stands. `IInv` therefore adds
  `LocalOK`: between intent and command the copy holds the action the process
  carries out, after the command it holds none, and elsewhere it is sound. One
  lemma for each action; they rest on one lemma for each operator of
  `ProfileState`, which maps a `Settled` record (typed, sound, no intent) or a
  `Sound` one to a sound one (`CheckIntent` is an intent the record authorises).
  `NeverOrphanStop`, `AlwaysIntentFirst` and `OverrideAlwaysSticky` assume
  `Overlap = FALSE`: with overlap they are false (see the findings). `SerialInv`
  says that a process with a copy is alone, and that row and copy then agree on
  stop, intent and override up to what the process has just done (`CopyOK`), so
  that no save takes back what another process wrote.
* `RecoveryClockProofs`: `TimesAlwaysRight` and `ImplementsOutages`, the refinement
  of `OutageSpec`, for all thresholds, holds, jitters and steps of the clock. The
  abstract specification decides by the last answers and the code by two counters, so `WindowOK` says that the counters count
  the last answers; `ReadyOK` and `StartedOK` relate wall-clock times to the time
  that passed, which is at least as far as the wall clock says. Every step is then
  shown to be one of `OutageSpec` or a stutter.
* `WatchdogSchedulerProofs`: `DeadlinesStayOnGrid`, `MissedPeriodsSkipped` and
  `ScheduleAlwaysKept`, for any profiles, intervals, changes of them and delays.
  `AdvanceDeadlineCorrect` is the arithmetic of `advance_deadline`; `IInv` says
  that each deadline is a multiple of the interval it was computed with (`used`)
  after the one that interval began at (`origin`), and that a due profile's deadline
  has been reached. A changed interval starts both anew, one that is configured but
  not used yet touches neither. Lateness needs more (`TInv`): the
  scheduler sleeps to the earliest deadline, and a profile that has been enabled
  since its last check has one that is no later than the interval used then.
* `FirewallProofs`: `RulesOfOthersKept`, `ServedPortNeverOpen` and `ReportsExact`, for
  chains, rule sets and source lists of any length, any number of failures and any
  rules of other programs. The three properties speak of the chain and the code
  works on positions, so `ChainInv` says, for each phase of each process, what the
  commands still in the queue mean for the chain as it is now. Deletions from the
  highest position down (`Deleting`) name exactly the positions of the profile's
  rules that are to go; insertions in ascending order (`Filling`) have put the rules
  of the snapshot back at their positions up to the next one; `Clearing` names each
  rule of the profile; candidate rules are stacked on top from the last to the first
  (`Stacking`, `Stacked`) until the whole set is there (`Topped`). All rest on
  `Inserted`: what one rule more at a position does to the positions, the order and
  the number of the other rules (`CarriedOwn`, `CarriedOrder`), proved once and read
  backwards for a deletion.
  iptables rejects a position beyond the end; that this never happens in a
  restoration (`FillingFits`) needs that there are at least as many rules of others
  as at the snapshot, since other programs only add. The served port is never open
  because a DROP of it stands above every rule that could let the stranger in
  (`Closed`): that of the old rules, which stay until the candidate is whole, or that
  of the candidate, which stays on top until the old rules are back. That no edit
  gets past a comparison of words iptables prints otherwise is `WordInv`; that a
  refusal has a reason is `RefusalInv`, which must know why the undo of a `prepare`
  was begun.
* `InstallerProofs`: `OldFilesAlwaysRecoverable`, `HistoryAlwaysKept` and
  `SourceAlwaysRecoverable`, for every host and any number of failures. That an old
  file is in place or backed up is not inductive: one must know that the backups
  of listed files are their old contents, that a file not listed is untouched,
  that the file to be backed up is not listed yet (the order names none twice),
  how far an undoing without error has come, and that backups are removed only
  where every file is put back. `FilesAt` says so for each label of the script.
  `HistoryInv` adds that a database that was there is never noted as created;
  `SourceInv` says where the prior tree is at each step of `setup.sh`.
  `ReportsAlwaysTrue`, `SourceAlwaysAligned` and `StartsAlwaysConsistent` state
  `InstallReportTrue`, `AlignedUnlessCut` and `StartsConsistent`. That an undoing
  without error restores everything (`UndoneIsRestored`) needs `CreatedInv` (what the
  installer created it has noted, and without it the directories are the old ones)
  and `ServiceInv` (what was recorded is true; a service the undoing has dealt with
  runs its old process or none; after the reload the units are those found; a
  restored service is the old one down to the code its process runs). `AlignInv` says
  where the installer stands at each step of `setup.sh` and what the flags that keep
  the new tree mean. `ForwardInv` says that on the way forward the files before the
  current position are of the release (configurations excepted), and that systemd has
  the units on disk unless one changed and the reload is still to come.
* `HistoryPurgeProofs`: `HistoryAlwaysSafe` and `ReportAlwaysTrue`, for any number
  of faults. A power failure may leave any directory of those that may be on the
  disk, so the invariant speaks of all of them: which database has the name at
  each label (`NameOK`), that the old one has its name or its anchor in every one
  of them until the point of no return (`AnchorOK`), what has reached the disk
  (`SyncedOK`), and that no WAL outlives its database unless a maintenance ran
  inside the purge (`WalOK`).
* `HistoryQueryProofs`: `StoreAlwaysComplete` and `RollupsFinal`, for every
  retention, batch and sequence of values. While the clock has not been set,
  roll-ups lie below the watermark and everything below it is rolled up
  (`AtWatermark`), samples younger than raw retention are there (`RawInv`), and the
  watermark is not ahead of an open cycle unless maintenance ran beside it
  (`ClockInv`). A cycle that opened before the watermark moved takes it back, to a
  minute whose samples are too young to have been deleted; this is where
  `StoreAssumption` is used.

  `AnswersComplete`, `NoSampleReadTwice` and `ExportsExact` are about the queries
  on that store. `PlanFacts` says where a plan puts the border between roll-ups and
  raw samples: never beyond the watermark, and raw only from where nothing was
  deleted. A roll-up of the plan lies in whole minutes below the border (`RowFacts`),
  so no sample is read from both sides; a sample above it is still raw (`RawInv`), and
  one below it is rolled up (`AtWatermark`). An export has the rows of the same
  plan: `RowsExact` says that they divide the samples the summary counts, each row at a
  time of its own, because a cycle replaces the sample that has its time
  (`TimesApart`). These are
  the parts of `AnswerRight` and `ExportAgrees` that speak of samples; that counting
  them row by row gives their number is an induction over sets and stays with TLC.
* `CollectorProofs`: `EventsAlwaysTell`, `EstimatesAlwaysHonest` and
  `HealthAlwaysTrue`, for every kind of reading, interval, gap and number of
  failures. One lemma for each operator of `EventState` says what a change of one
  state and its event do to all the others, and `CycleStep` puts them together
  along the cycle. The invariant adds that an attempt is saved before anything is
  read (`AttemptInv`), that a refresh which was due and not missed is in the cache
  (`CacheInv`), that an estimate belongs to the process it was made for
  (`EstimateInv`), that the readings a cycle works with are not older than its
  start (`ServeInv`), and that what is stored of the current tunnel is of the last
  successful cycle (`TunnelInv`).

  `RatesAlwaysTrue` follows the same chain for the counters: each operator leaves
  saved samples, rates and reported sums alone (`Aside`) or stores the samples of
  the cycle, with their rates or without (`Counted`); `CycleCounts` puts them
  together. `RatesTrue` is not inductive: a rate that is right now depends on the
  sample it started from. `BalanceInv` follows a series from the saved sample over
  the reading under way to the kernel's counter: what was reported, and what the
  rates of these two intervals would add, has really happened. `SpeedInv` bounds
  each of the intervals, within one boot, by the time since the sample was read,
  which is earlier than the monotonic time saved with it (`ReadAt`). A counter that
  goes away, comes back or starts again gains nothing (`DropMoves`, `RebootRates`),
  one that runs no more than what happens (`TickMoves`). The total over the
  interfaces is written out in `AggregateIsSum`.

Only model-checked: the liveness properties (fairness and `ENABLED` are beyond the
prover); `ProfileTransaction`, whose model has no constants, so that its run is
exhaustive and a proof would add nothing; and, of `HistoryQuery`, the figures of a
summary (`AnswerRight`, the sum in `ExportAgrees`), which are folds over sequences
of samples and sums over sets: what they compute needs an induction over data.

## Findings and observations

Two runs end in a violation of what the documentation says.

* `watchdog_operator_stop`: the operator starts and stops a service within one
  comparison interval (or while the mode is not Auto). The row still owns the
  stop, and the daemon starts a service the operator stopped.
* `watchdog_maintenance_race`: maintenance is saved while the daemon holds a copy
  of the row; the automatic action is carried out and the daemon's save undoes
  the maintenance.
Noted while modelling, with no run of their own. Watchdog, setup and manager:

* A second outage while the Watchdog's own stop is still in place ends in manual
  override (`engine.py` 590) with no operator involved, and the profile is not
  started again.
* A `mktemp` or `stat` that fails inside `$( )` runs the ERR trap twice
  (`install.sh` 1182). The first run puts the files back and removes the backups;
  the second removes every changed file and finds no backup.
  `UndoneOnceMeansRestored` and `OldFileRecoverable` exempt `twice`.
* An installer ended by a signal has reported nothing, and setup puts the old
  source tree back beside a runtime that is new or half replaced (`setup.sh` 205).
* A signal between `mv TARGET_DIR BACKUP_DIR` and `PRIOR_SOURCE_BACKED_UP=1`
  (`setup.sh` 619) makes the trap take the only copy of the prior tree for a
  leftover and remove it (225). `SourceRecoverable` exempts that one point.
* A TERM that arrives while the installer runs is handled after it has ended and
  before `LOCAL_INSTALL_SUCCEEDED=1`: the source of a successful installation is
  rolled back. So it is when the removal of a backup fails after the commit
  (`install.sh` 1125). `AlignedUnlessCut` exempts both.
* After an undoing twice, status 70 says that backups were retained; the first one
  has removed them.
* A failed upgrade leaves an existing database migrated (`install.sh` 798).
* A service in state activating counts as inactive when it is recorded
  (`install.sh` 529): it is not restarted, and a rollback stops it.

* `exit-start` also starts a stop owned by the Watchdog (`engine.py` 702), while
  `docs/WATCHDOG-V1.md` 91 asks for a maintenance-owned one.
* The mode is read once for a cycle (`daemon.py` 118); a mode change during the
  cycle takes effect in the next one.
* A changed interval keeps the deadline that is pending (`daemon.py` 156): after a
  change from a long to a short one, the first check still comes at the old time.
* The hold is a wall-clock deadline (`engine.py` 569): a clock set forward ends it
  early. `RecoveryClock` sets the clock back only.
* `prepare` inserts the DROP of the candidate before its ACCEPTs: on the same port
  allowed sources are dropped for the time of a few commands.
* A rule another program appends during `prepare` makes its check fail and the
  undo's check as well: exit status 2, snapshot retained. A rule inserted at the
  head while a process deletes by position makes it delete the wrong rule; the
  final check notices, nothing prevents it. `Firewall` leaves that insertion out
  (hazard with a note).
* `prepare` and `finalize` compare raw words (`gost-manager.sh` 1268, 1285, 1294): the
  candidate is written `-p tcp -s SRC --dport N ...`, while `iptables -S` prints
  `-s SRC -p tcp -m tcp --dport N ...`. Where it does, every edit of a protected
  profile is refused at `prepare` and undone, with nothing wrong on the host;
  `GivesUpForAReason` names that as a reason. Only `signatures` (1101), used by
  create, delete and restore, tolerates it, and the stubs of the tests echo the words
  they were given (`tests/test-profiles.sh` 190).
* A port migration whose env write fails is rolled back without stopping the
  service. If that rollback fails too, the service may be left on the old port
  with only a part of its rules; the manager reports it. `ServedCovered` exempts
  that case. It also says nothing of an edit that disables the firewall, nor of a
  delete whose rules could not be put back: there the service is restored all
  the same, and the manager reports it.
* A service that was failed or activating when it was captured cannot be proved
  restored (`gost-manager.sh` 1598). A failed one cannot be deleted: after
  `disable --now` it is still not inactive. An env file without a unit cannot
  be deleted either (its unit state is not "disabled"); the cleanup menu does it.

* A cleanup removes unit and env file but neither stops the service nor removes
  its rules: the port of a removed Kharej profile stays closed or restricted. A
  service started after the listing loses its files while it runs.
* A stability run whose `daemon-reload` fails is not made good by the next one
  (`gost-manager.sh` 3441): the drop-ins match, so nothing is reloaded, and the
  settings are reported as already optimized.

Purge:

* Maintenance and migrate take no lock. A maintenance inside the purge may leave
  frames of the old database beside the new one (`NoMixedWal` exempts it).
* A failure after the recovery anchor is removed reports "failed" though the
  history is purged. A purge that is killed leaves its recovery files for ever.

Collector and health:

* There is no boot identity. When the host was up only briefly before a reboot,
  counters and monotonic clock may both have passed their saved values, and a rate
  spans the reboot (`docs/MONITORING-V0.2.md` 63-65 rules spikes out).
  `RateBounded` speaks of one boot.
* The monotonic time saved with a sample is read after it was taken: a slow
  reading makes the next rate too large by that much (`slack` in `RateBounded`).
* Events of host, storage and network parts have no savepoint: an event whose
  state is saved can be lost (`dropped` in `EventTellsState`).
* A `listener_disappeared` is ignored by health after the next cycle, which renews
  `entities.updated_at`; the listener's own metric then carries the verdict. A
  `wal_checkpoint_failed` is told once and forgotten by health after an hour.
* Cached socket values have no greatest age: they are reported as estimates as long
  as the refresh keeps failing. Sources named by process never recover and stay.
* An unreadable `/etc/gost` means no tunnels, the env source counts as recovered,
  and the whole may be healthy.
* A sample interval of 60 s is accepted, but health calls everything older than
  20 s unknown. A clock set back freezes snapshot and health.

Store and queries:

* An answer that reads roll-ups leaves out the minutes its window cuts, up to a
  minute at the start and at an end below the watermark (`AnswerComplete`).
* A sample committed after an unlocked maintenance passed its minute is in no
  roll-up (`late`). The same maintenance may mark an empty history later than the
  open cycle, whose own maintenance then takes the watermark back.
* When maintenance fails for longer than raw retention, a query skips the samples
  between watermark and raw cutoff though they are still stored, expects none
  there, and a raw export of the window shows more than its summary (`Current`).
* Each part of an answer rounds up the samples it expects (`query_engine.py` 219, 303,
  402): a window that is cut off the minutes expects one or two samples more than are
  due in it, and its coverage is shown a little low. For a metric that is sampled less
  than once a minute (checkpoints, 900 s) each roll-up row expects one.
* Roll-ups are written with the registered cadence or the sample interval
  (`schema.py` 811), while a query also has defaults of its own (`query_engine.py` 62)
  for metrics that are not registered (`collector.py` 1652). `HistoryQuery` takes the
  same cadence for both.
* After the clock was set back, a cycle at a time that is stored already replaces the
  sample (`schema.py` 256, 690).
* A backlog beyond raw retention and one batch (10 hours) loses samples that were
  never rolled up (`lagged`).
* A clock set back leaves the watermark in the future: queries read raw samples
  only, and later a gap.

## What is not modelled

The uninstaller is next in the plan. Of installer and setup, download, checksums,
archive checks, validation and staging are one step that may fail and changes
nothing; modes, owners and the installation of missing packages are left out. The
installation of the GOST binary and the stability settings are straight lines on
files no other operation uses.

Of monitoring, the parsing of `/proc`, `ss` and `systemctl` output, the parsing of
the configuration, rendering and command lines are left out, as are percentiles,
transitions of state metrics, floating-point averages of roll-ups and the writing of
an export file. The conversion of databases of schema 1 to 3 (`migrate_database`) is
one transaction: in `Installer` it succeeds or changes nothing, and what it makes
of the rows is not modelled. `Collector` and `MetricStore` are not composed: the
first has the newest points, the second the history of one series.

Menus, prompts, validation and printing keep no state; validation only decides
whether an operation begins. Listener and port checks are outcomes of the actions
that make them. The Watchdog's event history does not influence it and is left out
so far. Inside one helper, temporary files and file modes are left out: a helper is
done, not done, or has failed with either result. Manager and Watchdog are not
composed: in `ProfileTransaction` the Watchdog is somebody who starts or stops the
service once, in `Watchdog` the manager is the operator with `systemctl`.
