------------------------------ MODULE Firewall ------------------------------
(***************************************************************************)
(* The INPUT chain and the three ways gost-manager.sh changes the rules of *)
(* one Kharej profile in it: the staged transition of an edit (prepare,    *)
(* finalize, rollback of transition_kharej_firewall_rules) and the direct  *)
(* mutation of create, delete and restore (mutate_kharej_firewall_rules).  *)
(*                                                                         *)
(* A Python process issues one iptables command at a time; each command,   *)
(* and each reading of the chain, may fail, and a failed command changes   *)
(* nothing.  The chain belongs to the whole host: other programs append    *)
(* rules at any time and insert rules at its head between two processes.   *)
(* The caller (edit_profile, install_new_profile_from_loaded or            *)
(* delete_tunnel) decides what follows each exit status; whether it goes   *)
(* on or undoes its work after a success depends on files and services     *)
(* that are not in this module, and is free here.                          *)
(*                                                                         *)
(* Rules are read back from iptables -S, which prints them in words of its *)
(* own (-s before -p, -m tcp added).  A rule read twice compares equal,    *)
(* and signatures() sees through the wording; prepare and finalize compare *)
(* what they read with the words they wrote themselves.                    *)
(***************************************************************************)
EXTENDS Integers, SequencesExt

CONSTANTS
    Configs,     \* profiles: [enabled, port, sources]; sources as a sequence
    Sources,     \* source addresses
    Stranger,    \* a source in no list of allowed sources
    Layouts,     \* the chains at the start, for the profile Start
    Start,
    MaxFaults,   \* bound: failures of iptables in one transaction
    MaxForeign,  \* bound: rules other programs add
    MaxRules     \* bound: no transaction starts on a longer chain

(* A rule of the profile carries its allow or its drop comment and one of  *)
(* its ports; a rule of another program is known here by a number.         *)
Ports == {c.port : c \in Configs}
Rules ==
         [tag : {"allow"}, src : Sources, port : Ports]
    \cup [tag : {"drop"}, src : {"any"}, port : Ports]
    \cup [tag : {"other"}, src : {"any"}, port : Nat]

ASSUME FirewallAssumption ==
    /\ Start \in Configs /\ Stranger \in Sources
    /\ \A c \in Configs : c.enabled \in BOOLEAN /\ c.sources \in Seq(Sources \ {Stranger})
    /\ Layouts \subseteq Seq(Rules)
    /\ MaxFaults \in Nat /\ MaxForeign \in Nat /\ MaxRules \in Nat

VARIABLES
    chain,      \* iptables -S INPUT
    kind,       \* what the caller does: "edit", "create" or "delete"
    old, new,   \* the profile before and after
    step,       \* how far the caller is
    saved,      \* its snapshot of the managed rules, with their positions
    phase,      \* what the running process does; "none": no process
    queue,      \* the iptables commands it still has to issue
    before,     \* the chain as the process read it first
    original,   \* history: the chain at the snapshot
    foreign,    \* history: the rules of other programs, in order
    faults,     \* history: failures in this transaction
    clean,      \* history: nothing failed or changed under the running process
    moved,      \* history: a foreign rule was inserted since the snapshot
    verbatim    \* does iptables print a rule in the words it was given?

vars == <<chain, kind, old, new, step, saved, phase, queue, before, original,
          foreign, faults, clean, moved, verbatim>>

-----------------------------------------------------------------------------
(* Rules and positions.                                                    *)

Allow(source, port) == [tag |-> "allow", src |-> source, port |-> port]
Drop(port) == [tag |-> "drop", src |-> "any", port |-> port]
Other(id) == [tag |-> "other", src |-> "any", port |-> id]

(* is_managed: the comment is the profile's allow or drop comment. *)
IsManaged(rule) == rule.tag \in {"allow", "drop"}

(* candidate_rules: one ACCEPT for each source, then one DROP. *)
CandidateRules(c) ==
    IF ~c.enabled THEN <<>>
    ELSE [i \in DOMAIN c.sources |-> Allow(c.sources[i], c.port)] \o <<Drop(c.port)>>

(* The positions of the profile's rules in a chain. *)
Own(ch) == {i \in DOMAIN ch : IsManaged(ch[i])}

(* The n-th position of a set, in ascending order. *)
Nth(S, n) == CHOOSE i \in S : Cardinality({j \in S : j <= i}) = n

(* The rules at a set of positions, in chain order. *)
InOrder(ch, S) == [n \in 1..Cardinality(S) |-> ch[Nth(S, n)]]

Managed(ch) == InOrder(ch, Own(ch))
Others(ch) == InOrder(ch, DOMAIN ch \ Own(ch))

(* managed_positions: the list of pairs of a position and a rule, in chain *)
(* order, is a function from positions to rules here.                      *)
ManagedPositions(ch) == [i \in Own(ch) |-> ch[i]]

(* The managed rules below the first count, with their positions. *)
Obsolete(ch, count) == [i \in {j \in Own(ch) : j > count} |-> ch[i]]

Shifted(positioned, count) ==
    [i \in {j + count : j \in DOMAIN positioned} |-> positioned[i - count]]

-----------------------------------------------------------------------------
(* iptables.                                                               *)

InsertCmd(at, rule) == [op |-> "insert", at |-> at, rule |-> rule]
DeleteCmd(at) == [op |-> "delete", at |-> at, rule |-> Other(0)]
DeleteRuleCmd(rule) == [op |-> "delete_rule", at |-> 0, rule |-> rule]

(* iptables -I takes the position after the last rule at most; -D needs a  *)
(* rule at the position, or one with the given content.                    *)
Possible(c) ==
    CASE c.op = "insert" -> c.at <= Len(chain) + 1
      [] c.op = "delete" -> c.at <= Len(chain)
      [] OTHER -> Contains(chain, c.rule)

Executed(c) ==
    CASE c.op = "insert" -> InsertAt(chain, c.at, c.rule)
      [] c.op = "delete" -> RemoveAt(chain, c.at)
      [] OTHER -> RemoveFirst(chain, c.rule)

(* Command lists the processes put together.  insert_at_positions goes     *)
(* through sorted(positioned).                                             *)
InsertPositions(positioned) ==
    [n \in 1..Cardinality(DOMAIN positioned) |->
        InsertCmd(Nth(DOMAIN positioned, n), positioned[Nth(DOMAIN positioned, n)])]

(* Each rule at position 1, the last one first. *)
InsertOnTop(rules) ==
    [i \in DOMAIN rules |-> InsertCmd(1, rules[Len(rules) + 1 - i])]

DeleteTop(count) == [i \in 1..count |-> DeleteCmd(1)]

(* Mutant of DeletePositions: ascending, so later positions have moved. *)
DeletePositionsUp(positioned) ==
    [n \in 1..Cardinality(DOMAIN positioned) |-> DeleteCmd(Nth(DOMAIN positioned, n))]

(* The given positions, from the highest down. *)
DeletePositions(positioned) ==
    [n \in 1..Cardinality(DOMAIN positioned) |->
        DeleteCmd(Nth(DOMAIN positioned, Cardinality(DOMAIN positioned) + 1 - n))]

(* clear() *)
ClearManaged(ch) ==
    LET rules == Managed(ch) IN [i \in DOMAIN rules |-> DeleteRuleCmd(rules[i])]

-----------------------------------------------------------------------------
Count == Len(CandidateRules(new))

Init ==
    /\ chain \in Layouts
    /\ old = Start /\ new = Start
    /\ kind = "edit" /\ step = "idle"
    /\ saved = <<>> /\ phase = "none" /\ queue = <<>>
    /\ before = <<>> /\ original = chain
    /\ foreign = Others(chain)
    /\ faults = 0 /\ clean = TRUE /\ moved = FALSE
    /\ verbatim \in BOOLEAN

(* A process starts: it reads the chain and has commands to issue. *)
Launch(ph, commands) ==
    /\ phase' = ph /\ queue' = commands /\ before' = chain /\ clean' = TRUE
    /\ UNCHANGED <<chain, kind, old, new, verbatim, step, saved, original, foreign, faults, moved>>

(* A process ends and the caller reads its exit status. *)
Exit(outcome) ==
    /\ phase' = "none" /\ queue' = <<>> /\ step' = outcome
    /\ UNCHANGED <<kind, old, new, verbatim, saved, before, original, foreign, moved>>

(* The profile as the last applied transaction left it. *)
Current == IF step = "applied" THEN new ELSE old

(* The caller takes its snapshot and starts over.  A profile that is not   *)
(* enabled in the firewall and one that does not exist look the same here. *)
Begin(k, c) ==
    /\ step \in {"idle", "applied", "restored", "refused", "unproven"} /\ phase = "none"
    /\ Len(chain) <= MaxRules
    /\ c # Current
    /\ k = "create" => c.enabled /\ ~Current.enabled
    /\ k = "delete" => ~c.enabled
    /\ kind' = k /\ new' = c /\ old' = Current
    /\ saved' = ManagedPositions(chain) /\ original' = chain
    /\ step' = "begun" /\ faults' = 0 /\ moved' = FALSE /\ clean' = TRUE
    /\ before' = <<>>
    /\ UNCHANGED <<chain, phase, queue, foreign, verbatim>>

(* An edit that leaves the profile enabled is staged; everything else is a *)
(* direct mutation.                                                        *)
Staged == kind = "edit" /\ new.enabled

-----------------------------------------------------------------------------
(* transition_kharej_firewall_rules                                        *)

StartPrepare ==
    /\ step = "begun" /\ phase = "none" /\ Staged
    /\ Launch("prepare", InsertOnTop(CandidateRules(new)))

(* prepare and finalize know the candidate's rules again when they read    *)
(* them: only if they are printed as they were written.                    *)
Recognised == verbatim \/ CandidateRules(new) = <<>>

(* Mutant of StartFinalize: whatever is on top of the chain. *)
StartFinalizeUnchecked ==
    /\ step = "staged" /\ phase = "none"
    /\ Launch("finalize", DeletePositions(Obsolete(chain, Count)))

(* finalize, unless the candidate is no longer on top of the chain. *)
StartFinalize ==
    /\ step = "staged" /\ phase = "none"
    /\ IF Recognised /\ IsPrefix(CandidateRules(new), chain)
       THEN Launch("finalize", DeletePositions(Obsolete(chain, Count)))
       ELSE /\ Exit("failed") /\ clean' = TRUE /\ UNCHANGED <<chain, faults>>

(* What is left of the old rules goes, and all of them come back, below    *)
(* the candidate.                                                          *)
StageOld == DeletePositions(Obsolete(chain, Count)) \o InsertPositions(Shifted(saved, Count))

(* rollback, unless the first rules are not the profile's own. *)
StartRollback ==
    /\ step \in {"staged", "failed", "applied"} /\ phase = "none" /\ Staged
    /\ IF Count <= Len(chain) /\ \A i \in 1..Count : IsManaged(chain[i])
       THEN Launch("stage_old", StageOld)
       ELSE /\ Exit("unproven") /\ clean' = TRUE /\ UNCHANGED <<chain, faults>>

-----------------------------------------------------------------------------
(* mutate_kharej_firewall_rules                                            *)

(* add for a create, nothing for a delete or an edit that disables. *)
StartMutate ==
    /\ step = "begun" /\ phase = "none" /\ ~Staged
    /\ Launch("apply", ClearManaged(chain) \o InsertOnTop(CandidateRules(new)))

(* restore_kharej_firewall_rules *)
StartRestore ==
    /\ step \in {"begun", "failed", "applied"} /\ phase = "none" /\ ~Staged
    /\ Launch("restore", ClearManaged(chain) \o InsertPositions(saved))

-----------------------------------------------------------------------------
(* The running process.                                                    *)

(* The handler of a failed prepare takes back what it added. *)
UndoPrepare == DeleteTop(Count - Len(queue))

(* The handler of a failed mutation: clear, then the rules as they were. *)
PutBack == ClearManaged(chain) \o InsertPositions(ManagedPositions(before))

(* Mutant of Raise: a failed rollback is not reported. *)
RaiseSwallowed ==
    /\ UNCHANGED chain
    /\ CASE phase = "prepare" ->
              /\ phase' = "undo_prepare" /\ queue' = UndoPrepare
              /\ UNCHANGED <<kind, old, new, verbatim, step, saved, before, original, foreign,
                             moved>>
         [] phase \in {"apply", "restore"} ->
              /\ phase' = IF phase = "apply" THEN "put_back" ELSE "put_back_restore"
              /\ queue' = PutBack
              /\ UNCHANGED <<kind, old, new, verbatim, step, saved, before, original, foreign,
                             moved>>
         [] phase \in {"finalize", "put_back"} -> Exit("failed")
         [] OTHER -> Exit("restored")

(* An exception in the process: a handler of its own, or an exit status.   *)
Raise ==
    /\ UNCHANGED chain
    /\ CASE phase = "prepare" ->
              /\ phase' = "undo_prepare" /\ queue' = UndoPrepare
              /\ UNCHANGED <<kind, old, new, verbatim, step, saved, before, original, foreign,
                             moved>>
         [] phase \in {"apply", "restore"} ->
              /\ phase' = IF phase = "apply" THEN "put_back" ELSE "put_back_restore"
              /\ queue' = PutBack
              /\ UNCHANGED <<kind, old, new, verbatim, step, saved, before, original, foreign,
                             moved>>
         [] phase \in {"finalize", "put_back"} -> Exit("failed")
         [] OTHER -> Exit("unproven")

(* A command or a reading of the chain fails.  The handler of prepare      *)
(* starts clean.                                                           *)
Fail ==
    /\ phase # "none" /\ faults < MaxFaults
    /\ faults' = faults + 1 /\ clean' = (clean /\ phase = "prepare")
    /\ Raise

(* The next command.  One that cannot be executed fails by itself. *)
Execute ==
    /\ queue # <<>>
    /\ IF Possible(Head(queue))
       THEN /\ chain' = Executed(Head(queue)) /\ queue' = Tail(queue)
            /\ UNCHANGED <<kind, old, new, verbatim, step, saved, phase, before, original,
                           foreign, faults, clean, moved>>
       ELSE Raise /\ UNCHANGED <<faults, clean>>

(* What each process checks after its last command. *)
Verified ==
    CASE phase = "prepare" -> Recognised /\ chain = CandidateRules(new) \o before
      [] phase = "undo_prepare" -> chain = before
      [] phase = "finalize" ->
            Recognised /\ ManagedPositions(chain) = ManagedPositions(CandidateRules(new))
      [] phase = "stage_old" ->
            /\ SubSeq(chain, 1, Count) = SubSeq(before, 1, Count)
            /\ Obsolete(chain, Count) = Shifted(saved, Count)
      [] phase = "drop_candidate" -> ManagedPositions(chain) = saved
      [] phase = "apply" -> Managed(chain) = CandidateRules(new)
      [] phase = "restore" -> ManagedPositions(chain) = saved
      [] OTHER -> TRUE

(* The process that passed its check: it exits, or goes on to its second   *)
(* half.                                                                   *)
Pass ==
    /\ UNCHANGED <<chain, faults>>
    /\ CASE phase = "prepare" -> Exit("staged") /\ UNCHANGED clean
         [] phase = "undo_prepare" -> Exit("refused") /\ UNCHANGED clean
         [] phase \in {"finalize", "apply"} -> Exit("applied") /\ UNCHANGED clean
         [] phase = "stage_old" ->
              /\ phase' = "drop_candidate" /\ queue' = DeleteTop(Count)
              /\ UNCHANGED <<kind, old, new, verbatim, step, saved, before, original, foreign,
                             clean, moved>>
         [] phase \in {"drop_candidate", "restore"} -> Exit("restored") /\ UNCHANGED clean
         [] phase = "put_back" -> Exit("failed") /\ UNCHANGED clean
         [] OTHER -> Exit("unproven") /\ UNCHANGED clean

Verify ==
    /\ phase # "none" /\ queue = <<>>
    /\ IF Verified THEN Pass ELSE Raise /\ UNCHANGED <<faults, clean>>

(* Other programs on the host. *)
Foreign ==
    /\ Len(foreign) < MaxForeign
    /\ LET rule == Other(Len(foreign) + 1) IN
       \/ /\ chain' = Append(chain, rule) /\ foreign' = Append(foreign, rule)
          /\ clean' = FALSE /\ UNCHANGED moved
       \/ /\ phase = "none"
          /\ chain' = <<rule>> \o chain /\ foreign' = <<rule>> \o foreign
          /\ moved' = TRUE /\ UNCHANGED clean
    /\ UNCHANGED <<kind, old, new, verbatim, step, saved, phase, queue, before, original, faults>>

Next ==
    \/ \E k \in {"edit", "create", "delete"}, c \in Configs : Begin(k, c)
    \/ StartPrepare \/ StartFinalize \/ StartRollback
    \/ StartMutate \/ StartRestore
    \/ Execute \/ Fail \/ Verify
    \/ Foreign

Spec == Init /\ [][Next]_vars

-----------------------------------------------------------------------------
(* Properties.                                                             *)

Steps == {"idle", "begun", "staged", "applied", "failed", "restored", "refused", "unproven"}
Phases == {"none", "prepare", "undo_prepare", "finalize", "stage_old",
           "drop_candidate", "apply", "restore", "put_back", "put_back_restore"}

(* Every rule has the shape the manager or another program gives it, and   *)
(* the caller and its process are at one of their steps.                   *)
TypeOK ==
    /\ chain \in Seq(Rules)
    /\ kind \in {"edit", "create", "delete"} /\ {old, new} \subseteq Configs
    /\ step \in Steps /\ phase \in Phases
    /\ DOMAIN saved \subseteq DOMAIN original
    /\ \A i \in DOMAIN queue : queue[i].op \in {"insert", "delete", "delete_rule"}
    /\ faults \in 0..MaxFaults /\ {clean, moved, verbatim} \subseteq BOOLEAN

(* The first managed rule that matches decides; rules of other programs    *)
(* are about other ports, and the policy accepts.                          *)
Matching(ch, s, p) ==
    {i \in DOMAIN ch : ch[i].port = p /\ (ch[i].tag = "drop" \/ (ch[i].tag = "allow" /\ ch[i].src = s))}

Accepts(ch, s, p) ==
    LET found == Matching(ch, s, p) IN found = {} \/ ch[Min(found)].tag = "allow"

(* The port the service may be listening on at this point of a staged      *)
(* edit: the old one until the caller restarts it between prepare and      *)
(* finalize, the new one afterwards, and the old one again when everything *)
(* was taken back.  It is stopped before a rollback, except when the env   *)
(* file could not be written: then it still serves the old port, which     *)
(* matters only if the ports differ (see ProfileTransaction).              *)
ServedPorts ==
    CASE phase \in {"prepare", "undo_prepare", "drop_candidate"} -> {old.port}
      [] phase \in {"finalize", "stage_old"} -> {new.port}
      [] phase = "none" /\ step \in {"idle", "begun", "refused", "restored"} -> {old.port}
      [] phase = "none" /\ step = "staged" -> {old.port, new.port}
      [] phase = "none" /\ step \in {"applied", "failed"} -> {new.port}
      [] OTHER -> {old.port} \cap {new.port}

(* In an edit of a profile that is protected before and after, the port    *)
(* that is being served drops a source that neither list allows, at every  *)
(* instant, whichever iptables command fails (transition_kharej_firewall_  *)
(* rules puts the candidate on top before it takes the old rules away).    *)
NeverOpen ==
    (Staged /\ old.enabled /\ ~Accepts(original, Stranger, old.port)) =>
        \A p \in ServedPorts : ~Accepts(chain, Stranger, p)

(* Rules of other programs and of other profiles are neither deleted nor   *)
(* reordered by deletions and insertions by position.                      *)
ForeignKept == Others(chain) = foreign

(* A transaction that reports success leaves exactly the profile's rules,  *)
(* allowed sources accepted and others dropped, even if earlier failures   *)
(* left stray managed rules in the chain.                                  *)
AppliedExact ==
    (step = "applied" /\ phase = "none") =>
        /\ Managed(chain) = CandidateRules(new)
        /\ new.enabled =>
              /\ ~Accepts(chain, Stranger, new.port)
              /\ \A i \in DOMAIN new.sources : Accepts(chain, new.sources[i], new.port)

(* A transaction that reports that nothing changed or that everything was  *)
(* restored leaves the chain it found, every rule at its place, with       *)
(* whatever was appended meanwhile; only a rule inserted above meanwhile   *)
(* may shift the others.                                                   *)
RestoredExact ==
    (step \in {"refused", "restored"} /\ phase = "none" /\ ~moved) =>
        /\ IsPrefix(original, chain)
        /\ Managed(SubSeq(chain, Len(original) + 1, Len(chain))) = <<>>

(* The manager gives up only for a reason.  A staged edit is refused only  *)
(* after a failure, after a change of the chain under prepare, or because  *)
(* iptables prints the new rules in words of its own; a process that met   *)
(* neither failure nor change never fails otherwise, and an undo succeeds  *)
(* from whatever intermediate chain the failure left.                      *)
GivesUpForAReason ==
    phase = "none" =>
        /\ step = "refused" => faults > 0 \/ ~clean \/ ~verbatim
        /\ step \in {"failed", "unproven"} => ~clean \/ moved

(* What a transaction reports is the state of the chain, and a failure is  *)
(* reported only if there was one (transition_, mutate_ and restore_kharej *)
(* _firewall_rules).                                                       *)
ReportExact == TypeOK /\ AppliedExact /\ RestoredExact /\ GivesUpForAReason

=============================================================================
