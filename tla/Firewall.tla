-------------------------------- MODULE Firewall --------------------------------
(***************************************************************************)
(* The agent's firewall enforcer (services/agent/src/firewall.rs) against  *)
(* the kernel's nftables chain it edits one nft command at a time, with    *)
(* the state file it writes (persistence.rs) and the process it lives in   *)
(* (run.rs).                                                               *)
(*                                                                         *)
(* Policies arrive one at a time (control_plane_loop is one task).  A sync *)
(* is cut short when the certificate is renewed: control_plane_loop drops  *)
(* the connect_to_connector future, handler included.  The process is     *)
(* stopped without clean-up by SIGTERM or a crash; only Ctrl-C removes the *)
(* table.                                                                  *)
(***************************************************************************)
EXTENDS Naturals, Sequences, FiniteSets

CONSTANTS
  Ports,       \* port numbers
  Protocols,   \* protocols as nft sees them (lower case)
  Policies,    \* protected_ports lists a connector may send
  NoEntry,     \* a port not in the enforcer's map
  NoFile,      \* firewall_state.json does not exist
  Torn,        \* firewall_state.json cut short while it was written
  MaxHandle,   \* bound: rules added to one incarnation of the table
  MaxFaults    \* bound: failed commands, cut syncs and unclean stops

PortRules == [port : Ports, protocol : Protocols]

\* protect_port adds these rules, in this order.
Kinds == <<"lo", "tun", "drop">>

Rules == [h : 1..MaxHandle, port : Ports, protocol : Protocols,
          kind : {"lo", "tun", "drop"}]

Entries == [protocol : Protocols, handles : Seq(1..MaxHandle)]

ASSUME ConstantsAssumption ==
  /\ Policies \subseteq Seq(PortRules)
  /\ MaxHandle \in Nat /\ MaxFaults \in Nat
  /\ NoEntry \notin Entries /\ \A S \in SUBSET PortRules : NoFile # S

VARIABLES
  kernel,     \* rules of chain input_filter; a rule's position is its handle
  nextHandle, \* the handle nft gives to the next rule
  protected,  \* FirewallEnforcer.protected
  file,       \* firewall_state.json
  pc,         \* where the handler is
  restoring,  \* this sync is restore_from_state: nothing is saved after it
  stale,      \* ports sync_policy still has to unprotect
  queue,      \* rules sync_policy still has to look at
  handles,    \* protect_port: the handles it has so far
  doomed,     \* delete_rules: the handles still to delete
  after,      \* where delete_rules returns to
  wanted,     \* what the last sync was asked for (history)
  settled,    \* nothing has gone wrong since the last sync began (history)
  leaked,     \* the handle of some rule was lost (history)
  faults      \* faults so far (history)

work == <<restoring, stale, queue, handles, doomed, after>>
history == <<wanted, settled, leaked, faults>>
vars == <<kernel, nextHandle, protected, file, pc, work, history>>

PC == {"down", "idle", "remove", "add", "rule", "delete", "save"}

TypeOK ==
  /\ kernel \in SUBSET Rules
  /\ nextHandle \in 1..(MaxHandle + 1)
  /\ protected \in [Ports -> Entries \cup {NoEntry}]
  /\ file \in (SUBSET PortRules) \cup {NoFile, Torn}
  /\ pc \in PC
  /\ restoring \in BOOLEAN
  /\ stale \in SUBSET Ports
  /\ queue \in Seq(PortRules)
  /\ handles \in Seq(1..MaxHandle)
  /\ doomed \in Seq(1..MaxHandle)
  /\ after \in {"remove", "add"}
  /\ wanted \in Seq(PortRules)
  /\ settled \in BOOLEAN
  /\ leaked \in BOOLEAN
  /\ faults \in 0..MaxFaults

Nothing == [p \in Ports |-> NoEntry]

Init ==
  /\ kernel = {} /\ nextHandle = 1
  /\ protected = Nothing
  /\ file = NoFile
  /\ pc = "down"
  /\ restoring = FALSE /\ stale = {} /\ queue = <<>>
  /\ handles = <<>> /\ doomed = <<>> /\ after = "remove"
  /\ wanted = <<>> /\ settled = TRUE /\ leaked = FALSE /\ faults = 0

\* Everything the handler keeps on its stack is gone.
Forget ==
  /\ restoring' = FALSE /\ stale' = {} /\ queue' = <<>>
  /\ handles' = <<>> /\ doomed' = <<>> /\ after' = "remove"

Fault ==
  /\ faults < MaxFaults
  /\ faults' = faults + 1
  /\ settled' = FALSE
  /\ UNCHANGED wanted

PortsOf(rules) == {rules[i].port : i \in 1..Len(rules)}

Held == {p \in Ports : protected[p] # NoEntry}

\* get_state: what is written to the state file.
State == {[port |-> p, protocol |-> protected[p].protocol] : p \in Held}

-----------------------------------------------------------------------------
(* sync_policy.                                                            *)

\* Mutant: nothing is ever unprotected.
NoStalePorts(desired) == {}

\* Ports in the map that are no longer asked for.
StalePorts(desired) == Held \ PortsOf(desired)

\* The lock is taken and the stale ports are collected.
Begin(desired, restore) ==
  /\ stale' = StalePorts(desired)
  /\ queue' = desired
  /\ restoring' = restore
  /\ pc' = "remove"
  /\ wanted' = desired /\ settled' = TRUE
  /\ UNCHANGED <<kernel, nextHandle, protected, file, handles, doomed, after, leaked, faults>>

\* handle_firewall_policy on a "sync" from the connector.
ReceivePolicy ==
  /\ pc = "idle"
  /\ \E desired \in Policies : Begin(desired, FALSE)

\* Mutant: the entry stays in the map while its rules are deleted.
RemoveStaleLater(p) ==
  /\ pc = "remove"
  /\ p \in stale
  /\ stale' = stale \ {p}
  /\ doomed' = protected[p].handles
  /\ after' = "remove"
  /\ pc' = "delete"
  /\ UNCHANGED <<kernel, nextHandle, protected, file, restoring, queue, handles, history>>

\* The entry leaves the map before its rules are deleted.
RemoveStale(p) ==
  /\ pc = "remove"
  /\ p \in stale
  /\ stale' = stale \ {p}
  /\ doomed' = protected[p].handles
  /\ protected' = [protected EXCEPT ![p] = NoEntry]
  /\ after' = "remove"
  /\ pc' = "delete"
  /\ UNCHANGED <<kernel, nextHandle, file, restoring, queue, handles, history>>

StaleDone ==
  /\ pc = "remove" /\ stale = {}
  /\ pc' = "add"
  /\ UNCHANGED <<kernel, nextHandle, protected, file, work, history>>

\* A port already in the map is passed over, whatever its protocol.
SkipHeld ==
  /\ pc = "add" /\ queue # <<>>
  /\ protected[Head(queue).port] # NoEntry
  /\ queue' = Tail(queue)
  /\ UNCHANGED <<kernel, nextHandle, protected, file, pc, restoring, stale, handles,
                 doomed, after, history>>

Protect ==
  /\ pc = "add" /\ queue # <<>>
  /\ protected[Head(queue).port] = NoEntry
  /\ handles' = <<>>
  /\ pc' = "rule"
  /\ UNCHANGED <<kernel, nextHandle, protected, file, restoring, stale, queue, doomed,
                 after, history>>

\* The rule protect_port is adding.
NewRule ==
  [h |-> nextHandle, port |-> Head(queue).port, protocol |-> Head(queue).protocol,
   kind |-> Kinds[Len(handles) + 1]]

\* One "nft -ae add rule": the chain gets the rule and nft a new handle.
NftAdd ==
  /\ nextHandle <= MaxHandle
  /\ kernel' = kernel \cup {NewRule}
  /\ nextHandle' = nextHandle + 1

\* A rule of protect_port is added; after the third the entry goes into the map.
AddRule ==
  /\ pc = "rule"
  /\ NftAdd
  /\ IF Len(handles) = 2
     THEN /\ handles' = <<>>
          /\ protected' = [protected EXCEPT ![Head(queue).port] =
               [protocol |-> Head(queue).protocol,
                handles |-> Append(handles, nextHandle)]]
          /\ queue' = Tail(queue)
          /\ pc' = "add"
     ELSE /\ handles' = Append(handles, nextHandle)
          /\ UNCHANGED <<protected, queue, pc>>
  /\ UNCHANGED <<file, restoring, stale, doomed, after, history>>

\* Mutant: the rules already added are not rolled back.
NoRollback == <<>>

\* What protect_port deletes before it reports the error.
Rollback == handles

\* add_rule fails, because the command does or because no handle can be read in
\* its output (the rule is then in the chain): the rules added so far are
\* rolled back and the port is skipped.
AddFails ==
  /\ pc = "rule"
  /\ Fault
  /\ \/ UNCHANGED <<kernel, nextHandle, leaked>>
     \/ NftAdd /\ leaked' = TRUE
  /\ doomed' = Rollback
  /\ handles' = <<>>
  /\ queue' = Tail(queue)
  /\ after' = "add"
  /\ pc' = "delete"
  /\ UNCHANGED <<protected, file, restoring, stale>>

\* One "nft delete rule ... handle".
NftDelete == kernel' = {r \in kernel : r.h # Head(doomed)}

\* delete_rules: the handles in the order of the list.
DeleteRule ==
  /\ pc = "delete" /\ doomed # <<>>
  /\ NftDelete
  /\ doomed' = Tail(doomed)
  /\ UNCHANGED <<nextHandle, protected, file, pc, restoring, stale, queue, handles,
                 after, history>>

\* A failure is logged and the next handle is tried.
DeleteFails ==
  /\ pc = "delete" /\ doomed # <<>>
  /\ Fault
  /\ leaked' = TRUE
  /\ doomed' = Tail(doomed)
  /\ UNCHANGED <<kernel, nextHandle, protected, file, pc, restoring, stale, queue,
                 handles, after>>

DeleteDone ==
  /\ pc = "delete" /\ doomed = <<>>
  /\ pc' = after
  /\ UNCHANGED <<kernel, nextHandle, protected, file, work, history>>

\* sync_policy returns; after a sync from the connector the state is saved.
SyncDone ==
  /\ pc = "add" /\ queue = <<>>
  /\ pc' = IF restoring THEN "idle" ELSE "save"
  /\ Forget
  /\ UNCHANGED <<kernel, nextHandle, protected, file, history>>

\* Mutant: what the file had is kept.
SaveMerged ==
  /\ pc = "save"
  /\ pc' = "idle"
  /\ file' = State \cup IF file \in {NoFile, Torn} THEN {} ELSE file
  /\ UNCHANGED <<kernel, nextHandle, protected, work, history>>

\* save_firewall_state.
SaveState ==
  /\ pc = "save"
  /\ pc' = "idle"
  /\ file' = State
  /\ UNCHANGED <<kernel, nextHandle, protected, work, history>>

\* No state directory, or the write fails, before or after it truncates the file.
SaveFails ==
  /\ pc = "save"
  /\ Fault
  /\ pc' = "idle"
  /\ file' \in {file, Torn}
  /\ UNCHANGED <<kernel, nextHandle, protected, work, leaked>>

-----------------------------------------------------------------------------
(* The process.                                                            *)

\* run: initialize, then restore_from_state, which does nothing for a missing
\* or empty file.  The file lists the entries of a hash map, in any order.
Start ==
  /\ pc = "down"
  /\ \/ /\ file \in {NoFile, {}}
        /\ pc' = "idle"
        /\ UNCHANGED <<kernel, nextHandle, protected, file, work, history>>
     \/ /\ file \notin {NoFile, Torn, {}}
        /\ \E n \in 0..MaxHandle :
             /\ n = Cardinality(file)
             /\ \E saved \in [1..n -> file] :
                  /\ {saved[i] : i \in 1..n} = file
                  /\ Begin(saved, TRUE)

\* The file cannot be parsed: the agent runs with nothing restored.
StartUnrestored ==
  /\ pc = "down"
  /\ file = Torn
  /\ pc' = "idle"
  /\ UNCHANGED <<kernel, nextHandle, protected, file, work, history>>

\* The nft child outlives the task that waits for it: a command that was
\* running when the task went may or may not take effect.
InFlight ==
  \/ UNCHANGED <<kernel, nextHandle>>
  \/ pc = "rule" /\ NftAdd
  \/ pc = "delete" /\ doomed # <<>> /\ NftDelete /\ UNCHANGED nextHandle

\* The certificate is renewed: control_plane_loop drops connect_to_connector
\* and with it a handler that is waiting for nft or for the lock.  The map
\* stays as it is.
Cut ==
  /\ pc \notin {"down", "idle"} /\ ~restoring
  /\ Fault
  /\ InFlight
  /\ leaked' = (leaked \/ handles # <<>> \/ doomed # <<>> \/ kernel' # kernel)
  /\ pc' = "idle"
  /\ Forget
  /\ UNCHANGED <<protected, file>>

\* SIGTERM (which run does not catch), a panic or a kill: the rules stay in the
\* kernel and the map that knows their handles is gone.  fs::write truncates
\* the file before it writes it.
Stop ==
  /\ pc # "down"
  /\ Fault
  /\ InFlight
  /\ leaked' = (kernel' # {})
  /\ pc' = "down"
  /\ protected' = Nothing
  /\ Forget
  /\ \/ UNCHANGED file
     \/ pc = "save" /\ file' = Torn

\* The table is gone, and with it its rules and its handle counter.
NoTable == kernel' = {} /\ nextHandle' = 1 /\ leaked' = FALSE

\* Ctrl-C: cleanup_all deletes the table and the process ends.
CtrlC ==
  /\ pc # "down" /\ ~restoring
  /\ NoTable
  /\ pc' = "down"
  /\ protected' = Nothing
  /\ Forget
  /\ settled' = FALSE
  /\ UNCHANGED <<file, wanted, faults>>

\* The machine reboots: nftables rules are not kept.
Reboot ==
  /\ NoTable
  /\ pc' = "down"
  /\ protected' = Nothing
  /\ Forget
  /\ settled' = FALSE
  /\ UNCHANGED <<file, wanted, faults>>

Sync ==
  \/ \E p \in Ports : RemoveStale(p)
  \/ StaleDone \/ SkipHeld \/ Protect \/ AddRule \/ AddFails
  \/ DeleteRule \/ DeleteFails \/ DeleteDone
  \/ SyncDone \/ SaveState \/ SaveFails

Next == ReceivePolicy \/ Sync \/ Start \/ StartUnrestored \/ Cut \/ Stop \/ CtrlC \/ Reboot

Spec == Init /\ [][Next]_vars

-----------------------------------------------------------------------------
(* Properties.                                                             *)

\* What nft makes of a packet that comes in from lo, the tunnel or elsewhere: the
\* first rule that matches it decides, and the chain's policy is accept.
Passes(from, p, protocol) ==
  \A d \in kernel :
    d.port = p /\ d.protocol = protocol /\ d.kind = "drop" =>
      \E a \in kernel : /\ a.port = p /\ a.protocol = protocol
                        /\ a.kind = from /\ a.h < d.h

\* Whatever fails, is cut short or is restarted, the map never lies: a port in it
\* is closed to the network; and as long as no rule's handle was lost it is open
\* to loopback and to the tunnel, also between the commands of a sync that takes
\* rules away and puts them back.  (sync_policy inserts an entry after the last
\* rule is in and removes it before the first is deleted; no rollback or late
\* delete hits another port's rules.)
PortShielded ==
  \A p \in Held :
    LET open(from) == Passes(from, p, protected[p].protocol) IN
      /\ ~open("net")
      /\ ~leaked => open("lo") /\ open("tun")

\* todo.md: "From the agent machine itself, try ssh localhost - should work (lo
\* accepted)", for a protected port.  (A drop that delete_rules could not delete,
\* or whose handle add_rule could not read, comes before the accepts of the next
\* protect_port.)
LoopbackOpen == \A p \in Held : Passes("lo", p, protected[p].protocol)

\* A sync that runs to its end without an error brings the map to the ports it
\* was asked for, whatever earlier syncs left behind: one that was cut,
\* half-failed, or died with the process.
Converged == (pc = "idle" /\ settled) => Held = PortsOf(wanted)

\* The state file then lists the map: what a later start restores is what is
\* enforced now, and restoring leaves the file and the map equal.
FileAgrees ==
  (pc = "idle" /\ settled) => State = IF file = NoFile THEN {} ELSE file

\* No rule stays in the chain that the map does not know of, and so cannot
\* remove, unless a delete failed, a handle could not be read, or a task with
\* handles on its stack went away.  A port whose protection fails half-way is
\* rolled back completely.
Accounted ==
  (pc = "idle" /\ ~leaked) =>
    \A r \in kernel : /\ protected[r.port] # NoEntry
                      /\ \E i \in 1..3 : protected[r.port].handles[i] = r.h
=============================================================================
