------------------------------ MODULE JsonStorage ------------------------------
(***************************************************************************)
(* JsonStorage: devices, credentials and the client identity in memory,    *)
(* and the file they are saved to as a whole after every change.  Saves    *)
(* have no queue: each takes a snapshot, truncates the file and fills it,  *)
(* while others may do the same.  The process may stop at any point and    *)
(* start again from the file.                                              *)
(*                                                                         *)
(* A device has one credential; a version stands for what it holds.  The   *)
(* file is whole, partial (truncated, or mixed by two writers) or absent.  *)
(***************************************************************************)
EXTENDS Naturals, FiniteSets

CONSTANTS Devices,       \* identifiers of devices
          MaxVersion,    \* bound on the versions of a credential
          MaxWrites,     \* bound on the saves under way at once
          MaxCrashes     \* bound on the stops of the process

ASSUME BoundAssumption == /\ MaxVersion \in Nat /\ MaxWrites \in Nat /\ MaxCrashes \in Nat

VARIABLES
  phase,      \* how far the constructor's initialize() is
  data,       \* this.data
  writes,     \* the saves under way
  file,       \* what is on disk
  crashes,    \* stops so far
  overlap,    \* whether the saves under way met, or meet the load
  durable,    \* what the last undisturbed save wrote
  suspect     \* whether the file was disturbed since

vars == <<phase, data, writes, file, crashes, overlap, durable, suspect>>
ghostVars == <<durable, suspect>>

Slots == 1..MaxWrites
Identities == 1..(MaxCrashes + 1)
Data == [devices : SUBSET Devices, credentials : [Devices -> 0..MaxVersion],
         identity : Identities \cup {0}]
Empty == [devices |-> {}, credentials |-> [d \in Devices |-> 0], identity |-> 0]
Idle == [stage |-> "idle", snapshot |-> Empty, init |-> FALSE]
Absent == [state |-> "absent", holds |-> Empty]
Partial == [state |-> "partial", holds |-> Empty]
Whole(d) == [state |-> "whole", holds |-> d]

TypeOK == /\ phase \in {"down", "first", "load", "ensure", "identity", "ready", "broken"}
          /\ data \in Data
          /\ writes \in [Slots -> [stage : {"idle", "started", "open"}, snapshot : Data,
                                   init : BOOLEAN]]
          /\ file \in [state : {"absent", "partial", "whole"}, holds : Data]
          /\ crashes \in 0..MaxCrashes
          /\ overlap \in BOOLEAN
          /\ durable \in Data
          /\ suspect \in BOOLEAN

Init == /\ phase = "down"
        /\ data = Empty
        /\ writes = [w \in Slots |-> Idle]
        /\ file = Absent
        /\ crashes = 0
        /\ overlap = FALSE
        /\ durable = Empty
        /\ suspect = FALSE

Busy == {w \in Slots : writes[w].stage # "idle"}

-----------------------------------------------------------------------------
(* Saving *)

\* saveData(): a snapshot of d is on its way to the file.
saveData(d, init) ==
  \E w \in Slots \ Busy :
    /\ writes' = [writes EXCEPT ![w] = [stage |-> "started", snapshot |-> d, init |-> init]]
    /\ overlap' = (Busy # {} \/ phase = "load")
    /\ suspect' = (suspect \/ overlap')
    /\ UNCHANGED durable

Truncate(w) == /\ writes[w].stage = "started"
               /\ writes' = [writes EXCEPT ![w].stage = "open"]
               /\ file' = Partial
               /\ UNCHANGED <<phase, data, crashes, overlap, ghostVars>>

resumed_NoIdentity(w) ==
  IF ~writes[w].init THEN phase ELSE IF phase = "first" THEN "first" ELSE "ready"

\* What initialize() does once its save is done: after the empty file of a first
\* start it still needs an identity.
resumed(w) == IF ~writes[w].init THEN phase
              ELSE IF phase = "first" THEN "ensure" ELSE "ready"

\* The save is done; two writers in the file at once may leave a mixture.
Fill(w) == /\ writes[w].stage = "open"
           /\ file' \in {Whole(writes[w].snapshot)} \cup
                        (IF \E v \in Busy \ {w} : writes[v].stage = "open"
                         THEN {Partial} ELSE {})
           /\ writes' = [writes EXCEPT ![w] = Idle]
           /\ phase' = resumed(w)
           /\ IF overlap THEN UNCHANGED ghostVars
              ELSE durable' = writes[w].snapshot /\ suspect' = FALSE
           /\ UNCHANGED <<data, crashes, overlap>>

\* The save fails, and whoever called it; initialize() fails for good.
WriteFails(w) == /\ writes[w].stage # "idle"
                 /\ writes' = [writes EXCEPT ![w] = Idle]
                 /\ phase' = IF writes[w].init THEN "broken" ELSE phase
                 /\ suspect' = TRUE
                 /\ UNCHANGED <<data, file, crashes, overlap, durable>>

-----------------------------------------------------------------------------
(* Starting and stopping *)

\* The constructor: without a file an empty one is saved first.
Start == /\ phase = "down"
         /\ data' = Empty
         /\ IF file.state = "absent"
            THEN phase' = "first" /\ saveData(Empty, TRUE)
            ELSE phase' = "load" /\ UNCHANGED <<writes, overlap, ghostVars>>
         /\ UNCHANGED <<file, crashes>>

LoadData_DropsCredentials ==
  /\ phase = "load"
  /\ data' = IF file.state = "whole"
             THEN [file.holds EXCEPT !.credentials = Empty.credentials] ELSE data
  /\ phase' = IF data'.identity = 0 THEN "ensure" ELSE "ready"
  /\ UNCHANGED <<writes, file, crashes, overlap, ghostVars>>

\* The file is read; what does not parse is ignored and memory stays empty.
LoadData == /\ phase = "load"
            /\ data' = IF file.state = "whole" THEN file.holds ELSE data
            /\ phase' = IF data'.identity = 0 THEN "ensure" ELSE "ready"
            /\ UNCHANGED <<writes, file, crashes, overlap, ghostVars>>

\* Without an identity the process makes one and saves it.
EnsureClientDeviceInfo ==
  /\ phase = "ensure"
  /\ data' = [data EXCEPT !.identity = crashes + 1]
  /\ saveData(data', TRUE)
  /\ phase' = "identity"
  /\ UNCHANGED <<file, crashes>>

\* The process stops: saves under way are cut off where they are.
Crash == /\ phase # "down"
         /\ crashes < MaxCrashes
         /\ crashes' = crashes + 1
         /\ phase' = "down"
         /\ data' = Empty
         /\ writes' = [w \in Slots |-> Idle]
         /\ suspect' = (suspect \/ \E w \in Slots : writes[w].stage = "open")
         /\ overlap' = FALSE
         /\ UNCHANGED <<file, durable>>

-----------------------------------------------------------------------------
(* Operations: they wait for initialize(), change memory and save it *)

Change_NotSaved(d) == /\ phase = "ready"
                      /\ data' = d
                      /\ UNCHANGED <<phase, file, crashes, writes, overlap, ghostVars>>

Change(d) == /\ phase = "ready"
             /\ data' = d
             /\ saveData(d, FALSE)
             /\ UNCHANGED <<phase, file, crashes>>

SaveDevice(d) == Change([data EXCEPT !.devices = @ \cup {d}])

\* The credentials of the device go with it.
RemoveDevice(d) == Change([data EXCEPT !.devices = @ \ {d}, !.credentials[d] = 0])

SaveCredentials(d, v) == Change([data EXCEPT !.credentials[d] = v])

\* Another lastUsed of the credential that is there.
UpdateLastUsed(d, v) == /\ data.credentials[d] # 0
                        /\ Change([data EXCEPT !.credentials[d] = v])

RemoveCredentials(d) == Change([data EXCEPT !.credentials[d] = 0])

SaveClientDeviceInfo(i) == Change([data EXCEPT !.identity = i])

\* clear() and import() replace everything, the identity too.
Clear == Change(Empty)

Import(d) == Change(d)

\* flush() saves what memory holds without waiting for initialize().
Flush == /\ phase # "down"
         /\ saveData(data, FALSE)
         /\ UNCHANGED <<phase, data, file, crashes>>

Operate == \/ \E d \in Devices : \/ SaveDevice(d) \/ RemoveDevice(d)
                                 \/ RemoveCredentials(d)
                                 \/ \E v \in 1..MaxVersion : \/ SaveCredentials(d, v)
                                                             \/ UpdateLastUsed(d, v)
           \/ \E i \in Identities : SaveClientDeviceInfo(i)
           \/ Clear \/ \E d \in Data : Import(d)

-----------------------------------------------------------------------------
Next == \/ Start \/ LoadData \/ EnsureClientDeviceInfo \/ Crash
        \/ \E w \in Slots : Truncate(w) \/ Fill(w) \/ WriteFails(w)
        \/ Operate \/ Flush

Spec == Init /\ [][Next]_vars

\* Reads and writes of files come to an end; the identity waits for no other save,
\* only for one of the model's slots.
FairSpec == /\ Spec
            /\ WF_vars(LoadData)
            /\ SF_vars(EnsureClientDeviceInfo)
            /\ \A w \in Slots : WF_vars(Truncate(w)) /\ WF_vars(Fill(w))

-----------------------------------------------------------------------------
(* Properties *)

\* With no save under way, and the last of them undisturbed, the file is what
\* memory holds (saveData, ensureInitialized).
FileIsMemory ==
  phase = "ready" /\ Busy = {} /\ ~suspect => file = Whole(data)

\* Wherever the process stopped, unless in a save that had opened the file, it
\* starts with what the last undisturbed save wrote (loadData).
RestoresLast ==
  [][ phase = "load" /\ phase' \in {"ensure", "ready"} /\ ~suspect => data' = durable ]_vars

\* initialize() ends, so that the operations that wait for it do too.
InitializeEnds == phase \in {"first", "load", "ensure", "identity"}
                    ~> phase \in {"ready", "broken", "down"}

\* "Client device info not initialized - this should never happen".
IdentityExists == phase = "ready" => data.identity # 0
=============================================================================
