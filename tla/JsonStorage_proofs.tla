-------------------------- MODULE JsonStorage_proofs --------------------------
(***************************************************************************)
(* Proofs about JsonStorage, for any devices, any number of saves at once  *)
(* and of stops of the process.                                            *)
(***************************************************************************)
EXTENDS JsonStorage, TLAPS

Write == [stage : {"idle", "started", "open"}, snapshot : Data, init : BOOLEAN]
Phases == {"down", "first", "load", "ensure", "identity", "ready", "broken"}

-----------------------------------------------------------------------------
(* Types *)

LEMMA EmptyIsData == Empty \in Data
<1>1. 0 \in 0..MaxVersion
  BY BoundAssumption
<1> QED  BY <1>1 DEF Empty, Data

LEMMA IdleIsWrite == Idle \in Write
BY EmptyIsData DEF Idle, Write

\* What an operation leaves in memory is data again.
LEMMA ChangesAreData ==
  ASSUME data \in Data, NEW d \in Devices
  PROVE  /\ [data EXCEPT !.devices = @ \cup {d}] \in Data
         /\ [data EXCEPT !.devices = @ \ {d}, !.credentials[d] = 0] \in Data
         /\ \A v \in 0..MaxVersion : [data EXCEPT !.credentials[d] = v] \in Data
<1>1. 0 \in 0..MaxVersion
  BY BoundAssumption
<1> QED  BY <1>1 DEF Data

LEMMA IdentityIsData ==
  ASSUME data \in Data, NEW i \in Identities
  PROVE  [data EXCEPT !.identity = i] \in Data
BY DEF Data

\* Every operation is a change of memory and a save of it.
LEMMA OperationsChange ==
  ASSUME data \in Data, Operate PROVE \E d \in Data : Change(d)
<1>1. 0 \in 0..MaxVersion /\ \A v \in 1..MaxVersion : v \in 0..MaxVersion
  BY BoundAssumption
<1>2. ASSUME NEW d \in Devices, SaveDevice(d) \/ RemoveDevice(d) \/ RemoveCredentials(d)
      PROVE \E e \in Data : Change(e)
  BY <1>1, <1>2, ChangesAreData DEF SaveDevice, RemoveDevice, RemoveCredentials
<1>3. ASSUME NEW d \in Devices, NEW v \in 1..MaxVersion,
             SaveCredentials(d, v) \/ UpdateLastUsed(d, v)
      PROVE \E e \in Data : Change(e)
  BY <1>1, <1>3, ChangesAreData DEF SaveCredentials, UpdateLastUsed
<1>4. ASSUME NEW i \in Identities, SaveClientDeviceInfo(i) PROVE \E e \in Data : Change(e)
  BY <1>4, IdentityIsData DEF SaveClientDeviceInfo
<1>5. CASE Clear
  BY <1>5, EmptyIsData DEF Clear
<1>6. ASSUME NEW e \in Data, Import(e) PROVE \E d \in Data : Change(d)
  BY <1>6 DEF Import
<1> QED  BY <1>2, <1>3, <1>4, <1>5, <1>6 DEF Operate

\* What the start of a save changes.
Begun(w, d, init) ==
  /\ writes' = [writes EXCEPT ![w] = [stage |-> "started", snapshot |-> d, init |-> init]]
  /\ overlap' = (Busy # {} \/ phase = "load")
  /\ suspect' = (suspect \/ overlap')
  /\ UNCHANGED durable

LEMMA SaveBegins ==
  ASSUME NEW d, NEW init, saveData(d, init)
  PROVE  \E w \in Slots \ Busy : Begun(w, d, init)
BY DEF saveData, Begun

LEMMA BegunTypes ==
  ASSUME TypeOK, NEW w \in Slots, NEW d \in Data, NEW init \in BOOLEAN, Begun(w, d, init)
  PROVE  /\ writes' \in [Slots -> Write]
         /\ overlap' \in BOOLEAN /\ suspect' \in BOOLEAN /\ durable' \in Data
<1>1. [stage |-> "started", snapshot |-> d, init |-> init] \in Write
  BY DEF Write
<1>2. writes' \in [Slots -> Write]
  BY <1>1 DEF Begun, TypeOK, Write
<1>3. overlap' \in BOOLEAN /\ suspect' \in BOOLEAN
  BY DEF Begun
<1> QED  BY <1>2, <1>3 DEF Begun, TypeOK

FileTypes(f) == f \in [state : {"absent", "partial", "whole"}, holds : Data]

LEMMA FilesHaveType == /\ FileTypes(Absent) /\ FileTypes(Partial)
                       /\ \A d \in Data : FileTypes(Whole(d))
BY EmptyIsData DEF FileTypes, Absent, Partial, Whole

Typed == /\ phase \in Phases /\ data \in Data /\ writes \in [Slots -> Write]
         /\ FileTypes(file) /\ crashes \in 0..MaxCrashes
         /\ overlap \in BOOLEAN /\ durable \in Data /\ suspect \in BOOLEAN

LEMMA TypedIsTypeOK == Typed <=> TypeOK
BY DEF Typed, TypeOK, Phases, Write, FileTypes

LEMMA TypeKept == TypeOK /\ [Next]_vars => TypeOK'
<1> SUFFICES ASSUME Typed, [Next]_vars PROVE Typed'
  BY TypedIsTypeOK, PTL
<1>a. TypeOK
  BY TypedIsTypeOK
<1> USE DEF Typed
<1>1. CASE Start
  <2>1. data' = Empty /\ phase' \in Phases /\ file' = file /\ crashes' = crashes
    BY <1>1 DEF Start, Phases
  <2>2. CASE saveData(Empty, TRUE)
    <3>1. PICK w \in Slots \ Busy : Begun(w, Empty, TRUE)
      BY <2>2, SaveBegins
    <3> QED  BY <1>a, <2>1, <3>1, BegunTypes, EmptyIsData
  <2>3. CASE UNCHANGED <<writes, overlap, ghostVars>>
    BY <1>a, <2>1, <2>3, EmptyIsData DEF ghostVars
  <2> QED  BY <1>1, <2>2, <2>3 DEF Start
<1>2. CASE LoadData
  <2>1. data' \in Data
    BY <1>a, <1>2 DEF LoadData, FileTypes
  <2>2. phase' \in Phases
    BY <1>2 DEF LoadData, Phases
  <2> QED  BY <1>a, <1>2, <2>1, <2>2 DEF LoadData, ghostVars
<1>3. CASE EnsureClientDeviceInfo
  <2>1. crashes + 1 \in Identities
    BY <1>a, BoundAssumption DEF Identities
  <2>2. data' \in Data
    BY <1>a, <1>3, <2>1, IdentityIsData DEF EnsureClientDeviceInfo
  <2>3. saveData(data', TRUE) /\ phase' \in Phases /\ file' = file /\ crashes' = crashes
    BY <1>3 DEF EnsureClientDeviceInfo, Phases
  <2>4. PICK w \in Slots \ Busy : Begun(w, data', TRUE)
    BY <2>3, SaveBegins
  <2> QED  BY <1>a, <2>2, <2>3, <2>4, BegunTypes
<1>4. CASE Crash
  <2>1. crashes' \in 0..MaxCrashes
    BY <1>a, <1>4, BoundAssumption DEF Crash
  <2>2. writes' \in [Slots -> Write]
    BY <1>4, IdleIsWrite DEF Crash
  <2>3. overlap' \in BOOLEAN /\ suspect' \in BOOLEAN
    BY <1>4 DEF Crash
  <2> QED  BY <1>a, <1>4, <2>1, <2>2, <2>3, EmptyIsData DEF Crash, Phases
<1>5. ASSUME NEW w \in Slots, Truncate(w) PROVE Typed'
  <2>1. writes' \in [Slots -> Write]
    BY <1>a, <1>5 DEF Truncate, Write
  <2>2. FileTypes(file')
    BY <1>5, FilesHaveType DEF Truncate
  <2> QED  BY <1>a, <1>5, <2>1, <2>2 DEF Truncate, ghostVars
<1>6. ASSUME NEW w \in Slots, Fill(w) PROVE Typed'
  <2>1. writes' \in [Slots -> Write] /\ writes[w].snapshot \in Data
    BY <1>a, <1>6, IdleIsWrite DEF Fill, Write
  <2>2. FileTypes(file')
    BY <1>6, <2>1, FilesHaveType DEF Fill
  <2>3. phase' \in Phases
    BY <1>a, <1>6 DEF Fill, resumed, Phases
  <2>4. durable' \in Data
    BY <1>a, <1>6, <2>1 DEF Fill, ghostVars
  <2>5. suspect' \in BOOLEAN
    BY <1>a, <1>6 DEF Fill, ghostVars
  <2> QED  BY <1>a, <1>6, <2>1, <2>2, <2>3, <2>4, <2>5 DEF Fill
<1>7. ASSUME NEW w \in Slots, WriteFails(w) PROVE Typed'
  <2>1. writes' \in [Slots -> Write]
    BY <1>a, <1>7, IdleIsWrite DEF WriteFails
  <2>2. phase' \in Phases
    BY <1>a, <1>7 DEF WriteFails, Phases
  <2> QED  BY <1>a, <1>7, <2>1, <2>2 DEF WriteFails
<1>8. CASE Operate
  <2>1. PICK d \in Data : Change(d)
    BY <1>a, <1>8, OperationsChange
  <2>2. data' = d /\ saveData(d, FALSE) /\ UNCHANGED <<phase, file, crashes>>
    BY <2>1 DEF Change
  <2>3. PICK w \in Slots \ Busy : Begun(w, d, FALSE)
    BY <2>2, SaveBegins
  <2> QED  BY <1>a, <2>2, <2>3, BegunTypes
<1>9. CASE Flush
  <2>1. saveData(data, FALSE) /\ UNCHANGED <<phase, data, file, crashes>>
    BY <1>9 DEF Flush
  <2>2. PICK w \in Slots \ Busy : Begun(w, data, FALSE)
    BY <2>1, SaveBegins
  <2> QED  BY <1>a, <2>1, <2>2, BegunTypes
<1>10. CASE UNCHANGED vars
  BY <1>a, <1>10 DEF vars
<1> QED
  BY <1>1, <1>2, <1>3, <1>4, <1>5, <1>6, <1>7, <1>8, <1>9, <1>10 DEF Next

LEMMA TypeAtStart == Init => TypeOK
<1>1. 0 \in 0..MaxCrashes
  BY BoundAssumption
<1>2. Init => writes \in [Slots -> Write] /\ FileTypes(file)
  BY IdleIsWrite, FilesHaveType DEF Init
<1> QED  BY <1>1, <1>2, EmptyIsData DEF Init, TypeOK, Write, FileTypes

\* Every variable of the storage keeps its type, for any devices and any number of
\* saves and stops.
THEOREM TypeCorrect == Spec => []TypeOK
BY TypeAtStart, TypeKept, PTL DEF Spec

-----------------------------------------------------------------------------
(* The file *)

\* Saves that met, or met the load, make the file suspect until another is done alone.
Alone == /\ overlap => suspect
         /\ ~overlap => /\ \A v, w \in Busy : v = w
                        /\ \A w \in Busy : writes[w].snapshot = data
         /\ phase = "down" => Busy = {} /\ ~overlap
         /\ phase = "load" /\ Busy # {} => overlap

\* initialize() waits for one save of its own, in its two phases that save.
Initial == /\ \A w \in Busy : writes[w].init => phase \in {"first", "identity"}
           /\ \A v, w \in Busy : writes[v].init /\ writes[w].init => v = w

\* An undisturbed file holds what the last save wrote, and memory does too.
FileHolds == /\ ~suspect /\ file.state # "absent" /\ (\A w \in Slots : writes[w].stage # "open")
                  => file = Whole(durable)
             /\ ~suspect /\ Busy = {} /\ phase \notin {"down", "load"}
                  => durable = data /\ file.state # "absent"
             /\ phase = "load" => file.state # "absent"

FileInv == Alone /\ Initial /\ FileHolds

\* The start of a save.
LEMMA BegunWrites ==
  ASSUME TypeOK, NEW w \in Slots \ Busy, NEW d \in Data, NEW init \in BOOLEAN, Begun(w, d, init)
  PROVE  /\ Busy' = Busy \cup {w}
         /\ writes'[w].snapshot = d /\ writes'[w].init = init /\ writes'[w].stage = "started"
         /\ \A v \in Slots \ {w} : writes'[v] = writes[v]
BY DEF Begun, Busy, TypeOK

\* The save of a changed memory, outside the load.
LEMMA SaveKeeps ==
  ASSUME TypeOK, FileInv, NEW d \in Data, NEW init \in BOOLEAN, data' = d, saveData(d, init),
         file' = file, phase' # "down", phase' # "load", phase = "load" => data' = data,
         init => phase \notin {"first", "identity"} /\ phase' \in {"first", "identity"},
         ~init => phase' = phase
  PROVE  FileInv'
<1>1. PICK w \in Slots \ Busy : Begun(w, d, init)
  BY SaveBegins
<1>2. /\ Busy' = Busy \cup {w}
      /\ writes'[w].snapshot = d /\ writes'[w].init = init /\ writes'[w].stage = "started"
      /\ \A v \in Slots \ {w} : writes'[v] = writes[v]
  BY <1>1, BegunWrites
<1>3. /\ overlap' = (Busy # {} \/ phase = "load")
      /\ suspect' = (suspect \/ overlap')
      /\ durable' = durable
  BY <1>1 DEF Begun
<1>4. \A v \in Busy : v \in Slots \ {w}
  BY DEF Busy
<1>5. Alone'
  BY <1>2, <1>3, <1>4 DEF FileInv, Alone
<1>6. Initial'
  BY <1>2, <1>4 DEF FileInv, Initial
<1>7. FileHolds'
  <2>1. (\A v \in Slots : writes'[v].stage # "open") => \A v \in Slots : writes[v].stage # "open"
    BY <1>2 DEF Busy
  <2>2. Busy' # {}
    BY <1>2
  <2> QED  BY <1>3, <2>1, <2>2 DEF FileInv, FileHolds
<1> QED  BY <1>5, <1>6, <1>7 DEF FileInv

\* flush(), during the load too.
LEMMA FlushKeeps ==
  ASSUME TypeOK, FileInv, Flush PROVE FileInv'
<1>1. PICK w \in Slots \ Busy : Begun(w, data, FALSE)
  BY SaveBegins DEF Flush
<1>2. /\ Busy' = Busy \cup {w}
      /\ writes'[w].snapshot = data /\ writes'[w].init = FALSE /\ writes'[w].stage = "started"
      /\ \A v \in Slots \ {w} : writes'[v] = writes[v]
  BY <1>1, BegunWrites DEF TypeOK
<1>3. /\ overlap' = (Busy # {} \/ phase = "load")
      /\ suspect' = (suspect \/ overlap')
      /\ durable' = durable
  BY <1>1 DEF Begun
<1>4. \A v \in Busy : v \in Slots \ {w}
  BY DEF Busy
<1>a. UNCHANGED <<phase, data, file, crashes>> /\ phase # "down"
  BY DEF Flush
<1>5. Alone'
  BY <1>2, <1>3, <1>4, <1>a DEF FileInv, Alone
<1>6. Initial'
  BY <1>2, <1>4, <1>a DEF FileInv, Initial
<1>7. FileHolds'
  <2>1. (\A v \in Slots : writes'[v].stage # "open") => \A v \in Slots : writes[v].stage # "open"
    BY <1>2 DEF Busy
  <2>2. Busy' # {}
    BY <1>2
  <2> QED  BY <1>3, <1>a, <2>1, <2>2 DEF FileInv, FileHolds
<1> QED  BY <1>5, <1>6, <1>7 DEF FileInv

\* The end of a save, well or badly.
LEMMA EndedWrites ==
  ASSUME TypeOK, NEW w \in Busy, writes' = [writes EXCEPT ![w] = Idle]
  PROVE  Busy' = Busy \ {w} /\ \A v \in Slots \ {w} : writes'[v] = writes[v]
BY DEF Busy, TypeOK, Idle

LEMMA FileInvKept ==
  ASSUME TypeOK, FileInv, [Next]_vars PROVE FileInv'
<1>1. CASE Start
  <2>1. CASE file.state = "absent"
    <3>1. PICK w \in Slots \ Busy : Begun(w, Empty, TRUE)
      BY <1>1, <2>1, SaveBegins DEF Start
    <3>2. /\ Busy' = Busy \cup {w}
          /\ writes'[w].snapshot = Empty /\ writes'[w].init = TRUE
          /\ writes'[w].stage = "started"
          /\ \A v \in Slots \ {w} : writes'[v] = writes[v]
      BY <3>1, BegunWrites, EmptyIsData
    <3>3. Busy = {} /\ phase = "down" /\ phase' = "first" /\ data' = Empty /\ file' = file
      BY <1>1, <2>1 DEF Start, FileInv, Alone
    <3>4. overlap' = FALSE /\ suspect' = suspect /\ durable' = durable
      BY <3>1, <3>3 DEF Begun, TypeOK
    <3> QED  BY <2>1, <3>2, <3>3, <3>4 DEF FileInv, Alone, Initial, FileHolds
  <2>2. CASE file.state # "absent"
    BY <1>1, <2>2 DEF Start, ghostVars, FileInv, Alone, Initial, FileHolds, Busy
  <2> QED  BY <2>1, <2>2
<1>2. CASE LoadData
  <2>1. /\ UNCHANGED <<writes, file, overlap, durable, suspect>> /\ Busy' = Busy
        /\ phase = "load" /\ phase' \in {"ensure", "ready"}
        /\ data' = IF file.state = "whole" THEN file.holds ELSE data
    BY <1>2 DEF LoadData, ghostVars, Busy
  <2>2. ~suspect => Busy = {} /\ file = Whole(durable)
    BY <2>1 DEF FileInv, Alone, FileHolds, Busy
  <2>3. ~suspect => data' = durable
    BY <2>1, <2>2 DEF Whole
  <2> QED  BY <2>1, <2>2, <2>3 DEF FileInv, Alone, Initial, FileHolds
<1>3. CASE EnsureClientDeviceInfo
  <2>1. TypeOK'
    BY <1>3, TypeKept DEF Next
  <2>2. data' \in Data
    BY <2>1 DEF TypeOK
  <2> QED  BY <1>3, <2>2, SaveKeeps DEF EnsureClientDeviceInfo
<1>4. CASE Crash
  <2>1. /\ phase' = "down" /\ file' = file /\ durable' = durable /\ overlap' = FALSE
        /\ writes' = [w \in Slots |-> Idle]
        /\ suspect' = (suspect \/ \E w \in Slots : writes[w].stage = "open")
    BY <1>4 DEF Crash
  <2>2. Busy' = {} /\ \A w \in Slots : writes'[w].stage # "open"
    BY <2>1 DEF Busy, Idle
  <2> QED  BY <2>1, <2>2 DEF FileInv, Alone, Initial, FileHolds
<1>5. ASSUME NEW w \in Slots, Truncate(w) PROVE FileInv'
  <2>1. /\ writes[w].stage = "started" /\ file' = Partial
        /\ UNCHANGED <<phase, data, crashes, overlap, durable, suspect>>
    BY <1>5 DEF Truncate, ghostVars
  <2>2. /\ Busy' = Busy /\ w \in Busy /\ writes'[w].stage = "open"
        /\ \A v \in Busy : writes'[v].snapshot = writes[v].snapshot
                           /\ writes'[v].init = writes[v].init
    BY <1>5 DEF Truncate, Busy, TypeOK
  <2> QED  BY <2>1, <2>2 DEF FileInv, Alone, Initial, FileHolds, Partial
<1>6. ASSUME NEW w \in Slots, Fill(w) PROVE FileInv'
  <2>1. /\ w \in Busy /\ phase' = resumed(w) /\ UNCHANGED <<data, crashes, overlap>>
        /\ writes' = [writes EXCEPT ![w] = Idle]
        /\ IF overlap THEN UNCHANGED <<durable, suspect>>
           ELSE durable' = writes[w].snapshot /\ suspect' = FALSE
    BY <1>6 DEF Fill, ghostVars, Busy
  <2>2. Busy' = Busy \ {w} /\ \A v \in Slots \ {w} : writes'[v] = writes[v]
    BY <2>1, EndedWrites
  <2>3. file' = Whole(writes[w].snapshot) \/ (file' = Partial /\ overlap)
    <3>1. ~overlap => ~ \E v \in Busy \ {w} : writes[v].stage = "open"
      BY <2>1 DEF FileInv, Alone
    <3> QED  BY <1>6, <3>1 DEF Fill, TypeOK
  <2>4. file'.state # "absent"
    BY <2>3 DEF Whole, Partial
  <2>5. /\ phase # "down"
        /\ ~overlap => phase # "load" /\ writes[w].snapshot = data /\ Busy = {w}
    BY <2>1 DEF FileInv, Alone
  <2>6. /\ phase' \notin {"down", "load"} \/ phase' = phase
        /\ phase' # phase => writes[w].init
    BY <2>1 DEF resumed
  <2>7. Alone'
    BY <2>1, <2>2, <2>5, <2>6 DEF FileInv, Alone, Busy
  <2>8. Initial'
    BY <2>1, <2>2, <2>6 DEF FileInv, Initial, Busy
  <2>9. FileHolds'
    <3>1. CASE overlap
      BY <2>1, <2>4, <3>1 DEF FileInv, Alone, FileHolds
    <3>2. CASE ~overlap
      BY <2>1, <2>3, <2>4, <2>5, <3>2 DEF FileHolds
    <3> QED  BY <3>1, <3>2
  <2> QED  BY <2>7, <2>8, <2>9 DEF FileInv
<1>7. ASSUME NEW w \in Slots, WriteFails(w) PROVE FileInv'
  <2>1. /\ w \in Busy /\ UNCHANGED <<data, file, crashes, overlap, durable>> /\ suspect' = TRUE
        /\ phase' = IF writes[w].init THEN "broken" ELSE phase
        /\ writes' = [writes EXCEPT ![w] = Idle]
    BY <1>7 DEF WriteFails, Busy
  <2>2. Busy' = Busy \ {w} /\ \A v \in Slots \ {w} : writes'[v] = writes[v]
    BY <2>1, EndedWrites
  <2>3. \A v \in Busy' : v \in Slots \ {w}
    BY <2>2 DEF Busy
  <2>4. Alone' /\ FileHolds'
    BY <2>1, <2>2, <2>3 DEF FileInv, Alone, FileHolds
  <2>5. Initial'
    BY <2>1, <2>2, <2>3 DEF FileInv, Initial
  <2> QED  BY <2>4, <2>5 DEF FileInv
<1>8. CASE Operate
  <2>1. PICK d \in Data : Change(d)
    BY <1>8, OperationsChange DEF TypeOK
  <2> QED  BY <2>1, SaveKeeps DEF Change
<1>9. CASE Flush
  BY <1>9, FlushKeeps
<1>10. CASE UNCHANGED vars
  BY <1>10 DEF vars, FileInv, Alone, Initial, FileHolds, Busy
<1> QED
  BY <1>1, <1>2, <1>3, <1>4, <1>5, <1>6, <1>7, <1>8, <1>9, <1>10 DEF Next

LEMMA FileInvHolds == Spec => []FileInv
<1>1. Init => FileInv
  BY DEF Init, FileInv, Alone, Initial, FileHolds, Busy, Idle, Absent
<1> QED  BY <1>1, FileInvKept, TypeCorrect, PTL DEF Spec

\* When nothing is being saved and the last save was alone, the file is what memory
\* holds, over any number of operations, failures, overlaps and restarts (saveData).
THEOREM FileMatchesMemory == Spec => []FileIsMemory
<1>1. FileInv => FileIsMemory
  BY DEF FileInv, FileHolds, FileIsMemory, Busy
<1> QED  BY <1>1, FileInvHolds, PTL

\* A restart finds what the last undisturbed save wrote (loadData), wherever between
\* two saves the process stopped.
THEOREM RestartRestores == Spec => RestoresLast
<1>1. ASSUME TypeOK, FileInv, [Next]_vars, phase = "load", phase' \in {"ensure", "ready"}, ~suspect
      PROVE  data' = durable
  <2>1. Busy = {}
    BY <1>1 DEF FileInv, Alone
  <2>2. file = Whole(durable)
    BY <1>1, <2>1 DEF FileInv, FileHolds, Busy
  <2>3. CASE LoadData
    BY <2>2, <2>3 DEF LoadData, Whole
  <2>4. CASE Operate
    <3>1. PICK d \in Data : Change(d)
      BY <1>1, <2>4, OperationsChange DEF TypeOK
    <3> QED  BY <1>1, <3>1 DEF Change
  <2>5. CASE Start \/ EnsureClientDeviceInfo \/ Crash \/ Flush \/ UNCHANGED vars
    BY <1>1, <2>5 DEF Start, EnsureClientDeviceInfo, Crash, Flush, vars
  <2>6. ASSUME NEW w \in Slots, Truncate(w) \/ Fill(w) \/ WriteFails(w) PROVE FALSE
    BY <2>1, <2>6 DEF Truncate, Fill, WriteFails, Busy
  <2> QED  BY <1>1, <2>3, <2>4, <2>5, <2>6 DEF Next
<1> QED  BY <1>1, FileInvHolds, TypeCorrect, PTL DEF Spec, RestoresLast

=============================================================================
