-------------------------------- MODULE Vbfs --------------------------------
(***************************************************************************)
(* VBFS::CVbfs, the files of the tables on a list of devices, with its two *)
(* kinds of device: CRawVbfs, which divides a raw device into equal files  *)
(* behind an index of them, and CFileVbfs, which keeps a directory per     *)
(* type of file.  Devices are filled one after the other; the files of a   *)
(* type are numbered through all devices.                                  *)
(*                                                                         *)
(* A device is a record:                                                   *)
(*   disk   what survives a restart: for a raw device the index, a file    *)
(*          type and number per place or FREE; for a directory device the  *)
(*          set of names per type                                          *)
(*   logic  raw: m_arrLogicFileIdx, the places of the files of a type      *)
(*          fs: m_nMaxAllocatedFileID per type, as a count                 *)
(*   start  raw: m_nStartFreePhyFileIdx; fs: m_nTotalFileNum               *)
(*   buf    raw: m_pPhyFileIdx, the block of the index that is written     *)
(***************************************************************************)
EXTENDS Integers, Sequences, FiniteSets, FiniteSetsExt, SequencesExt

CONSTANTS Types,         \* types of files, EN_MAX_FILE_TYPE
          MaxFiles,      \* bound: files of a type
          Devices,       \* the number of rows of VBFS_DEVICE_CONFIG
          FileNum,       \* m_nFileNum: files a device has room for
          IndexBlock,    \* EN_DIRET_IO_PHY_FILE_INDEX_NUM
          Uninitialised, \* values m_nStartFreePhyFileIdx may have before it is set
          MaxFaults,     \* bound: failing writes and openings, restarts
          FREE,
          Exposed        \* the windows the run lets calls and faults fall into

ASSUME VbfsAssumption ==
  /\ MaxFiles \in Nat /\ Devices \in Nat \ {0} /\ FileNum \in Nat \ {0}
  /\ IndexBlock \in Nat \ {0} /\ MaxFaults \in Nat
  /\ Uninitialised \subseteq Nat /\ Uninitialised # {}
  /\ IsFiniteSet(Types) /\ FREE \notin [type : Types, id : Nat]
  /\ Exposed \subseteq {"fsRepeat", "fsFull", "late", "untidy"}

VARIABLES kind,   \* m_strDeviceType: "raw" or "fs"
          device, \* the devices; those after num are not open
          num,    \* m_nCurNum
          files,  \* what the tables know: the number of files of each type
          answer, \* the last call: its kind, its result, whether a write failed
          running,\* Open succeeded, and the process has not ended since
          faults

vars == <<kind, device, num, files, answer, running, faults>>

Places == 0..FileNum - 1
RoundDown(i) == (i \div IndexBlock) * IndexBlock
InBlock == 0..IndexBlock - 1

\* A block of the index as it is on the disk; the index ends with a full block.
BlockAt(disk, i) ==
  [k \in InBlock |-> IF RoundDown(i) + k \in Places THEN disk[RoundDown(i) + k] ELSE FREE]
-----------------------------------------------------------------------------
(***************************************************************************)
(* Open of one device.                                                     *)
(***************************************************************************)
Closed(disk) == [disk |-> disk, logic |-> << >>, start |-> 0, buf |-> << >>]

\* The places of S in order.
InOrder(S) ==
  CHOOSE s \in SeqOf(S, FileNum) :
    Range(s) = S /\ \A i, j \in DOMAIN s : i < j => s[i] < s[j]

\* The places before the first free one are read; without a free one nothing
\* sets m_nStartFreePhyFileIdx.
RawOpen(d, leftover) ==
  LET free  == {i \in Places : d.disk[i] = FREE}
      start == IF free = {} THEN leftover ELSE Min(free)
      used  == IF free = {} THEN Places ELSE 0..start - 1
  IN  [disk |-> d.disk, start |-> start, buf |-> BlockAt(d.disk, start),
       logic |-> [t \in Types |->
                   InOrder({i \in used : d.disk[i].type = t})]]

FsOpen(d) ==
  [disk |-> d.disk, buf |-> << >>,
   start |-> Cardinality(UNION {{t} \X d.disk[t] : t \in Types}),
   logic |-> [t \in Types |-> Cardinality(d.disk[t])]]

OpenDevice(d, leftover) == IF kind = "raw" THEN RawOpen(d, leftover) ELSE FsOpen(d)

\* GetAlocLogicFileNum.
Count(d, t) == IF kind = "raw" THEN Len(d.logic[t]) ELSE d.logic[t]

\* Mutant: the bound is off by one.
IsFullLate(d) == d.start > FileNum

\* GetAlocPhyFileNum against GetMaxPhyFileNum.
IsFull(d) == d.start >= FileNum
-----------------------------------------------------------------------------
(***************************************************************************)
(* AllocatFile of one device: the device after it and the result.  The     *)
(* number seg of the file on this device may be below 0, which the code's  *)
(* unsigned arithmetic makes a large number.                               *)
(***************************************************************************)
Entry(t, seg) == [type |-> t, id |-> seg]

\* Mutant: the entries of the block before are left in it.
NextBlockKept(d, t, seg) == [d.buf EXCEPT ![d.start - RoundDown(d.start)] = Entry(t, seg)]

\* The block of the index with the new entry; a new block starts empty.
NextBlock(d, t, seg) ==
  IF d.start = RoundDown(d.start)
  THEN [k \in InBlock |-> IF k = 0 THEN Entry(t, seg) ELSE FREE]
  ELSE [d.buf EXCEPT ![d.start - RoundDown(d.start)] = Entry(t, seg)]

RawAllocatFile(d, t, seg, fails) ==
  LET i       == d.start
      buf     == NextBlock(d, t, seg)
      written == [p \in Places |-> IF RoundDown(p) = RoundDown(i)
                                   THEN buf[p - RoundDown(p)] ELSE d.disk[p]]
  IN  CASE IsFull(d) -> [dev |-> d, res |-> "full"]
        [] ~IsFull(d) /\ seg = Count(d, t) ->
             [dev |-> [disk  |-> IF fails THEN d.disk ELSE written,
                       logic |-> [d.logic EXCEPT ![t] = Append(@, i)],
                       start |-> i + 1, buf |-> buf],
              res |-> IF fails THEN "error" ELSE "ok"]
        [] ~IsFull(d) /\ seg \in 0..Count(d, t) - 1 -> [dev |-> d, res |-> "ok"]
        [] OTHER -> [dev |-> d, res |-> "assert"]

\* A full device is an error of the disk here.  The file that cannot be set to
\* its size stays in the directory.
FsAllocatFile(d, t, seg, fails) ==
  IF IsFull(d) \/ fails
  THEN [dev |-> IF IsFull(d) THEN d ELSE [d EXCEPT !.disk[t] = @ \cup {seg}],
        res |-> "error"]
  ELSE [dev |-> [d EXCEPT !.disk[t] = @ \cup {seg}, !.logic[t] = @ + 1, !.start = @ + 1],
        res |-> "ok"]

DeviceAllocatFile(d, t, seg, fails) ==
  IF kind = "raw" THEN RawAllocatFile(d, t, seg, fails) ELSE FsAllocatFile(d, t, seg, fails)

(***************************************************************************)
(* CVbfs::AllocatFile asks the last open device; when that is full it      *)
(* opens the next configured one and begins again.                         *)
(***************************************************************************)
CountBefore(devs, n, t) ==
  Cardinality(UNION {{d} \X (1..Count(devs[d], t)) : d \in 1..n - 1})

\* Mutant: the number is not made relative to the device.
AskLastAbsolute(devs, n, t, id, fails) ==
  LET r == DeviceAllocatFile(devs[n], t, id, fails)
  IN  [devs |-> [devs EXCEPT ![n] = r.dev], n |-> n, res |-> r.res]

AskLast(devs, n, t, id, fails) ==
  LET r == DeviceAllocatFile(devs[n], t, id - CountBefore(devs, n, t), fails)
  IN  [devs |-> [devs EXCEPT ![n] = r.dev], n |-> n, res |-> r.res]

\* The devices behind the n-th are opened up to the m-th.
OpenNext(devs, n, m) ==
  [d \in 1..Devices |->
     IF d \in n + 1..m THEN OpenDevice(devs[d], CHOOSE u \in Uninitialised : TRUE) ELSE devs[d]]

AskFrom(devs, n, t, id, fails) ==
  LET Ask(m) == AskLast(OpenNext(devs, n, m), m, t, id, fails)
      last   == Min({m \in n..Devices : m = Devices \/ Ask(m).res # "full"})
  IN  [Ask(last) EXCEPT !.res = IF @ = "full" THEN "noDevice" ELSE @]

(***************************************************************************)
(* Read and Write walk the open devices to the one that has the file.      *)
(***************************************************************************)
NOWHERE == << >>

\* The place of a file on its device: a raw device has it in its index, a
\* directory device opens the file of that name (GetFileHandle).
RawPlace(d, t, seg)    == d.logic[t][seg + 1]
NamedPlace(d, t, seg)  == IF seg \in d.disk[t] THEN <<t, seg>> ELSE NOWHERE
DevicePlace(d, t, seg) == IF kind = "raw" THEN RawPlace(d, t, seg) ELSE NamedPlace(d, t, seg)

\* Mutant: the number is compared before the files of the device are counted off.
LocateAbsolute(devs, n, t, id) ==
  LET holders == {d \in 1..n : id < Count(devs[d], t)}
  IN  IF holders = {} THEN NOWHERE
      ELSE <<Min(holders), DevicePlace(devs[Min(holders)], t, id)>>

Locate(devs, n, t, id) ==
  LET holders == {d \in 1..n : id - CountBefore(devs, d, t) < Count(devs[d], t)}
      d       == Min(holders)
  IN  IF holders = {} THEN NOWHERE
      ELSE <<d, DevicePlace(devs[d], t, id - CountBefore(devs, d, t))>>

-----------------------------------------------------------------------------
NoAnswer == [call |-> "none", res |-> "ok", fault |-> FALSE]

FreeDisk == IF kind = "raw" THEN [p \in Places |-> FREE] ELSE [t \in Types |-> {}]

Init ==
  /\ kind \in {"raw", "fs"}
  /\ num = 1
  /\ device = [d \in 1..Devices |->
                IF d = 1 THEN OpenDevice(Closed(FreeDisk), 0) ELSE Closed(FreeDisk)]
  /\ files = [t \in Types |-> 0]
  /\ answer = NoAnswer /\ running = TRUE /\ faults = 0

\* The call, with the write of its device failing or not.
Call(name, t, id) ==
  \E fails \in BOOLEAN :
    /\ fails => faults < MaxFaults
    /\ faults' = IF fails THEN faults + 1 ELSE faults
    /\ LET r == AskFrom(device, num, t, id, fails)
       IN  /\ device' = r.devs /\ num' = r.n
           /\ answer' = [call |-> name, res |-> r.res, fault |-> fails]
    /\ UNCHANGED <<kind, running>>

\* The call names a file that is already counted, and the device that has it is
\* full, or no longer the last one: a late answer, whose repetition a raw
\* device does not recognise.
Late(t, id) ==
  /\ kind = "raw" /\ id < CountBefore(device, num, t) + Count(device[num], t)
  /\ IsFull(device[num]) \/ id < CountBefore(device, num, t)

\* A table writes the first page of its next file (WriteNewPage).
AllocNext(t) ==
  /\ running /\ answer.res # "assert" /\ files[t] < MaxFiles
  /\ kind = "fs" /\ IsFull(device[num]) => "fsFull" \in Exposed
  /\ Late(t, files[t]) => "late" \in Exposed
  /\ Call("alloc", t, files[t])
  /\ files' = [files EXCEPT ![t] = IF answer'.res = "ok" THEN @ + 1 ELSE @]

\* The same page is written again: a persistence is repeated, or a log is
\* replayed after a restart.
Repeat(t) ==
  /\ running /\ answer.res # "assert" /\ files[t] > 0
  /\ kind = "fs" => "fsRepeat" \in Exposed
  /\ Late(t, files[t] - 1) => "late" \in Exposed
  /\ Call("repeat", t, files[t] - 1)
  /\ UNCHANGED files

\* The next device is needed and not reached.  Its row cannot be read from the
\* database, which only fails the call, or it does not open: Close then frees the
\* open devices and the array of them, and the next call on them ends the process.
NextDeviceFails(t) ==
  /\ running /\ answer.res # "assert" /\ files[t] < MaxFiles
  /\ kind = "raw" /\ IsFull(device[num]) /\ num < Devices
  /\ faults < MaxFaults /\ faults' = faults + 1
  /\ answer' = [call |-> "alloc", res |-> "error", fault |-> TRUE]
  /\ running' \in BOOLEAN
  /\ UNCHANGED <<kind, device, num, files>>

(***************************************************************************)
(* Open after a restart: devices up to the first that has room.  The       *)
(* service does not start when the last of them is full.                   *)
(***************************************************************************)
OpenUpTo(n, leftover) ==
  [d \in 1..Devices |-> IF d <= n THEN OpenDevice(device[d], leftover)
                                  ELSE Closed(device[d].disk)]

OnDisk == {f \in Types \X (0..MaxFiles - 1) : f[2] < files[f[1]]}

\* Nothing is left over from a write that failed: each allocated file has its
\* entry, the index has no hole, where reading it would end, and a directory
\* no file that is not counted.
DiskIsTidy ==
  \A d \in 1..num :
    IF kind = "raw"
    THEN /\ \A f \in OnDisk : LET p == Locate(device, num, f[1], f[2])
                              IN  p # NOWHERE /\ device[p[1]].disk[p[2]] # FREE
         /\ \A p, q \in Places : (p < q /\ device[d].disk[q] # FREE) \/ d < num =>
                                    device[d].disk[p] # FREE
    ELSE \A t \in Types : Cardinality(device[d].disk[t]) = Count(device[d], t)

Restart ==
  /\ faults < MaxFaults /\ faults' = faults + 1
  /\ DiskIsTidy \/ "untidy" \in Exposed
  /\ \E leftover \in Uninitialised :
       LET all  == OpenUpTo(Devices, leftover)
           room == {d \in 1..Devices : ~IsFull(all[d])}
           n    == IF room = {} THEN Devices ELSE Min(room)
       IN  /\ device' = OpenUpTo(n, leftover) /\ num' = n
           /\ running' = (room # {})
  /\ answer' = NoAnswer
  /\ UNCHANGED <<kind, files>>

Next == (\E t \in Types : AllocNext(t) \/ Repeat(t) \/ NextDeviceFails(t)) \/ Restart

Spec == Init /\ [][Next]_vars
-----------------------------------------------------------------------------
TypeOK ==
  /\ kind \in {"raw", "fs"} /\ num \in 1..Devices
  /\ DOMAIN device = 1..Devices
  /\ \A d \in 1..num : device[d].start \in (0..FileNum) \cup Uninitialised /\ DOMAIN device[d].logic = Types
  /\ files \in [Types -> 0..MaxFiles]
  /\ answer.res \in {"ok", "error", "full", "noDevice", "assert"}
  /\ running \in BOOLEAN /\ faults \in 0..MaxFaults

\* The memory of an open device agrees with what a restart would read, up to
\* the entries whose write failed: the count of the files decides on which
\* device a number is looked for (CRawVbfs::AllocatFile, CFileVbfs::AllocatFile).
CountsMatchDisk ==
  \A d \in 1..num : \A t \in Types :
    IF kind = "raw"
    THEN \A i \in 1..Len(device[d].logic[t]) :
           LET e == device[d].disk[device[d].logic[t][i]]
           IN  e # FREE => e = Entry(t, i - 1)
    ELSE 0..Count(device[d], t) - 1 \subseteq device[d].disk[t]

\* A call that meets no failing write succeeds while a device has room, a
\* repeated one always, and none runs into an assertion: the tables have no
\* answer to a refusal but to try again.
CallsSucceed ==
  /\ answer.res # "assert"
  /\ ~answer.fault /\ answer.call = "repeat" => answer.res = "ok"
  /\ ~answer.fault /\ answer.call = "alloc" /\ answer.res # "ok" =>
       \A d \in 1..Devices : d <= num /\ IsFull(device[d])

Store == INSTANCE FileStore WITH
  place <- [f \in OnDisk |-> Locate(device, num, f[1], f[2])]

\* Each logical file keeps its place, of its own, through allocations on the
\* next device, failing writes, repeated calls and restarts.
KeepsPlaces == Store!Spec
=============================================================================
