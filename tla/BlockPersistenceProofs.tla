----------------------- MODULE BlockPersistenceProofs -----------------------
(***************************************************************************)
(* For every set of pages and contents: however often the order node       *)
(* crashes outside the two unprotected windows, and however often a page   *)
(* write fails, its durable state is one block's, and moves by one block.  *)
(***************************************************************************)
EXTENDS BlockPersistence, FiniteSetTheorems, TLAPS

\* The two unprotected windows are not hit.
Protected == RiskyCrash = {}

\* Block blk carries the pages of prev with its own modifications.
Extends(blk, prev) ==
    /\ blk.hash.height = prev.height + 1
    /\ Applies(blk.pkg, prev.table, blk.hash.table)

\* Every packed block extends the one before it, the first one the config.
QueueChained ==
    /\ \A i \in 2..Len(queue) : Extends(queue[i], queue[i-1].hash)
    /\ pc # "end" /\ queue # <<>> => Extends(queue[1], config.hash)

\* The config and the device agree: no repair is needed.
Intact ==
    /\ config.blockID = config.hash.height
    /\ device = config.hash.table

\* The device holds the config's pages except where the front block wrote.
Partial ==
    /\ config.blockID = config.hash.height
    /\ \A p \in Pages \ PagesOf(queue[1].pkg) : device[p] = config.hash.table[p]

\* The log and the config log hold the whole front block.
LogHolds ==
    /\ log.count = Len(queue[1].pkg)
    /\ \A i \in 1..Len(queue[1].pkg) : log.pages[i] = queue[1].pkg[i]
CfgLogHolds == cfgLog = [blockID |-> queue[1].hash.height, hash |-> queue[1].hash]

\* Replaying the log gives the block of the config log.
RedoReady ==
    /\ Replayed(cfgLog.hash.table)
    /\ cfgLog.blockID = cfgLog.hash.height
    /\ cfgLog.blockID \in {config.blockID, config.blockID + 1}

\* While the front block is untouched, or its write failed and is retried.
BeforeWrite ==
    IF failed THEN Partial /\ LogHolds /\ CfgLogHolds /\ config.flag = END
              ELSE Intact

AtIdle ==
    pc = "idle" =>
        /\ BeforeWrite
        /\ failed => queue # <<>>
        /\ config.flag = BEGIN => RedoReady /\ cfgLog.hash = config.hash

AtSaving ==
    pc \in Saving =>
        /\ queue # <<>>
        /\ BeforeWrite
        /\ log.count = Len(queue[1].pkg)
        /\ pc = "log" =>
             /\ k \in 1..(Len(queue[1].pkg) + 1)
             /\ \A i \in 1..(k - 1) : log.pages[i] = queue[1].pkg[i]
        /\ pc # "log" => LogHolds /\ cfgLog.blockID = queue[1].hash.height
        /\ pc = "begin" => CfgLogHolds

AtPages ==
    pc = "pages" =>
        /\ queue # <<>> /\ config.flag = BEGIN
        /\ LogHolds /\ CfgLogHolds /\ Partial
        /\ k \in 1..(Len(queue[1].pkg) + 1)
        /\ \A i \in 1..(k - 1) : device[queue[1].pkg[i].page] = queue[1].pkg[i].content

AtConfig ==
    pc \in {"config", "end"} =>
        /\ queue # <<>> /\ config.flag = BEGIN
        /\ LogHolds /\ CfgLogHolds
        /\ device = queue[1].hash.table
        /\ \A i \in 1..Len(queue[1].pkg) :
              device[queue[1].pkg[i].page] = queue[1].pkg[i].content
        /\ config.blockID = queue[1].hash.height
        /\ pc = "end" => config.hash = queue[1].hash

AtDown ==
    pc = "down" =>
        /\ queue = <<>> /\ ~failed
        /\ config.flag = BEGIN => RedoReady
        /\ config.flag = END => Intact

AtRedo ==
    pc \in {"redo", "redocfg"} =>
        /\ queue = <<>> /\ ~failed
        /\ config.flag = BEGIN
        /\ RedoReady
        /\ pc = "redo" =>
             /\ k \in 1..(log.count + 1)
             /\ \A i \in 1..(k - 1) : device[log.pages[i].page] = log.pages[i].content
        /\ pc = "redocfg" =>
             /\ device = cfgLog.hash.table
             /\ config.blockID = cfgLog.blockID

IInv == /\ TypeOK /\ QueueChained
        /\ AtIdle /\ AtSaving /\ AtPages /\ AtConfig /\ AtDown /\ AtRedo
-----------------------------------------------------------------------------
\* A modify package is a sequence of entries, at most one per page.
LEMMA PackageType ==
    ASSUME NEW pkg \in Package
    PROVE  /\ pkg \in Seq(Entry)
           /\ Len(pkg) \in 0..Cardinality(Pages)
           /\ \A i \in 1..Len(pkg) : pkg[i] \in Entry
<1>1. Cardinality(Pages) \in Nat
  BY PersistAssumption, FS_CardinalityType
<1>2. PICK n \in 0..Cardinality(Pages) : pkg \in [1..n -> Entry]
  BY DEF Package
<1>3. pkg \in Seq(Entry) /\ Len(pkg) = n
  BY <1>1, <1>2
<1> QED
  BY <1>2, <1>3

\* Head and tail of a non-empty sequence.
LEMMA HeadOfSeq ==
    ASSUME NEW S, NEW s \in Seq(S), s # <<>>
    PROVE  /\ Len(s) \in Nat \ {0}
           /\ s[1] \in S
           /\ Tail(s) \in Seq(S)
           /\ Len(Tail(s)) = Len(s) - 1
           /\ \A i \in 1..(Len(s) - 1) : Tail(s)[i] = s[i+1]
OBVIOUS

\* Every element of a sequence over S is in S.
LEMMA ElementOfSeq ==
    ASSUME NEW S, NEW s \in Seq(S), NEW i \in 1..Len(s)
    PROVE  s[i] \in S
OBVIOUS

\* Types of the parts of the front block (m_queueBlockInfo).
LEMMA QueueType ==
    ASSUME TypeOK, queue # <<>>
    PROVE  /\ Len(queue) \in Nat \ {0}
           /\ queue[1] \in [hash : Hash, pkg : Package]
           /\ queue[1].hash.height \in Nat
           /\ queue[1].hash.table \in [Pages -> Content]
           /\ queue[1].pkg \in Seq(Entry)
           /\ Len(queue[1].pkg) \in 0..Cardinality(Pages)
           /\ \A i \in 1..Len(queue[1].pkg) :
                 /\ queue[1].pkg[i] \in Entry
                 /\ queue[1].pkg[i].page \in Pages
                 /\ queue[1].pkg[i].content \in Content
<1>1. Len(queue) \in Nat \ {0} /\ queue[1] \in [hash : Hash, pkg : Package]
  BY HeadOfSeq DEF TypeOK
<1>2. queue[1].hash \in Hash /\ queue[1].pkg \in Package
  BY <1>1
<1> QED
  BY <1>1, <1>2, PackageType DEF Hash, Entry

\* A step that leaves queue and block hash alone keeps the chain.
LEMMA ChainKept ==
    ASSUME QueueChained, queue' = queue, config'.hash = config.hash,
           pc' # "end" => pc # "end"
    PROVE  QueueChained'
<1>1. ASSUME NEW i \in 2..Len(queue) PROVE Extends(queue[i], queue[i-1].hash)'
  BY DEF QueueChained, Extends, Applies, PagesOf
<1>2. (pc # "end" /\ queue # <<>> => Extends(queue[1], config.hash))'
  BY DEF QueueChained, Extends, Applies, PagesOf
<1> QED
  BY <1>1, <1>2 DEF QueueChained

\* What holds of the front block in the states that work on it.
LEMMA FrontFacts ==
    ASSUME IInv, pc \in Saving \cup {"pages", "config", "end"}
    PROVE  /\ queue # <<>> /\ Len(queue) \in Nat \ {0}
           /\ queue[1] \in [hash : Hash, pkg : Package]
           /\ queue[1].hash \in Hash /\ queue[1].pkg \in Package
           /\ queue[1].hash.height \in Nat
           /\ queue[1].hash.table \in [Pages -> Content]
           /\ log.count = Len(queue[1].pkg)
           /\ Len(queue[1].pkg) \in 0..Cardinality(Pages)
           /\ Len(queue[1].pkg) \in Nat /\ Cardinality(Pages) \in Nat
           /\ \A i \in 1..Len(queue[1].pkg) :
                 /\ queue[1].pkg[i] \in Entry
                 /\ queue[1].pkg[i].page \in Pages
                 /\ queue[1].pkg[i].content \in Content
           /\ \A i, j \in 1..Len(queue[1].pkg) :
                 queue[1].pkg[i].page = queue[1].pkg[j].page => i = j
<1>1. queue # <<>> /\ log.count = Len(queue[1].pkg)
  BY DEF IInv, AtSaving, AtPages, AtConfig, LogHolds, Saving
<1>2. Cardinality(Pages) \in Nat
  BY PersistAssumption, FS_CardinalityType
<1>3. queue[1].hash \in Hash /\ queue[1].pkg \in Package
  BY <1>1, QueueType DEF IInv
<1>4. \A i, j \in 1..Len(queue[1].pkg) : queue[1].pkg[i].page = queue[1].pkg[j].page => i = j
  BY <1>3, PackageType DEF Package
<1> QED
  BY <1>1, <1>2, <1>3, <1>4, QueueType DEF IInv

\* A node that starts on fresh files satisfies the invariant.
LEMMA InitIInv == Init => IInv
<1> SUFFICES ASSUME Init PROVE IInv
  OBVIOUS
<1>1. Cardinality(Pages) \in Nat
  BY PersistAssumption, FS_CardinalityType
<1>2. TypeOK
  <2>1. config.hash \in Hash
    BY DEF Init, Hash
  <2>2. config \in [flag : {BEGIN, END}, blockID : Nat, hash : Hash]
    BY <2>1 DEF Init
  <2>3. cfgLog \in [blockID : Nat, hash : Hash]
    BY <2>1 DEF Init
  <2>4. log \in [count : 0..Cardinality(Pages), pages : [Slots -> Entry \cup {Blank}]]
    BY <1>1 DEF Init
  <2>5. queue \in Seq([hash : Hash, pkg : Package])
    <3>1. \A S : <<>> \in Seq(S)
      OBVIOUS
    <3> QED
      BY <3>1 DEF Init
  <2>6. device \in [Pages -> Content] /\ k \in Nat /\ failed \in BOOLEAN /\ pc \in PCs
    BY DEF Init, PCs
  <2> QED
    BY <2>2, <2>3, <2>4, <2>5, <2>6 DEF TypeOK
<1> QED
  BY <1>2 DEF Init, IInv, QueueChained, AtIdle, AtSaving, AtPages, AtConfig,
              AtDown, AtRedo, Saving, BeforeWrite, Intact, BEGIN, END

\* SaveToLog: the page count of the front block is encoded.
LEMMA SaveToLogIInv == IInv /\ SaveToLog => IInv'
<1> SUFFICES ASSUME IInv, SaveToLog PROVE IInv'
  OBVIOUS
<1> USE DEF Saving
<1>1. TypeOK'
  BY QueueType DEF IInv, SaveToLog, TypeOK, PCs
<1>2. QueueChained'
  BY ChainKept DEF IInv, SaveToLog
<1>3. AtSaving'
  BY QueueType DEF IInv, SaveToLog, AtIdle, AtSaving, BeforeWrite, Intact, Partial,
     LogHolds, CfgLogHolds, PagesOf, TypeOK
<1> QED
  BY <1>1, <1>2, <1>3 DEF IInv, SaveToLog, AtIdle, AtPages, AtConfig, AtDown, AtRedo

\* OnTimePackBlock: the new block extends the last one.
LEMMA PackIInv == ASSUME NEW pkg \in Package PROVE IInv /\ Pack(pkg) => IInv'
<1> SUFFICES ASSUME IInv, Pack(pkg) PROVE IInv'
  OBVIOUS
<1>1. PICK table \in [Pages -> Content] :
        /\ Applies(pkg, LastHash.table, table)
        /\ queue' = Append(queue,
                [hash |-> [height |-> LastHash.height + 1, table |-> table],
                 pkg  |-> pkg])
  BY DEF Pack
<1> DEFINE blk == [hash |-> [height |-> LastHash.height + 1, table |-> table],
                   pkg  |-> pkg]
<1>2. queue \in Seq([hash : Hash, pkg : Package]) /\ Len(queue) \in Nat
  BY DEF IInv, TypeOK
<1>3. LastHash \in Hash
  <2>1. CASE queue = <<>>
    BY <2>1 DEF IInv, TypeOK, LastHash
  <2>2. CASE queue # <<>>
    <3>1. queue[Len(queue)] \in [hash : Hash, pkg : Package]
      BY <1>2, <2>2, ElementOfSeq, Len(queue) \in 1..Len(queue)
    <3> QED
      BY <2>2, <3>1 DEF LastHash
  <2> QED
    BY <2>1, <2>2
<1>4. blk \in [hash : Hash, pkg : Package]
  BY <1>3 DEF Hash
<1> HIDE DEF blk
<1>5. /\ queue' = Append(queue, blk)
      /\ queue' \in Seq([hash : Hash, pkg : Package])
      /\ Len(queue') = Len(queue) + 1
      /\ queue'[Len(queue) + 1] = blk
      /\ \A i \in 1..Len(queue) : queue'[i] = queue[i]
      /\ queue' # <<>>
  BY <1>1, <1>2, <1>4 DEF blk
<1>6. Extends(blk, LastHash)
  BY <1>1 DEF blk, Extends
<1>7. TypeOK'
  BY <1>5 DEF Pack, IInv, TypeOK
<1>8. QueueChained'
  <2>1. ASSUME NEW i \in 2..Len(queue') PROVE Extends(queue'[i], queue'[i-1].hash)
    <3>1. CASE i = Len(queue) + 1
      <4>1. queue # <<>> /\ LastHash = queue[Len(queue)].hash /\ queue'[i-1] = queue[Len(queue)]
        BY <3>1, <1>2, <1>5 DEF LastHash
      <4> QED
        BY <3>1, <4>1, <1>5, <1>6
    <3>2. CASE i # Len(queue) + 1
      BY <3>2, <1>2, <1>5 DEF IInv, QueueChained
    <3> QED
      BY <3>1, <3>2
  <2>2. Extends(queue'[1], config'.hash)
    <3>1. CASE queue = <<>>
      BY <3>1, <1>5, <1>6 DEF Pack, LastHash
    <3>2. CASE queue # <<>>
      BY <3>2, <1>2, <1>5 DEF Pack, IInv, QueueChained
    <3> QED
      BY <3>1, <3>2
  <2> QED
    BY <2>1, <2>2 DEF QueueChained, Extends, Applies
<1>9. AtIdle'
  <2>1. failed => queue'[1] = queue[1]
    BY <1>2, <1>5 DEF Pack, IInv, AtIdle
  <2>2. BeforeWrite'
    <3>1. CASE failed
      BY SMTT(30), <2>1, <3>1 DEF Pack, IInv, AtIdle, BeforeWrite, Partial, PagesOf,
         LogHolds, CfgLogHolds
    <3>2. CASE ~failed
      BY <3>2 DEF Pack, IInv, AtIdle, BeforeWrite, Intact
    <3> QED
      BY <3>1, <3>2
  <2>3. (config.flag = BEGIN)' => RedoReady' /\ (cfgLog.hash = config.hash)'
    BY DEF Pack, IInv, AtIdle, RedoReady, Replayed
  <2> QED
    BY <1>5, <2>2, <2>3 DEF AtIdle
<1> QED
  BY <1>7, <1>8, <1>9 DEF Pack, IInv, AtSaving, AtPages, AtConfig, AtDown, AtRedo, Saving

\* SaveToLog: one more page of the front block is in the log.
LEMMA EncodePageIInv == IInv /\ EncodePage => IInv'
<1> SUFFICES ASSUME IInv, EncodePage PROVE IInv'
  OBVIOUS
<1> USE DEF Saving
<1>1. /\ queue # <<>> /\ pc' = "log" /\ queue' = queue
      /\ log.count = Len(queue[1].pkg) /\ log.count \in 0..Cardinality(Pages)
      /\ k \in 1..Len(queue[1].pkg)
      /\ queue[1].pkg[k] \in Entry
      /\ log.pages \in [Slots -> Entry \cup {Blank}]
      /\ Cardinality(Pages) \in Nat
  BY FrontFacts DEF EncodePage, IInv, AtSaving, TypeOK
<1>2. /\ log'.count = log.count
      /\ log'.pages[k] = queue[1].pkg[k]
      /\ \A i \in Slots : i # k => log'.pages[i] = log.pages[i]
      /\ log'.pages \in [Slots -> Entry \cup {Blank}]
      /\ Len(queue[1].pkg) <= Cardinality(Pages)
  BY <1>1 DEF EncodePage, Slots, IInv, TypeOK
<1>3. TypeOK'
  <2>1. log' \in [count : 0..Cardinality(Pages), pages : [Slots -> Entry \cup {Blank}]]
    BY <1>1, <1>2 DEF EncodePage, IInv, TypeOK
  <2> QED
    BY SMTT(30), <1>1, <2>1 DEF EncodePage, IInv, TypeOK
<1>4. QueueChained'
  BY ChainKept DEF IInv, EncodePage
<1>5. AtSaving'
  <2>1. BeforeWrite'
    <3>1. CASE failed
      <4>1. LogHolds'
        BY <3>1, <1>1, <1>2 DEF Slots, IInv, AtSaving, BeforeWrite, LogHolds, EncodePage
      <4> QED
        BY <3>1, <1>1, <4>1 DEF EncodePage, IInv, AtSaving, BeforeWrite, Partial,
           PagesOf, CfgLogHolds
    <3>2. CASE ~failed
      BY <3>2, <1>1 DEF EncodePage, IInv, AtSaving, BeforeWrite, Intact
    <3> QED
      BY <3>1, <3>2
  <2>2. \A i \in 1..(k' - 1) : log'.pages[i] = queue'[1].pkg[i]
    BY <1>1, <1>2 DEF EncodePage, IInv, AtSaving, Slots
  <2> QED
    BY <1>1, <1>2, <2>1, <2>2 DEF EncodePage, AtSaving
<1> QED
  BY <1>1, <1>3, <1>4, <1>5 DEF IInv, AtIdle, AtPages, AtConfig, AtDown, AtRedo

\* The config log gets the front block's id.
LEMMA LogBlockIDIInv == IInv /\ LogBlockID => IInv'
<1> SUFFICES ASSUME IInv, LogBlockID PROVE IInv'
  OBVIOUS
<1> USE DEF Saving
<1>1. /\ queue # <<>> /\ pc' = "cfglog" /\ queue' = queue
      /\ queue[1].hash.height \in Nat
      /\ LogHolds
  <2>1. /\ queue # <<>> /\ pc' = "cfglog" /\ queue' = queue /\ k > Len(queue[1].pkg)
        /\ k \in Nat /\ Len(queue[1].pkg) \in Nat /\ log.count = Len(queue[1].pkg)
        /\ queue[1].hash.height \in Nat
    BY FrontFacts DEF LogBlockID, IInv, TypeOK
  <2>2. \A i \in 1..(k - 1) : log.pages[i] = queue[1].pkg[i]
    BY DEF LogBlockID, IInv, AtSaving
  <2> QED
    BY <2>1, <2>2 DEF LogHolds
<1>2. /\ cfgLog' = [blockID |-> queue[1].hash.height, hash |-> cfgLog.hash]
      /\ cfgLog' \in [blockID : Nat, hash : Hash]
  BY <1>1 DEF LogBlockID, IInv, TypeOK
<1>3. TypeOK'
  <2>1. pc' \in PCs
    BY <1>1 DEF PCs
  <2> QED
    BY <1>2, <2>1 DEF LogBlockID, IInv, TypeOK
<1>4. QueueChained'
  BY ChainKept DEF IInv, LogBlockID
<1>5. AtSaving'
  <2>1. BeforeWrite'
    <3>1. failed => CfgLogHolds'
      <4>1. failed => cfgLog.hash = queue[1].hash
        BY DEF LogBlockID, IInv, AtSaving, BeforeWrite, CfgLogHolds
      <4> QED
        BY <1>1, <1>2, <4>1 DEF CfgLogHolds
    <3> QED
      BY <1>1, <3>1 DEF LogBlockID, IInv, AtSaving, BeforeWrite, Partial, Intact,
         LogHolds, PagesOf
  <2> QED
    <3>1. LogHolds' /\ log'.count = Len(queue'[1].pkg) /\ cfgLog'.blockID = queue'[1].hash.height
      BY <1>1, <1>2 DEF LogBlockID, LogHolds
    <3> QED
      BY <1>1, <2>1, <3>1 DEF LogBlockID, AtSaving
<1> QED
  BY <1>1, <1>3, <1>4, <1>5 DEF IInv, AtIdle, AtPages, AtConfig, AtDown, AtRedo

\* The config log gets the front block's hash and is complete.
LEMMA LogBlockHashIInv == IInv /\ LogBlockHash => IInv'
<1> SUFFICES ASSUME IInv, LogBlockHash PROVE IInv'
  OBVIOUS
<1> USE DEF Saving
<1>1. /\ queue # <<>> /\ pc' = "begin" /\ queue' = queue
      /\ queue[1].hash \in Hash
      /\ LogHolds /\ cfgLog.blockID = queue[1].hash.height
  BY FrontFacts DEF LogBlockHash, IInv, AtSaving
<1>2. cfgLog' = [blockID |-> queue[1].hash.height, hash |-> queue[1].hash]
  BY <1>1 DEF LogBlockHash, IInv, TypeOK
<1>3. TypeOK'
  <2>1. cfgLog' \in [blockID : Nat, hash : Hash]
    BY <1>1, <1>2, QueueType DEF IInv
  <2> QED
    BY <2>1 DEF LogBlockHash, IInv, TypeOK, PCs
<1>4. QueueChained'
  BY ChainKept DEF IInv, LogBlockHash
<1>5. AtSaving'
  <2>1. BeforeWrite'
    <3>1. failed => CfgLogHolds'
      BY <1>1, <1>2 DEF LogBlockHash, CfgLogHolds
    <3> QED
      BY <1>1, <3>1 DEF LogBlockHash, IInv, AtSaving, BeforeWrite, Partial, Intact,
         LogHolds, PagesOf
  <2> QED
    BY <1>1, <1>2, <2>1 DEF LogBlockHash, AtSaving, IInv, LogHolds, CfgLogHolds
<1> QED
  BY <1>1, <1>3, <1>4, <1>5 DEF IInv, AtIdle, AtPages, AtConfig, AtDown, AtRedo

\* The flag is set only when log and config log are complete.
LEMMA BeginModifyIInv == IInv /\ BeginModify => IInv'
<1> SUFFICES ASSUME IInv, BeginModify PROVE IInv'
  OBVIOUS
<1> USE DEF Saving
<1>1. /\ queue # <<>> /\ pc' = "pages" /\ queue' = queue
      /\ LogHolds /\ CfgLogHolds /\ Len(queue[1].pkg) \in Nat
  BY FrontFacts DEF BeginModify, IInv, AtSaving
<1>2. config' = [config EXCEPT !.flag = BEGIN] /\ config'.flag = BEGIN
  BY DEF BeginModify, IInv, TypeOK
<1>3. TypeOK'
  BY <1>2 DEF BeginModify, IInv, TypeOK, PCs
<1>4. QueueChained'
  BY <1>2, ChainKept DEF BeginModify, IInv, TypeOK
<1>5. Partial'
  BY <1>1, <1>2 DEF BeginModify, IInv, TypeOK, AtSaving, BeforeWrite, Intact, Partial, PagesOf
<1>6. AtPages'
  BY <1>1, <1>2, <1>5 DEF BeginModify, AtPages, LogHolds, CfgLogHolds
<1> QED
  BY <1>1, <1>3, <1>4, <1>6 DEF IInv, AtIdle, AtSaving, AtConfig, AtDown, AtRedo

\* Persistence: one more page of the front block is on the device.
LEMMA PersistPageIInv == IInv /\ PersistPage => IInv'
<1> SUFFICES ASSUME IInv, PersistPage PROVE IInv'
  OBVIOUS
<1>1. /\ queue # <<>> /\ pc = "pages" /\ pc' = "pages" /\ queue' = queue
      /\ Len(queue[1].pkg) \in Nat
      /\ k \in 1..Len(queue[1].pkg)
      /\ queue[1].pkg[k].page \in Pages /\ queue[1].pkg[k].content \in Content
      /\ queue[1] \in [hash : Hash, pkg : Package]
      /\ device \in [Pages -> Content]
      /\ device' = [device EXCEPT ![queue[1].pkg[k].page] = queue[1].pkg[k].content]
  BY FrontFacts DEF PersistPage, IInv, AtPages, TypeOK
<1>2. TypeOK'
  <2>1. device' \in [Pages -> Content] /\ k' \in Nat
    BY <1>1 DEF PersistPage
  <2> QED
    BY <2>1 DEF PersistPage, IInv, TypeOK
<1>3. QueueChained'
  BY ChainKept DEF IInv, PersistPage
<1>4. Partial'
  BY <1>1 DEF PersistPage, IInv, AtPages, Partial, PagesOf
<1>5. \A i \in 1..Len(queue[1].pkg) : queue[1].pkg[i].page = queue[1].pkg[k].page => i = k
  BY <1>1, FrontFacts
<1>6. ASSUME NEW i \in 1..(k' - 1)
      PROVE  device'[queue'[1].pkg[i].page] = queue'[1].pkg[i].content
  <2>1. k' = k + 1 /\ i \in 1..k /\ i \in 1..Len(queue[1].pkg)
    BY <1>1 DEF PersistPage
  <2>2. queue[1].pkg[i].page \in Pages
    BY <1>1, <2>1, QueueType DEF IInv
  <2>3. CASE i = k
    BY <1>1, <2>3
  <2>4. CASE i # k
    <3>1. device[queue[1].pkg[i].page] = queue[1].pkg[i].content
      BY <1>1, <2>1, <2>4 DEF IInv, AtPages
    <3>2. queue[1].pkg[i].page # queue[1].pkg[k].page
      BY <1>5, <2>1, <2>4
    <3> QED
      BY <1>1, <2>2, <3>1, <3>2
  <2> QED
    BY <2>3, <2>4
<1>7. AtPages'
  BY <1>1, <1>4, <1>6 DEF PersistPage, IInv, AtPages, LogHolds, CfgLogHolds
<1> QED
  BY <1>1, <1>2, <1>3, <1>7
     DEF IInv, AtIdle, AtSaving, AtConfig, AtDown, AtRedo, Saving

\* With the front block's log complete a restart repairs the device.
LEMMA LogGivesRedo ==
    ASSUME IInv, pc \in {"pages", "config", "end"}
    PROVE  RedoReady
<1>1. /\ LogHolds /\ CfgLogHolds /\ log.count \in Nat
      /\ config.blockID \in Nat
  BY SMTT(30), FrontFacts DEF IInv, AtPages, AtConfig, TypeOK
<1>2. \A p \in Pages \ PagesOf(queue[1].pkg) : cfgLog.hash.table[p] = device[p]
  <2>1. CASE pc = "pages"
    BY <1>1, <2>1, FrontFacts
       DEF IInv, AtPages, Partial, QueueChained, Extends, Applies, CfgLogHolds
  <2>2. CASE pc # "pages"
    BY <1>1, <2>2 DEF IInv, AtConfig, CfgLogHolds
  <2> QED
    BY <2>1, <2>2
<1>3. ASSUME NEW i \in 1..log.count
      PROVE  /\ log.pages[i] = queue[1].pkg[i] /\ log.pages[i] \in Entry
             /\ cfgLog.hash.table[log.pages[i].page] = log.pages[i].content
  <2>1. i \in 1..Len(queue[1].pkg) /\ log.pages[i] = queue[1].pkg[i]
    BY <1>1 DEF LogHolds
  <2>2. queue[1].hash.table[queue[1].pkg[i].page] = queue[1].pkg[i].content
    <3>1. CASE pc # "end"
      BY <2>1, <3>1, FrontFacts DEF IInv, QueueChained, Extends, Applies
    <3>2. CASE pc = "end"
      BY <2>1, <3>2, FrontFacts DEF IInv, AtConfig
    <3> QED
      BY <3>1, <3>2
  <2> QED
    BY <1>1, <2>1, <2>2, FrontFacts DEF CfgLogHolds
<1>4. {log.pages[i].page : i \in 1..log.count} = PagesOf(queue[1].pkg)
  BY <1>1, <1>3 DEF LogHolds, PagesOf
<1>5. Replayed(cfgLog.hash.table)
  BY <1>2, <1>3, <1>4 DEF Replayed
<1>6. cfgLog.blockID \in {config.blockID, config.blockID + 1}
  <2>1. CASE pc = "pages"
    BY <1>1, <2>1, FrontFacts
       DEF IInv, AtPages, Partial, QueueChained, Extends, CfgLogHolds
  <2>2. CASE pc # "pages"
    BY <1>1, <2>2 DEF IInv, AtConfig, CfgLogHolds
  <2> QED
    BY <2>1, <2>2
<1> QED
  BY <1>1, <1>5, <1>6 DEF RedoReady, CfgLogHolds

\* Persistence fails: the device differs only in logged pages.
LEMMA PersistFailIInv == IInv /\ PersistFail => IInv'
<1> SUFFICES ASSUME IInv, PersistFail PROVE IInv'
  OBVIOUS
<1>1. /\ queue # <<>> /\ queue' = queue /\ pc' = "idle" /\ failed' = TRUE
      /\ LogHolds /\ CfgLogHolds /\ Partial
      /\ config' = [config EXCEPT !.flag = END]
      /\ UNCHANGED <<cfgLog, log, device, k>>
  BY DEF PersistFail, IInv, AtPages
<1>2. /\ config'.flag = END /\ config'.hash = config.hash
      /\ config'.blockID = config.blockID /\ END # BEGIN
      /\ config' \in [flag : {BEGIN, END}, blockID : Nat, hash : Hash]
  <2>1. config \in [flag : {BEGIN, END}, blockID : Nat, hash : Hash]
    BY DEF IInv, TypeOK
  <2>2. END # BEGIN
    BY DEF BEGIN, END
  <2> QED
    BY <1>1, <2>1, <2>2
<1>3. TypeOK'
  BY <1>1, <1>2 DEF IInv, TypeOK, PCs
<1>4. QueueChained'
  BY <1>1, <1>2, ChainKept DEF IInv, PersistFail
<1>5. AtIdle'
  BY <1>1, <1>2 DEF AtIdle, BeforeWrite, Partial, PagesOf, LogHolds, CfgLogHolds
<1> QED
  BY <1>1, <1>3, <1>4, <1>5 DEF IInv, AtSaving, AtPages, AtConfig, AtDown, AtRedo, Saving

\* The config gets the block id once all pages are written.
LEMMA SetBlockIDIInv == IInv /\ SetBlockID => IInv'
<1> SUFFICES ASSUME IInv, SetBlockID PROVE IInv'
  OBVIOUS
<1>1. /\ queue # <<>> /\ queue' = queue /\ pc = "pages" /\ pc' = "config"
      /\ LogHolds /\ CfgLogHolds /\ Partial /\ config.flag = BEGIN
      /\ k > Len(queue[1].pkg)
      /\ config' = [config EXCEPT !.blockID = cfgLog.blockID]
      /\ UNCHANGED <<cfgLog, log, device, k, failed>>
  BY DEF SetBlockID, IInv, AtPages
<1>2. /\ config'.flag = BEGIN /\ config'.hash = config.hash
      /\ config'.blockID = queue[1].hash.height
      /\ config' \in [flag : {BEGIN, END}, blockID : Nat, hash : Hash]
  BY <1>1 DEF IInv, TypeOK, CfgLogHolds
<1>3. TypeOK'
  BY <1>1, <1>2 DEF IInv, TypeOK, PCs
<1>4. QueueChained'
  BY <1>1, <1>2, ChainKept DEF IInv
<1>5. \A i \in 1..Len(queue[1].pkg) : device[queue[1].pkg[i].page] = queue[1].pkg[i].content
  <2>1. k \in Nat /\ Len(queue[1].pkg) \in Nat
    BY <1>1, FrontFacts DEF IInv, TypeOK
  <2>2. ASSUME NEW i \in 1..Len(queue[1].pkg) PROVE i \in 1..(k - 1)
    BY <1>1, <2>1
  <2> QED
    BY <1>1, <2>2 DEF IInv, AtPages
<1>6. device = queue[1].hash.table
  <2>1. device \in [Pages -> Content] /\ queue[1].hash.table \in [Pages -> Content]
    BY <1>1, FrontFacts DEF IInv, TypeOK
  <2>2. Applies(queue[1].pkg, config.hash.table, queue[1].hash.table)
    BY <1>1 DEF IInv, QueueChained, Extends
  <2>3. ASSUME NEW p \in Pages PROVE device[p] = queue[1].hash.table[p]
    <3>1. CASE p \in PagesOf(queue[1].pkg)
      BY <1>5, <2>2, <3>1 DEF PagesOf, Applies
    <3>2. CASE p \notin PagesOf(queue[1].pkg)
      BY <1>1, <2>2, <3>2 DEF Partial, Applies
    <3> QED
      BY <3>1, <3>2
  <2> QED
    BY <2>1, <2>3
<1>7. AtConfig'
  BY <1>1, <1>2, <1>5, <1>6 DEF AtConfig, LogHolds, CfgLogHolds
<1> QED
  BY <1>1, <1>3, <1>4, <1>7 DEF IInv, AtIdle, AtSaving, AtPages, AtDown, AtRedo, Saving

\* The config gets the block hash.
LEMMA SetBlockHashIInv == IInv /\ SetBlockHash => IInv'
<1> SUFFICES ASSUME IInv, SetBlockHash PROVE IInv'
  OBVIOUS
<1>1. /\ AtConfig /\ pc = "config" /\ pc' = "end"
      /\ config' = [config EXCEPT !.hash = cfgLog.hash]
      /\ UNCHANGED <<queue, cfgLog, log, device, k, failed>>
  BY DEF SetBlockHash, IInv
<1>2. /\ config'.flag = config.flag /\ config'.blockID = config.blockID
      /\ config'.hash = queue[1].hash
      /\ config' \in [flag : {BEGIN, END}, blockID : Nat, hash : Hash]
  BY <1>1 DEF IInv, TypeOK, AtConfig, CfgLogHolds
<1>3. TypeOK'
  BY <1>1, <1>2 DEF IInv, TypeOK, PCs
<1>4. QueueChained'
  BY <1>1 DEF IInv, QueueChained, Extends, Applies, PagesOf
<1>5. AtConfig'
  BY <1>1, <1>2 DEF AtConfig, LogHolds, CfgLogHolds
<1> QED
  BY <1>1, <1>3, <1>4, <1>5 DEF IInv, AtIdle, AtSaving, AtPages, AtDown, AtRedo, Saving

\* The flag is cleared and the next block extends the config.
LEMMA EndModifyIInv == IInv /\ EndModify => IInv'
<1> SUFFICES ASSUME IInv, EndModify PROVE IInv'
  OBVIOUS
<1>1. /\ AtConfig /\ pc = "end" /\ pc' = "idle" /\ failed' = FALSE
      /\ queue # <<>> /\ queue' = Tail(queue)
      /\ config' = [config EXCEPT !.flag = END]
      /\ UNCHANGED <<cfgLog, log, device, k>>
  BY DEF EndModify, IInv, AtConfig
<1>2. /\ config'.flag = END /\ END # BEGIN
      /\ config'.blockID = queue[1].hash.height /\ config'.hash = queue[1].hash
      /\ config' \in [flag : {BEGIN, END}, blockID : Nat, hash : Hash]
  BY SMTT(30), <1>1 DEF IInv, TypeOK, AtConfig, BEGIN, END
<1>3. /\ queue' \in Seq([hash : Hash, pkg : Package])
      /\ Len(queue) \in Nat \ {0} /\ Len(queue') = Len(queue) - 1
      /\ \A i \in 1..(Len(queue) - 1) : queue'[i] = queue[i+1]
  BY <1>1, HeadOfSeq DEF IInv, TypeOK
<1>4. TypeOK'
  BY <1>1, <1>2, <1>3 DEF IInv, TypeOK, PCs
<1>5. QueueChained'
  <2>1. ASSUME NEW i \in 2..Len(queue) PROVE Extends(queue[i], queue[i-1].hash)
    BY <1>1 DEF IInv, QueueChained
  <2>2. ASSUME NEW i \in 2..Len(queue') PROVE Extends(queue'[i], queue'[i-1].hash)
    <3>1. i + 1 \in 2..Len(queue) /\ i \in 1..(Len(queue) - 1) /\ i - 1 \in 1..(Len(queue) - 1)
      BY <1>3
    <3>2. queue'[i] = queue[i+1] /\ queue'[i-1] = queue[i] /\ (i + 1) - 1 = i
      BY <1>3, <3>1
    <3> QED
      BY <2>1, <3>1, <3>2
  <2>3. queue' # <<>> => Extends(queue'[1], config'.hash)
    <3>1. ASSUME queue' # <<>> PROVE 2 \in 2..Len(queue) /\ 1 \in 1..(Len(queue) - 1)
      BY <1>3, <3>1
    <3>2. ASSUME queue' # <<>> PROVE queue'[1] = queue[2]
      BY <1>3, <3>1, <3>2
    <3> QED
      BY <1>2, <2>1, <3>1, <3>2
  <2> QED
    BY <2>2, <2>3 DEF QueueChained, Extends, Applies, PagesOf
<1>6. AtIdle'
  BY <1>1, <1>2 DEF AtIdle, AtConfig, BeforeWrite, Intact
<1> QED
  BY <1>1, <1>4, <1>5, <1>6 DEF IInv, AtSaving, AtPages, AtConfig, AtDown, AtRedo, Saving

\* A crash outside the unprotected windows leaves enough to restart.
LEMMA CrashIInv == Protected /\ IInv /\ Crash => IInv'
<1> SUFFICES ASSUME Protected, IInv, Crash PROVE IInv'
  OBVIOUS
<1>1. /\ pc # "down" /\ pc' = "down" /\ queue' = <<>> /\ ~failed'
      /\ UNCHANGED <<config, cfgLog, log, device, k>>
      /\ ~StaleFlag /\ ~TornUnflagged
  BY DEF Crash, Protected
<1>2. TypeOK'
  <2>1. \A S : <<>> \in Seq(S)
    OBVIOUS
  <2>2. queue' \in Seq([hash : Hash, pkg : Package]) /\ pc' \in PCs /\ failed' \in BOOLEAN
    BY <1>1, <2>1 DEF PCs, Crash
  <2> QED
    BY <1>1, <2>2 DEF IInv, TypeOK
<1>3. QueueChained'
  BY <1>1 DEF QueueChained
<1>4. config.flag \in {BEGIN, END} /\ BEGIN # END /\ pc \in PCs
  BY DEF IInv, TypeOK, BEGIN, END
<1>5. (config.flag = BEGIN => RedoReady) /\ (config.flag = END => Intact)
  <2>1. CASE pc = "idle"
    BY <1>1, <1>4, <2>1 DEF IInv, AtIdle, BeforeWrite, TornUnflagged
  <2>2. CASE pc \in Saving
    BY <1>1, <1>4, <2>2 DEF IInv, AtSaving, BeforeWrite, TornUnflagged, StaleFlag
  <2>3. CASE pc \in {"pages", "config", "end"}
    BY <1>4, <2>3, LogGivesRedo DEF IInv, AtPages, AtConfig
  <2>4. CASE pc \in {"redo", "redocfg"}
    BY <1>4, <2>4 DEF IInv, AtRedo
  <2> QED
    BY <1>1, <1>4, <2>1, <2>2, <2>3, <2>4 DEF PCs
<1>6. AtDown'
  BY <1>1, <1>5 DEF AtDown, RedoReady, Replayed, Intact
<1> QED
  BY <1>1, <1>2, <1>3, <1>6 DEF IInv, AtIdle, AtSaving, AtPages, AtConfig, AtRedo, Saving

\* OnInit: the flag tells whether the device needs the log.
LEMMA RestartIInv == IInv /\ Restart => IInv'
<1> SUFFICES ASSUME IInv, Restart PROVE IInv'
  OBVIOUS
<1>1. /\ queue = <<>> /\ ~failed
      /\ pc' = IF config.flag = BEGIN THEN "redo" ELSE "idle"
      /\ k' = 1
      /\ UNCHANGED <<queue, config, cfgLog, log, device, failed>>
      /\ config.flag = BEGIN => RedoReady
      /\ config.flag = END => Intact
  BY DEF Restart, IInv, AtDown
<1>2. TypeOK'
  BY <1>1 DEF IInv, TypeOK, PCs
<1>3. QueueChained'
  BY <1>1 DEF QueueChained
<1>4. config.flag \in {BEGIN, END} /\ log.count \in Nat
  BY PersistAssumption, FS_CardinalityType DEF IInv, TypeOK
<1>5. CASE config.flag = BEGIN
  <2>1. AtRedo'
    BY <1>1, <1>4, <1>5 DEF AtRedo, RedoReady, Replayed
  <2> QED
    BY <1>1, <1>2, <1>3, <1>5, <2>1
       DEF IInv, AtIdle, AtSaving, AtPages, AtConfig, AtDown, Saving
<1>6. CASE config.flag # BEGIN
  <2>1. AtIdle'
    BY <1>1, <1>4, <1>6 DEF AtIdle, BeforeWrite, Intact
  <2> QED
    BY <1>1, <1>2, <1>3, <1>6, <2>1
       DEF IInv, AtRedo, AtSaving, AtPages, AtConfig, AtDown, Saving
<1> QED
  BY <1>5, <1>6

\* RedoByLog: one more logged page is on the device.
LEMMA RedoPageIInv == IInv /\ RedoPage => IInv'
<1> SUFFICES ASSUME IInv, RedoPage PROVE IInv'
  OBVIOUS
<1> DEFINE p == log.pages[k].page
           c == log.pages[k].content
<1>1. /\ pc = "redo" /\ pc' = "redo" /\ queue = <<>> /\ queue' = <<>> /\ ~failed
      /\ config.flag = BEGIN /\ RedoReady
      /\ k \in 1..log.count /\ log.count \in Nat /\ k' = k + 1
      /\ log.pages[k] \in Entry
      /\ device' = [device EXCEPT ![p] = c]
      /\ UNCHANGED <<queue, config, cfgLog, log, failed>>
  BY PersistAssumption, FS_CardinalityType DEF RedoPage, IInv, AtRedo, TypeOK
<1>2. /\ p \in Pages /\ c \in Content
      /\ device' \in [Pages -> Content] /\ device'[p] = c
      /\ \A q \in Pages : q # p => device'[q] = device[q]
  BY <1>1 DEF Entry, IInv, TypeOK
<1>3. TypeOK'
  BY <1>1, <1>2 DEF IInv, TypeOK
<1>4. cfgLog.hash.table[p] = c
  BY <1>1 DEF RedoReady, Replayed
<1>5. RedoReady'
  BY <1>1, <1>2 DEF RedoReady, Replayed
<1>6. ASSUME NEW i \in 1..(k' - 1)
      PROVE  device'[log'.pages[i].page] = log'.pages[i].content
  <2>1. /\ i \in 1..log.count /\ log.pages[i].page \in Pages
        /\ cfgLog.hash.table[log.pages[i].page] = log.pages[i].content
    BY <1>1 DEF RedoReady, Replayed, Entry
  <2>2. CASE log.pages[i].page = p
    BY <1>1, <1>2, <1>4, <2>1, <2>2
  <2>3. CASE log.pages[i].page # p
    <3>1. i \in 1..(k - 1)
      BY <1>1, <2>3
    <3> QED
      BY <1>1, <1>2, <2>1, <2>3, <3>1 DEF IInv, AtRedo
  <2> QED
    BY <2>2, <2>3
<1>7. AtRedo'
  BY <1>1, <1>5, <1>6 DEF AtRedo
<1> QED
  BY <1>1, <1>3, <1>7
     DEF IInv, QueueChained, AtIdle, AtSaving, AtPages, AtConfig, AtDown, Saving

\* RedoByLog fails: the next restart can still replay the log.
LEMMA RedoFailIInv == IInv /\ RedoFail => IInv'
<1> SUFFICES ASSUME IInv, RedoFail PROVE IInv'
  OBVIOUS
<1>1. /\ pc' = "down" /\ queue = <<>> /\ ~failed
      /\ config.flag = BEGIN /\ BEGIN # END /\ RedoReady
      /\ UNCHANGED <<queue, config, cfgLog, log, device, k, failed>>
  BY DEF RedoFail, IInv, AtRedo, BEGIN, END
<1>2. TypeOK'
  BY <1>1 DEF IInv, TypeOK, PCs
<1>3. AtDown'
  BY <1>1 DEF AtDown, RedoReady, Replayed
<1> QED
  BY <1>1, <1>2, <1>3
     DEF IInv, QueueChained, AtIdle, AtSaving, AtPages, AtConfig, AtRedo, Saving

\* A log that is replayed to its end leaves the block of the config log.
LEMMA ReplayComplete ==
    ASSUME IInv, pc = "redo", k > log.count
    PROVE  device = cfgLog.hash.table
<1>1. /\ Replayed(cfgLog.hash.table) /\ k \in 1..(log.count + 1) /\ log.count \in Nat
      /\ \A i \in 1..(k - 1) : device[log.pages[i].page] = log.pages[i].content
  BY PersistAssumption, FS_CardinalityType DEF IInv, AtRedo, RedoReady, TypeOK
<1>2. device \in [Pages -> Content] /\ cfgLog.hash.table \in [Pages -> Content]
  <2>1. cfgLog.hash \in Hash
    BY DEF IInv, TypeOK
  <2> QED
    BY <2>1 DEF Hash, IInv, TypeOK
<1>3. ASSUME NEW p \in Pages PROVE device[p] = cfgLog.hash.table[p]
  <2>1. CASE \E i \in 1..log.count : log.pages[i].page = p
    <3>1. PICK i \in 1..log.count : log.pages[i].page = p
      BY <2>1
    <3>2. i \in 1..(k - 1)
      BY <1>1
    <3> QED
      BY <1>1, <3>1, <3>2 DEF Replayed
  <2>2. CASE ~ \E i \in 1..log.count : log.pages[i].page = p
    BY <1>1, <2>2 DEF Replayed
  <2> QED
    BY <2>1, <2>2
<1> QED
  BY <1>2, <1>3

\* OnInit takes the block id of the config log after the last page.
LEMMA RedoBlockIDIInv == IInv /\ RedoBlockID => IInv'
<1> SUFFICES ASSUME IInv, RedoBlockID PROVE IInv'
  OBVIOUS
<1>1. /\ pc' = "redocfg" /\ queue = <<>> /\ ~failed
      /\ config.flag = BEGIN /\ RedoReady
      /\ config' = [config EXCEPT !.blockID = cfgLog.blockID]
      /\ UNCHANGED <<queue, cfgLog, log, device, k, failed>>
  BY DEF RedoBlockID, IInv, AtRedo
<1>2. device = cfgLog.hash.table
  BY ReplayComplete DEF RedoBlockID
<1>3. /\ config'.flag = BEGIN /\ config'.blockID = cfgLog.blockID
      /\ config' \in [flag : {BEGIN, END}, blockID : Nat, hash : Hash]
  BY <1>1 DEF IInv, TypeOK
<1>4. TypeOK'
  BY <1>1, <1>3 DEF IInv, TypeOK, PCs
<1>5. AtRedo'
  BY <1>1, <1>2, <1>3 DEF AtRedo, RedoReady, Replayed
<1> QED
  BY <1>1, <1>4, <1>5
     DEF IInv, QueueChained, AtIdle, AtSaving, AtPages, AtConfig, AtDown, Saving

\* OnInit takes the hash and leaves the flag set.
LEMMA RedoBlockHashIInv == IInv /\ RedoBlockHash => IInv'
<1> SUFFICES ASSUME IInv, RedoBlockHash PROVE IInv'
  OBVIOUS
<1>1. /\ pc' = "idle" /\ queue = <<>> /\ ~failed
      /\ RedoReady /\ device = cfgLog.hash.table /\ config.blockID = cfgLog.blockID
      /\ config' = [config EXCEPT !.hash = cfgLog.hash, !.flag = BEGIN]
      /\ UNCHANGED <<queue, cfgLog, log, device, k, failed>>
  BY DEF RedoBlockHash, IInv, AtRedo
<1>2. /\ config'.hash = cfgLog.hash /\ config'.blockID = cfgLog.blockID
      /\ config' \in [flag : {BEGIN, END}, blockID : Nat, hash : Hash]
  BY <1>1 DEF IInv, TypeOK
<1>3. TypeOK'
  BY <1>1, <1>2 DEF IInv, TypeOK, PCs
<1>4. AtIdle'
  BY <1>1, <1>2 DEF AtIdle, BeforeWrite, Intact, RedoReady, Replayed
<1> QED
  BY <1>1, <1>3, <1>4
     DEF IInv, QueueChained, AtSaving, AtPages, AtConfig, AtDown, AtRedo, Saving
-----------------------------------------------------------------------------
\* Every step outside the unprotected windows keeps the invariant.
THEOREM StepIInv == Protected /\ IInv /\ [Next]_vars => IInv'
<1> SUFFICES ASSUME Protected, IInv, [Next]_vars PROVE IInv'
  OBVIOUS
<1>1. CASE \E pkg \in Package : Pack(pkg)
  BY <1>1, PackIInv
<1>2. CASE Persist
  BY <1>2, SaveToLogIInv, EncodePageIInv, LogBlockIDIInv, LogBlockHashIInv,
     BeginModifyIInv, PersistPageIInv, PersistFailIInv, SetBlockIDIInv,
     SetBlockHashIInv, EndModifyIInv DEF Persist
<1>3. CASE Crash
  BY <1>3, CrashIInv
<1>4. CASE Recover
  BY <1>4, RestartIInv, RedoPageIInv, RedoFailIInv, RedoBlockIDIInv,
     RedoBlockHashIInv DEF Recover
<1>5. CASE UNCHANGED vars
  <2>1. TypeOK'
    BY <1>5 DEF vars, IInv, TypeOK
  <2>7. QueueChained'
    <3>1. queue' = queue /\ config' = config /\ pc' = pc
      BY <1>5 DEF vars
    <3> QED
      BY <1>5, <3>1, ChainKept DEF IInv
  <2>2. AtIdle'
    BY <1>5 DEF vars, IInv, AtIdle, BeforeWrite, Intact, Partial, PagesOf,
       LogHolds, CfgLogHolds, RedoReady, Replayed
  <2>3. AtSaving'
    BY <1>5 DEF vars, IInv, AtSaving, BeforeWrite, Intact, Partial, PagesOf,
       LogHolds, CfgLogHolds
  <2>4. AtPages'
    BY <1>5 DEF vars, IInv, AtPages, Partial, PagesOf, LogHolds, CfgLogHolds
  <2>5. AtConfig'
    BY <1>5 DEF vars, IInv, AtConfig, LogHolds, CfgLogHolds
  <2>6. AtDown' /\ AtRedo'
    BY SMTT(30), <1>5 DEF vars, IInv, AtDown, AtRedo, Intact, RedoReady, Replayed
  <2> QED
    BY <2>1, <2>2, <2>3, <2>4, <2>5, <2>6, <2>7 DEF IInv
<1> QED
  BY <1>1, <1>2, <1>3, <1>4, <1>5 DEF Next

\* IInv holds of every reachable state of PersistentBlockQueueHeader and
\* OnInit when no crash falls into an unprotected window.
THEOREM InductiveInvariant == Protected /\ Spec => []IInv
<1> SUFFICES ASSUME Protected PROVE Spec => []IInv
  OBVIOUS
<1> QED
  BY InitIInv, StepIInv, PTL DEF Spec
-----------------------------------------------------------------------------
\* Every variable keeps its type (PersistentBlockQueueHeader, OnInit).
THEOREM TypeCorrect == Protected /\ Spec => []TypeOK
<1> SUFFICES ASSUME Protected PROVE Spec => []TypeOK
  OBVIOUS
<1>1. IInv => TypeOK
  BY DEF IInv
<1> QED
  BY <1>1, InductiveInvariant, PTL

\* However many crashes and failed writes came before, an idle node without
\* an outstanding failed write has config and device of one block.
THEOREM CrashSafety == Protected /\ Spec => []CrashConsistent
<1> SUFFICES ASSUME Protected PROVE Spec => []CrashConsistent
  OBVIOUS
<1>1. IInv => CrashConsistent
  BY DEF IInv, AtIdle, BeforeWrite, Intact, CrashConsistent
<1> QED
  BY <1>1, InductiveInvariant, PTL

\* The files a dead node leaves behind are enough to restart from.
THEOREM RecoverySafety == Protected /\ Spec => []Recoverable
<1> SUFFICES ASSUME Protected PROVE Spec => []Recoverable
  OBVIOUS
<1>1. IInv => Recoverable
  <2> SUFFICES ASSUME IInv, pc = "down" PROVE Recoverable
    BY DEF Recoverable
  <2>1. config.flag \in {BEGIN, END}
    BY DEF IInv, TypeOK
  <2> QED
    BY <2>1 DEF IInv, AtDown, RedoReady, Intact, Recoverable
<1> QED
  BY <1>1, InductiveInvariant, PTL

\* No step takes the height back or over a block.
THEOREM HeightSafety == Protected /\ Spec => HeightAdvancesByOne
<1> SUFFICES ASSUME Protected PROVE Spec => HeightAdvancesByOne
  OBVIOUS
<1>1. IInv /\ [Next]_vars => [config.blockID' \in {config.blockID, config.blockID + 1}]_vars
  <2> SUFFICES ASSUME IInv, Next
               PROVE  config'.blockID \in {config.blockID, config.blockID + 1}
    OBVIOUS
  <2>1. config \in [flag : {BEGIN, END}, blockID : Nat, hash : Hash]
    BY DEF IInv, TypeOK
  <2>2. CASE SetBlockID
    <3>1. pc = "pages" /\ config'.blockID = cfgLog.blockID
      BY <2>1, <2>2 DEF SetBlockID
    <3> QED
      BY <3>1, LogGivesRedo DEF RedoReady
  <2>3. CASE RedoBlockID
    <3>1. pc = "redo" /\ config'.blockID = cfgLog.blockID
      BY <2>1, <2>3 DEF RedoBlockID
    <3> QED
      BY <3>1 DEF IInv, AtRedo, RedoReady
  <2>4. CASE ~SetBlockID /\ ~RedoBlockID
    <3>1. config'.blockID = config.blockID
      BY <2>1, <2>4 DEF Next, Persist, Recover, Crash, Pack, SaveToLog, EncodePage,
         LogBlockID, LogBlockHash, BeginModify, PersistPage, PersistFail,
         SetBlockHash, EndModify, Restart, RedoPage, RedoFail, RedoBlockHash
    <3> QED
      BY <3>1
  <2> QED
    BY <2>2, <2>3, <2>4
<1> QED
  BY <1>1, InductiveInvariant, PTL DEF Spec, HeightAdvancesByOne
-----------------------------------------------------------------------------
(* The refinement *)

\* While the log decides, a restart ends with the block of the config log.
LEMMA RestartByLog ==
    ASSUME IInv, LogDecides
    PROVE  /\ RestartHeight = cfgLog.blockID /\ cfgLog.blockID = cfgLog.hash.height
           /\ RestartTable = cfgLog.hash.table
<1>1. RedoReady
  <2>1. CASE pc \in {"pages", "config", "end"}
    BY <2>1, LogGivesRedo
  <2>2. CASE pc \in {"redo", "redocfg"}
    BY <2>2 DEF IInv, AtRedo
  <2>3. CASE pc = "down"
    BY <2>3 DEF IInv, AtDown, LogDecides
  <2>4. CASE pc \in Saving \cup {"idle"} /\ failed
    <3>1. /\ queue # <<>> /\ LogHolds /\ CfgLogHolds /\ Partial /\ pc # "end"
      BY <2>4 DEF IInv, AtIdle, AtSaving, BeforeWrite, Saving
    <3>2. Extends(queue[1], config.hash)
      BY <3>1 DEF IInv, QueueChained
    <3>3. /\ \A i \in 1..Len(queue[1].pkg) : queue[1].pkg[i] \in Entry
          /\ queue[1].hash.height \in Nat
      BY <3>1, QueueType DEF IInv
    <3>4. {log.pages[i].page : i \in 1..log.count} = PagesOf(queue[1].pkg)
      BY <3>1 DEF LogHolds, PagesOf
    <3>5. Replayed(cfgLog.hash.table)
      BY <3>1, <3>2, <3>3, <3>4
         DEF Replayed, LogHolds, CfgLogHolds, Partial, Extends, Applies
    <3> QED
      BY <3>1, <3>2, <3>3, <3>5 DEF RedoReady, CfgLogHolds, Partial, Extends
  <2>5. CASE pc = "idle" /\ ~failed
    BY <2>5 DEF IInv, AtIdle, LogDecides
  <2> QED
    BY <2>1, <2>2, <2>3, <2>4, <2>5 DEF IInv, TypeOK, PCs, LogDecides
<1>2. cfgLog.hash.table \in [Pages -> Content]
  BY DEF IInv, TypeOK, Hash
<1>3. ASSUME NEW p \in Pages PROVE RestartTable[p] = cfgLog.hash.table[p]
  <2>1. CASE \E i \in 1..log.count : log.pages[i].page = p
    <3> DEFINE j == CHOOSE i \in 1..log.count : log.pages[i].page = p
    <3>1. j \in 1..log.count /\ log.pages[j].page = p
      BY <2>1
    <3>2. RestartTable[p] = log.pages[j].content
      BY <2>1 DEF RestartTable
    <3> HIDE DEF j
    <3> QED
      BY <1>1, <3>1, <3>2 DEF RedoReady, Replayed
  <2>2. CASE ~ \E i \in 1..log.count : log.pages[i].page = p
    BY <1>1, <2>2 DEF RedoReady, Replayed, RestartTable
  <2> QED
    BY <2>1, <2>2
<1>4. RestartTable = cfgLog.hash.table
  BY <1>2, <1>3 DEF RestartTable
<1> QED
  BY <1>1, <1>4 DEF RestartHeight, RedoReady

\* Otherwise the config and the device are what a restart finds.
LEMMA RestartByConfig ==
    ASSUME IInv, ~LogDecides
    PROVE  /\ RestartHeight = config.blockID /\ config.blockID = config.hash.height
           /\ RestartTable = config.hash.table
           /\ ~failed /\ pc \in Saving \cup {"idle", "down"}
<1>1. ~failed /\ pc \in Saving \cup {"idle", "down"}
  BY DEF IInv, TypeOK, PCs, LogDecides, AtPages, AtConfig, AtRedo, Saving
<1>2. Intact
  <2>1. CASE pc = "down"
    BY <2>1 DEF IInv, AtDown, TypeOK, LogDecides, Saving
  <2>2. CASE pc # "down"
    BY <1>1, <2>2 DEF IInv, AtIdle, AtSaving, BeforeWrite
  <2> QED
    BY <2>1, <2>2
<1>3. RestartTable = device
  BY DEF RestartTable, IInv, TypeOK
<1> QED
  BY <1>1, <1>2, <1>3 DEF RestartHeight, Intact

\* The block a restart would find: what the abstract variables are.
Found == IF LogDecides THEN cfgLog.hash ELSE config.hash

\* What a restart finds is the table and height of one block: that of the
\* config log while the log decides, else that of the config.
LEMMA RestartFindsBlock ==
    IInv => /\ Found \in Hash
            /\ RestartHeight = Found.height
            /\ RestartTable = Found.table
<1> SUFFICES ASSUME IInv
             PROVE  /\ Found \in Hash
                    /\ RestartHeight = Found.height
                    /\ RestartTable = Found.table
  OBVIOUS
<1>1. config.hash \in Hash /\ cfgLog.hash \in Hash
  BY DEF IInv, TypeOK
<1> QED
  BY <1>1, RestartByLog, RestartByConfig DEF Found

\* Setting the flag for the first time is the commit; nothing else changes
\* what a restart would find.
LEMMA StepFound ==
    ASSUME Protected, IInv, [Next]_vars
    PROVE  \/ Found' = Found
           \/ Found'.height = Found.height + 1
<1> USE DEF Saving
<1>1. CASE BeginModify
  <2>1. /\ pc = "begin" /\ pc' = "pages" /\ cfgLog' = cfgLog /\ failed' = failed
        /\ cfgLog.hash = queue[1].hash
        /\ config'.flag = BEGIN
        /\ queue # <<>>
    BY <1>1 DEF BeginModify, IInv, AtSaving, CfgLogHolds, TypeOK
  <2>2. Found' = cfgLog.hash
    BY <2>1 DEF Found, LogDecides
  <2>3. CASE failed
    BY <2>1, <2>2, <2>3 DEF Found, LogDecides
  <2>4. CASE ~failed
    <3>1. Found = config.hash
      BY <2>1, <2>4 DEF Found, LogDecides
    <3>2. queue[1].hash.height = config.hash.height + 1
      BY <2>1 DEF IInv, QueueChained, Extends
    <3> QED
      BY <2>1, <2>2, <3>1, <3>2
  <2> QED
    BY <2>3, <2>4
<1>2. CASE SaveToLog
  BY <1>2 DEF SaveToLog, IInv, AtIdle, Found, LogDecides
<1>3. CASE EncodePage
  BY <1>3 DEF EncodePage, Found, LogDecides
<1>4. CASE LogBlockID
  BY <1>4 DEF LogBlockID, IInv, AtSaving, BeforeWrite, CfgLogHolds, Found, LogDecides, TypeOK
<1>5. CASE LogBlockHash
  BY <1>5 DEF LogBlockHash, IInv, AtSaving, BeforeWrite, CfgLogHolds, Found, LogDecides, TypeOK
<1>6. CASE PersistPage \/ RedoPage \/ RedoFail
  BY <1>6 DEF PersistPage, RedoPage, RedoFail, IInv, AtRedo, Found, LogDecides
<1>7. CASE PersistFail
  BY <1>7 DEF PersistFail, IInv, AtPages, Found, LogDecides, TypeOK
<1>8. CASE SetBlockID
  BY <1>8 DEF SetBlockID, IInv, AtPages, Found, LogDecides, TypeOK
<1>9. CASE SetBlockHash
  BY <1>9 DEF SetBlockHash, IInv, AtConfig, Found, LogDecides, TypeOK
<1>10. CASE EndModify
  <2>1. cfgLog.hash = config.hash /\ config.flag = BEGIN /\ pc = "end"
    BY <1>10 DEF EndModify, IInv, AtConfig, CfgLogHolds
  <2>2. cfgLog' = cfgLog /\ config'.hash = config.hash
    BY <1>10 DEF EndModify, IInv, TypeOK
  <2> QED
    BY <2>1, <2>2 DEF Found
<1>11. CASE Crash
  <2>1. /\ pc' = "down" /\ ~failed' /\ config' = config /\ cfgLog' = cfgLog
        /\ ~StaleFlag /\ ~TornUnflagged
    BY <1>11 DEF Crash, Protected
  <2> QED
    BY <2>1 DEF IInv, TypeOK, Found, LogDecides, StaleFlag, TornUnflagged, BEGIN, END
<1>12. CASE Restart
  BY <1>12 DEF Restart, Found, LogDecides
<1>13. CASE RedoBlockID
  BY <1>13 DEF RedoBlockID, IInv, AtRedo, Found, LogDecides, TypeOK
<1>14. CASE RedoBlockHash
  BY <1>14 DEF RedoBlockHash, IInv, AtRedo, Found, LogDecides, TypeOK
<1>15. CASE \E pkg \in Package : Pack(pkg)
  BY <1>15 DEF Pack, Found, LogDecides
<1>16. CASE UNCHANGED vars
  BY <1>16 DEF vars, Found, LogDecides
<1> QED
  BY <1>1, <1>2, <1>3, <1>4, <1>5, <1>6, <1>7, <1>8, <1>9, <1>10, <1>11, <1>12,
     <1>13, <1>14, <1>15, <1>16 DEF Next, Persist, Recover

\* The node with its crashes, failed writes and recoveries implements a table
\* and a height that change together, one block at a time.
THEOREM Refinement == Protected /\ Spec => ImplementsDurableTable
<1> SUFFICES ASSUME Protected PROVE Spec => ImplementsDurableTable
  OBVIOUS
<1>1. Init => DT!Init
  <2> SUFFICES ASSUME Init PROVE DT!Init
    OBVIOUS
  <2>1. ~LogDecides /\ config.blockID = 0
    BY DEF Init, LogDecides, BEGIN, END
  <2> QED
    BY <2>1 DEF Init, DT!Init, RestartHeight, RestartTable
<1>2. Protected /\ IInv /\ IInv' /\ [Next]_vars => [DT!Commit]_(DT!vars)
  <2> SUFFICES ASSUME IInv, IInv', [Next]_vars
               PROVE  DT!Commit \/ UNCHANGED DT!vars
    OBVIOUS
  <2>1. RestartHeight = Found.height /\ RestartTable = Found.table
    BY RestartFindsBlock
  <2>2. (IInv => Found \in Hash /\ RestartHeight = Found.height /\ RestartTable = Found.table)'
    BY RestartFindsBlock, PTL
  <2>3. /\ RestartHeight' = Found'.height /\ RestartTable' = Found'.table
        /\ Found'.table \in [Pages -> Content]
    BY <2>2 DEF Hash
  <2>4. CASE Found' = Found
    BY <2>1, <2>3, <2>4 DEF DT!vars
  <2>5. CASE Found'.height = Found.height + 1
    BY <2>1, <2>3, <2>5 DEF DT!Commit
  <2> QED
    BY <2>4, <2>5, StepFound
<1> QED
  BY <1>1, <1>2, InductiveInvariant, PTL DEF Spec, ImplementsDurableTable, DT!Spec
=============================================================================
