---------------------------- MODULE PagingProofs ----------------------------
(***************************************************************************)
(* Proofs about Paging, for any number of processes, pages, frames and     *)
(* values: frames are counted and swap files have one owner.               *)
(***************************************************************************)
EXTENDS Paging, TLAPS

\* The seconds each prover has for a leaf.
USE ZenonT(20), SMTT(20)

\* What the lists and counters of a process say of its pages.  A page has a
\* swap file only once the process has had all its frames, so alloc_frame never
\* gives a new, empty frame to a page that was saved.
ShapeOf(p) ==
    /\ status[p] = "free" => frames[p] = {} /\ \A a \in Pages : mem[p][a] = Unset
    /\ status[p] # "free" => replacer[p] \in Pages /\ vframes[p] \in Pages
    /\ status[p] = "paging" => target[p] \in frames[p] /\ ~inRAM[p][target[p]]
                               /\ used[p] = MAX_PFRAME_NUM
    /\ \A a \in Pages : inRAM[p][a] \/ pagefile[p][a] # NoFile => a \in frames[p]
    /\ \A a \in Pages : pagefile[p][a] # NoFile => used[p] = MAX_PFRAME_NUM
    /\ twin[p] => status[p] \in {"paging", "blocked"}

Shape == \A p \in Procs : ShapeOf(p)

\* Every swap file in use has exactly one page.
Owned ==
    /\ \A p, q \in Procs, a, b \in Pages :
          pagefile[p][a] # NoFile /\ pagefile[p][a] = pagefile[q][b] => p = q /\ a = b
    /\ \A p \in Procs, a \in Pages : pagefile[p][a] # NoFile => pagefile[p][a] \in inuse
    /\ \A f \in inuse : \E p \in Procs, a \in Pages : pagefile[p][a] = f

\* The inductive invariant.
Inv == TypeOK /\ Shape /\ Owned /\ FramesCounted

-----------------------------------------------------------------------------
\* TypeOK, in the groups that a step changes together.
ProcTypes ==
    /\ size \in Sizes
    /\ status \in [Procs -> {"free", "run", "paging", "blocked"}]
    /\ target \in [Procs -> Pages \cup {Null}]
    /\ heapTop \in [Procs -> 0 .. HEAP_LIMIT + 1]
    /\ faultUp \in BOOLEAN /\ mainUp \in BOOLEAN

ListTypes ==
    /\ frames \in [Procs -> SUBSET Pages]
    /\ vframes \in [Procs -> Pages \cup {Null}]
    /\ next \in [Procs -> [Pages -> Pages \cup {Null}]]
    /\ twin \in [Procs -> BOOLEAN]
    /\ replacer \in [Procs -> Pages \cup {Null}]

FrameTypes ==
    /\ used \in [Procs -> 0 .. MAX_PFRAME_NUM]
    /\ inRAM \in [Procs -> [Pages -> BOOLEAN]]
    /\ accessed \in [Procs -> [Pages -> 0 .. 2]]
    /\ dirty \in [Procs -> [Pages -> 0 .. 2]]
    /\ pte \in [Procs -> [Pages -> Bits]]

FileTypes ==
    /\ pagefile_num \in Nat
    /\ inuse \in SUBSET Files
    /\ pagefile \in [Procs -> [Pages -> Files \cup {NoFile}]]
    /\ disk \in [Files -> Contents]

DataTypes ==
    /\ ram \in [Procs -> [Pages -> Contents]]
    /\ mem \in [Procs -> [Pages -> Contents]]

LEMMA TypeParts == TypeOK <=> ProcTypes /\ ListTypes /\ FrameTypes /\ FileTypes /\ DataTypes
BY DEF TypeOK, ProcTypes, ListTypes, FrameTypes, FileTypes, DataTypes

LEMMA TypePartsNext == ProcTypes' /\ ListTypes' /\ FrameTypes' /\ FileTypes' /\ DataTypes' => TypeOK'
BY DEF TypeOK, ProcTypes, ListTypes, FrameTypes, FileTypes, DataTypes

\* The bounds of an instance: heap, initial stack and stack are within Pages.
LEMMA Basics ==
  ASSUME size \in Sizes
  PROVE  /\ size.procs \subseteq Procs /\ size.values \subseteq Values
         /\ HEAP_LIMIT \in Nat /\ MAX_PFRAME_NUM \in Nat /\ size.stack \in Nat
         /\ HEAP_LIMIT < PAGES /\ PAGES \in Pages
         /\ InitialStack \subseteq Pages /\ size.stack .. PAGES \subseteq Pages
         /\ STACK_SIZE <= MAX_PFRAME_NUM /\ 0 .. HEAP_LIMIT + 1 \subseteq Nat
         /\ NoFile \notin Nat /\ Null \notin Pages
BY SMTT(30), PagingAssumption DEF HEAP_LIMIT, MAX_PFRAME_NUM, Pages, InitialStack, NoFile, Null

\* What every step of a process may use.
LEMMA OfStep ==
  ASSUME TypeOK, NEW p \in size.procs
  PROVE  p \in Procs /\ size \in Sizes
BY Basics DEF TypeOK

\* A process uses only its own pages.
LEMMA UsablePages ==
  ASSUME TypeOK, NEW p \in Procs
  PROVE  Usable(p) \subseteq Pages
<1>1. size \in Sizes /\ heapTop[p] \in 0 .. HEAP_LIMIT + 1
  BY DEF TypeOK
<1> QED BY SMTT(30), <1>1, Basics DEF Usable, Pages

\* page_replace takes the frame of its victim, for the target or in vain.
Evicts(p) == Replace(p) \/ ReplaceFails(p)

\* Where page_replace ends: at a resident page of a process without a free frame.
LEMMA ReplaceAt ==
  ASSUME TypeOK, NEW p \in Procs, ShapeOf(p), Evicts(p)
  PROVE  /\ replacer[p] \in Pages /\ inRAM[p][replacer[p]] /\ replacer[p] \in frames[p]
         /\ target[p] \in Pages /\ ~inRAM[p][target[p]] /\ target[p] \in frames[p]
         /\ status[p] = "paging" /\ used[p] = MAX_PFRAME_NUM
<1>1. status[p] = "paging" /\ inRAM[p][replacer[p]]
  BY DEF Evicts, Replace, ReplaceFails, Evictable
<1>2. frames[p] \subseteq Pages
  BY TypeParts DEF ListTypes
<1> QED BY <1>1, <1>2 DEF ShapeOf

\* A wiped table keeps its type.
LEMMA WipeType ==
  ASSUME NEW S, NEW f \in [Procs -> [Pages -> S]], NEW p \in Procs, NEW x \in S
  PROVE  Wipe(f, p, x) \in [Procs -> [Pages -> S]]
BY DEF Wipe

\* So does a table with one entry changed, and it may be read with a larger one.
LEMMA EntryType ==
  ASSUME NEW S, NEW f \in [Procs -> [Pages -> S]], NEW p \in Procs, NEW a \in Pages, NEW x \in S
  PROVE  [f EXCEPT ![p][a] = x] \in [Procs -> [Pages -> S]]
OBVIOUS

LEMMA WiderType ==
  ASSUME NEW S, NEW T, S \subseteq T, NEW f \in [Procs -> [Pages -> S]]
  PROVE  f \in [Procs -> [Pages -> T]]
OBVIOUS

LEMMA Constants == Unset \in Contents /\ Values \subseteq Contents /\ ServerValues \subseteq Contents /\ Clear \in Bits
BY PagingAssumption DEF Contents, Bits, Clear

LEMMA TypeInit == Init => TypeOK
<1> SUFFICES ASSUME Init PROVE TypeOK
  OBVIOUS
<1>1. size \in Sizes
  BY DEF Init
<1>2. ProcTypes
  BY SMTT(30), <1>1, Basics DEF Init, ProcTypes, Null
<1>3. ListTypes
  BY DEF Init, ListTypes, Everywhere, Null
<1>4. FrameTypes
  BY SMTT(30), <1>1, Basics, Constants DEF Init, FrameTypes, Everywhere
<1>5. FileTypes
  BY Constants, PagingAssumption DEF Init, FileTypes, Everywhere, Files
<1>6. DataTypes
  BY Constants DEF Init, DataTypes, Everywhere
<1> QED BY <1>2, <1>3, <1>4, <1>5, <1>6, TypeParts

\* Every variable keeps its type, group by group.
LEMMA ProcTypesNext ==
  ASSUME TypeOK, NEW p \in size.procs, Step(p), UNCHANGED size
  PROVE  ProcTypes'
<1> USE DEF upVars
<1>0. p \in Procs /\ size \in Sizes /\ ProcTypes
  BY OfStep, TypeParts
<1>1. size' \in Sizes /\ HEAP_LIMIT' = HEAP_LIMIT /\ HEAP_LIMIT \in Nat
  BY <1>0, Basics DEF HEAP_LIMIT
<1>2. CASE Exec(p)
  BY <1>0, <1>1, <1>2 DEF Exec, ProcTypes
<1>3. CASE Destroy(p)
  BY SMTT(30), <1>0, <1>1, <1>3 DEF Destroy, ProcTypes
<1>4. CASE BrkQuery(p)
  BY SMTT(30), <1>0, <1>1, <1>4 DEF BrkQuery, ProcTypes
<1>5. ASSUME NEW n \in 1 .. HEAP_LIMIT, Brk(p, n) PROVE ProcTypes'
  <2>1. heapTop' = [heapTop EXCEPT ![p] = heapTop[p] + n] /\ heapTop[p] + n <= HEAP_LIMIT + 1
        /\ UNCHANGED <<status, target, upVars>>
    BY <1>5 DEF Brk
  <2>2. heapTop[p] + n \in 0 .. HEAP_LIMIT + 1
    BY SMTT(30), <1>0, <1>1, <2>1 DEF ProcTypes
  <2> QED BY <1>0, <1>1, <2>1, <2>2 DEF ProcTypes
<1>6. CASE UNCHANGED <<status, target, heapTop, upVars>>
  BY <1>0, <1>1, <1>6 DEF ProcTypes
<1>7. CASE /\ status' = [status EXCEPT ![p] = "blocked"] /\ faultUp' \in BOOLEAN /\ mainUp' \in BOOLEAN
           /\ UNCHANGED <<target, heapTop>>
  BY <1>0, <1>1, <1>7 DEF ProcTypes
<1>8. ASSUME NEW a \in Usable(p), AllocFrame(p, a), UNCHANGED <<heapTop, upVars>> PROVE ProcTypes'
  <2>1. a \in Pages
    BY <1>0, UsablePages
  <2>2. CASE BeginReplace(p, a)
    BY <1>0, <1>1, <1>8, <2>1, <2>2 DEF BeginReplace, ProcTypes
  <2> QED BY <1>6, <1>8, <2>2 DEF AllocFrame, TakeFrame
<1>9. CASE Replace(p)
  BY <1>0, <1>1, <1>9 DEF Replace, ProcTypes
<1>10. faultUp \in BOOLEAN /\ mainUp \in BOOLEAN
  BY <1>0 DEF ProcTypes
<1>11. ASSUME NEW a \in Usable(p), ExpandStackFails(p, a) PROVE ProcTypes'
  <2>1. a \in Pages
    BY <1>0, UsablePages
  <2>2. CASE BeginReplace(p, a) /\ UNCHANGED <<heapTop, upVars>>
    BY <1>0, <1>1, <2>1, <2>2 DEF BeginReplace, ProcTypes
  <2> QED BY <1>7, <1>10, <1>11, <2>2 DEF ExpandStackFails
<1>12. CASE ReplaceFails(p)
  BY <1>0, <1>1, <1>12 DEF ReplaceFails, ProcTypes
<1> QED BY <1>2, <1>3, <1>4, <1>5, <1>6, <1>7, <1>8, <1>9, <1>10, <1>11, <1>12
        DEF Step, Kill, Store, ServerStore, Load, FaultIgnored, FaultNoPage, ExpandStack,
            FaultHeap, Sweep

LEMMA ListTypesNext ==
  ASSUME TypeOK, Shape, NEW p \in size.procs, Step(p)
  PROVE  ListTypes'
<1> USE DEF listVars
<1>0. p \in Procs /\ size \in Sizes /\ ListTypes /\ ShapeOf(p)
  BY OfStep, TypeParts DEF Shape
<1>1. CASE Exec(p)
  <2>1. InitialStack \subseteq Pages /\ PAGES \in Pages
    BY <1>0, Basics
  <2> QED BY <1>0, <1>1, <2>1 DEF Exec, ListTypes, Null
<1>2. CASE Destroy(p)
  <2>1. next' \in [Procs -> [Pages -> Pages \cup {Null}]]
    BY <1>0, <1>2, WipeType DEF Destroy, ListTypes
  <2> QED BY <1>0, <1>2, <2>1 DEF Destroy, ListTypes
<1>3. ASSUME NEW n \in 1 .. HEAP_LIMIT, Brk(p, n) PROVE ListTypes'
  <2> DEFINE top == heapTop[p]
  <2>1. /\ top > 0 /\ top + n <= HEAP_LIMIT + 1 /\ replacer' = replacer /\ twin' = twin
        /\ frames' = [frames EXCEPT ![p] = @ \cup (top .. top + n - 1)]
        /\ next' = [next EXCEPT ![p] = [a \in Pages |->
                       IF a = top THEN vframes[p]
                       ELSE IF a \in top .. top + n - 1 THEN a - 1 ELSE @[a]]]
        /\ vframes' = [vframes EXCEPT ![p] = top + n - 1]
    BY <1>3 DEF Brk
  <2>2. top \in Nat /\ HEAP_LIMIT \in Nat /\ PAGES \in Nat /\ HEAP_LIMIT < PAGES
    BY <1>0, Basics, PagingAssumption DEF TypeOK
  <2> HIDE DEF top
  <2>3. /\ top .. top + n - 1 \subseteq Pages /\ top + n - 1 \in Pages
        /\ \A a \in top .. top + n - 1 : a # top => a - 1 \in Pages
    BY SMTT(30), <2>1, <2>2 DEF Pages
  <2>4. next' \in [Procs -> [Pages -> Pages \cup {Null}]]
    BY <1>0, <2>1, <2>3 DEF ListTypes
  <2> QED BY <1>0, <2>1, <2>3, <2>4 DEF ListTypes
<1>4. ASSUME NEW a \in Usable(p), ExpandStack(p, a) PROVE ListTypes'
  <2>1. a \in Pages
    BY <1>0, UsablePages
  <2> QED BY <1>0, <1>4, <2>1 DEF ExpandStack, ListTypes
<1>5. CASE Sweep(p)
  <2>1. Advance(p, replacer[p]) \in Pages
    BY SMTT(30), <1>0, <1>5 DEF Sweep, ShapeOf, Advance, ListTypes
  <2>2. replacer' = [replacer EXCEPT ![p] = Advance(p, replacer[p])] /\ UNCHANGED listVars
    BY <1>5 DEF Sweep
  <2> QED BY <1>0, <2>1, <2>2 DEF ListTypes
<1>6. CASE UNCHANGED <<listVars, replacer>>
  BY <1>0, <1>6 DEF ListTypes
<1>7. ASSUME NEW a \in Usable(p), ExpandStackFails(p, a) PROVE ListTypes'
  BY <1>0, <1>7 DEF ExpandStackFails, ListTypes
<1> QED BY <1>1, <1>2, <1>3, <1>4, <1>5, <1>6, <1>7
        DEF Step, Kill, BrkQuery, Store, ServerStore, Load, FaultIgnored, FaultNoPage,
            FaultHeap, Replace, ReplaceFails

LEMMA FrameTypesNext ==
  ASSUME TypeOK, Shape, NEW p \in size.procs, Step(p), UNCHANGED size
  PROVE  FrameTypes'
<1> USE DEF frameVars
<1>0. p \in Procs /\ size \in Sizes /\ FrameTypes /\ ShapeOf(p)
  BY OfStep, TypeParts DEF Shape
<1>1. MAX_PFRAME_NUM' = MAX_PFRAME_NUM /\ MAX_PFRAME_NUM \in Nat
  BY <1>0, Basics DEF MAX_PFRAME_NUM
<1>2. CASE Exec(p)
  <2>1. STACK_SIZE \in 0 .. MAX_PFRAME_NUM
    BY SMTT(30), <1>0, Basics, PagingAssumption
  <2> QED BY SMTT(30), <1>0, <1>1, <1>2, <2>1 DEF Exec, FrameTypes
<1>3. CASE Destroy(p)
  <2>1. /\ inRAM' = Wipe(inRAM, p, FALSE) /\ accessed' = Wipe(accessed, p, 0)
        /\ dirty' = Wipe(dirty, p, 0) /\ pte' = Wipe(pte, p, Clear)
        /\ used' = [used EXCEPT ![p] = 0]
    BY <1>3 DEF Destroy
  <2>2. 0 \in 0 .. 2 /\ 0 \in 0 .. MAX_PFRAME_NUM
    BY SMTT(30), <1>1
  <2>3. inRAM' \in [Procs -> [Pages -> BOOLEAN]]
    BY <1>0, <2>1, WipeType DEF FrameTypes
  <2>4. accessed' \in [Procs -> [Pages -> 0 .. 2]] /\ dirty' \in [Procs -> [Pages -> 0 .. 2]]
    BY <1>0, <2>1, <2>2, WipeType DEF FrameTypes
  <2>5. pte' \in [Procs -> [Pages -> Bits]]
    BY <1>0, <2>1, Constants, WipeType DEF FrameTypes
  <2> QED BY <1>0, <1>1, <2>1, <2>2, <2>3, <2>4, <2>5 DEF FrameTypes
<1>4. ASSUME NEW a \in Pages, NEW b \in Bits, pte' = [pte EXCEPT ![p][a] = b],
             UNCHANGED <<used, inRAM, accessed, dirty>>
      PROVE  FrameTypes'
  BY <1>0, <1>1, <1>4 DEF FrameTypes
<1>5. ASSUME NEW a \in Pages, NEW v \in size.values, Store(p, a, v) PROVE FrameTypes'
  BY <1>4, <1>5 DEF Store, Bits
<1>6. ASSUME NEW a \in Pages, Load(p, a) PROVE FrameTypes'
  <2>1. pte[p][a].dirty \in BOOLEAN
    BY <1>0 DEF FrameTypes, Bits
  <2>2. [accessed |-> TRUE, dirty |-> pte[p][a].dirty] \in Bits
    BY <2>1 DEF Bits
  <2> QED BY <1>0, <1>4, <1>6, <2>2 DEF Load, FrameTypes
<1>7. ASSUME NEW a \in Usable(p), AllocFrame(p, a) PROVE FrameTypes'
  <2>1. a \in Pages
    BY <1>0, UsablePages
  <2>2. CASE TakeFrame(p, a) /\ used[p] < MAX_PFRAME_NUM
    <3>1. used[p] + 1 \in 0 .. MAX_PFRAME_NUM
      BY SMTT(30), <1>0, <1>1, <2>2 DEF FrameTypes
    <3> QED BY <1>0, <1>1, <2>1, <2>2, <3>1, Constants DEF TakeFrame, FrameTypes
  <2>3. CASE BeginReplace(p, a)
    BY SMTT(30), <1>0, <1>1, <2>3 DEF BeginReplace, FrameTypes
  <2> QED BY <1>7, <2>2, <2>3 DEF AllocFrame
<1>8. CASE Sweep(p)
  <2>1. replacer[p] \in Pages /\ 1 \in 0 .. 2
    BY SMTT(30), <1>0, <1>8 DEF Sweep, ShapeOf
  <2>2. UNCHANGED <<used, inRAM, pte>>
    BY <1>8 DEF Sweep
  <2>3. CASE dirty' = [dirty EXCEPT ![p][replacer[p]] = 1] /\ UNCHANGED accessed
    BY <1>0, <1>1, <2>1, <2>2, <2>3 DEF FrameTypes
  <2>4. CASE accessed' = [accessed EXCEPT ![p][replacer[p]] = 1] /\ UNCHANGED dirty
    BY <1>0, <1>1, <2>1, <2>2, <2>4 DEF FrameTypes
  <2>5. CASE UNCHANGED <<accessed, dirty>>
    BY <1>0, <1>1, <2>2, <2>5 DEF FrameTypes
  <2> QED BY <1>8, <2>3, <2>4, <2>5 DEF Sweep
<1>9. CASE Replace(p)
  BY <1>0, <1>1, <1>9, Constants DEF Replace, FrameTypes
<1>10. CASE UNCHANGED <<used, inRAM, accessed, dirty, pte>>
  BY <1>0, <1>1, <1>10 DEF FrameTypes
<1>11. ASSUME NEW a \in Usable(p), ExpandStackFails(p, a) PROVE FrameTypes'
  <2>1. CASE /\ used[p] < MAX_PFRAME_NUM /\ used' = [used EXCEPT ![p] = @ + 1]
             /\ UNCHANGED <<inRAM, accessed, dirty, pte>>
    <3>1. used[p] + 1 \in 0 .. MAX_PFRAME_NUM
      BY SMTT(30), <1>0, <1>1, <2>1 DEF FrameTypes
    <3> QED BY <1>0, <1>1, <2>1, <3>1 DEF FrameTypes
  <2>2. CASE BeginReplace(p, a)
    BY SMTT(30), <1>0, <1>1, <2>2 DEF BeginReplace, FrameTypes
  <2> QED BY <1>11, <2>1, <2>2 DEF ExpandStackFails
<1>12. CASE ReplaceFails(p)
  <2>1. replacer[p] \in Pages
    BY <1>0, <1>12, ReplaceAt DEF Evicts
  <2>2. inRAM' \in [Procs -> [Pages -> BOOLEAN]]
    BY <1>0, <1>12, <2>1, EntryType DEF ReplaceFails, FrameTypes
  <2> QED BY <1>0, <1>1, <1>12, <2>2 DEF ReplaceFails, FrameTypes
<1> QED BY <1>2, <1>3, <1>5, <1>6, <1>7, <1>8, <1>9, <1>10, <1>11, <1>12
        DEF Step, Kill, BrkQuery, Brk, ServerStore, FaultIgnored, FaultNoPage,
            ExpandStack, FaultHeap

\* Only the end of a process and a replacement change which pages have files.
LEMMA FilesKept ==
  ASSUME NEW p, Step(p), ~Destroy(p), ~Evicts(p)
  PROVE  UNCHANGED <<pagefile, inuse, pagefile_num, disk>>
BY DEF Step, Exec, Kill, BrkQuery, Brk, Store, ServerStore, Load, FaultIgnored, FaultNoPage,
       ExpandStack, ExpandStackFails, FaultHeap, Sweep, Evicts, listVars, frameVars, fileVars

LEMMA FileTypesNext ==
  ASSUME TypeOK, Shape, NEW p \in size.procs, Step(p)
  PROVE  FileTypes'
<1>0. p \in Procs /\ FileTypes /\ DataTypes /\ ShapeOf(p) /\ NoFile \notin Nat
  BY OfStep, TypeParts, Basics DEF Shape
<1>1. CASE Destroy(p)
  <2>1. /\ inuse' = inuse \ {pagefile[p][a] : a \in frames[p]} /\ pagefile' = Wipe(pagefile, p, NoFile)
        /\ disk' = disk /\ pagefile_num' = pagefile_num
    BY <1>1 DEF Destroy
  <2>2. Files' = Files /\ NoFile \in Files \cup {NoFile}
    BY <2>1 DEF Files
  <2>3. pagefile' \in [Procs -> [Pages -> Files' \cup {NoFile}]]
    BY <1>0, <2>1, <2>2, WipeType DEF FileTypes
  <2> QED BY <1>0, <2>1, <2>2, <2>3 DEF FileTypes
<1>2. CASE Evicts(p)
  <2> DEFINE v == replacer[p]
  <2>1. PICK f \in 0 .. pagefile_num :
           /\ pagefile' = [pagefile EXCEPT ![p][v] = f]
           /\ inuse' = inuse \cup {f}
           /\ pagefile_num' = IF f = pagefile_num THEN f + 1 ELSE pagefile_num
           /\ disk' = [g \in 0 .. pagefile_num' - 1 |->
                         IF g = f /\ MustSave(p, v) THEN ram[p][v] ELSE disk[g]]
           /\ f = pagefile[p][v] \/ pagefile[p][v] = NoFile
    BY <1>2 DEF Evicts, Replace, ReplaceFails, SaveVictim
  <2>2. v \in Pages
    BY <1>0, <1>2, ReplaceAt
  <2> HIDE DEF v
  <2>3. pagefile_num' \in Nat /\ Files \subseteq Files' /\ f \in Files'
    BY SMTT(30), <1>0, <2>1 DEF FileTypes, Files
  <2>4. disk' \in [Files' -> Contents]
    <3>1. f = pagefile_num => MustSave(p, v)
      BY SMTT(30), <1>0, <2>1, <2>2 DEF FileTypes, Files, MustSave, NoFile
    <3>2. ram[p][v] \in Contents
      BY <1>0, <2>2 DEF DataTypes
    <3> QED BY SMTT(30), <1>0, <2>1, <3>1, <3>2 DEF FileTypes, Files
  <2>5. pagefile' \in [Procs -> [Pages -> Files' \cup {NoFile}]]
    <3>1. pagefile \in [Procs -> [Pages -> Files' \cup {NoFile}]]
      BY <1>0, <2>3, WiderType DEF FileTypes
    <3> QED BY <1>0, <2>1, <2>2, <2>3, <3>1, EntryType
  <2>6. inuse' \in SUBSET Files'
    BY <1>0, <2>1, <2>3 DEF FileTypes
  <2> QED BY <2>3, <2>4, <2>5, <2>6 DEF FileTypes
<1>3. CASE UNCHANGED <<pagefile, inuse, pagefile_num, disk>>
  BY <1>0, <1>3 DEF FileTypes, Files
<1> QED BY <1>1, <1>2, <1>3, FilesKept

LEMMA DataTypesNext ==
  ASSUME TypeOK, Shape, NEW p \in size.procs, Step(p), FileTypes'
  PROVE  DataTypes'
<1>0. /\ p \in Procs /\ size.values \subseteq Contents /\ ServerValues \subseteq Contents
      /\ FileTypes /\ DataTypes /\ ShapeOf(p)
  BY OfStep, TypeParts, Basics, Constants DEF Shape
<1>1. CASE Destroy(p)
  BY <1>0, <1>1, Constants, WipeType DEF Destroy, DataTypes
<1>2. ASSUME NEW a \in Pages, NEW v \in Contents,
             ram' = [ram EXCEPT ![p][a] = v] /\ mem' = [mem EXCEPT ![p][a] = v]
      PROVE  DataTypes'
  BY <1>0, <1>2, EntryType DEF DataTypes
<1>3. ASSUME NEW a \in Usable(p), AllocFrame(p, a), UNCHANGED mem PROVE DataTypes'
  <2>1. a \in Pages
    BY <1>0, UsablePages
  <2>2. ram' = ram \/ ram' = [ram EXCEPT ![p][a] = Unset]
    BY <1>3 DEF AllocFrame, TakeFrame, BeginReplace
  <2>3. CASE ram' = ram
    BY <1>0, <1>3, <2>3 DEF DataTypes
  <2>4. CASE ram' = [ram EXCEPT ![p][a] = Unset]
    BY <1>0, <1>3, <2>1, <2>4, Constants, EntryType DEF DataTypes
  <2> QED BY <2>2, <2>3, <2>4
<1>4. CASE Replace(p)
  <2> DEFINE v == replacer[p]
             a == target[p]
             x == IF pagefile[p][a] # NoFile THEN disk'[pagefile[p][a]] ELSE ram[p][v]
  <2>1. /\ v \in Pages /\ a \in Pages /\ mem' = mem
        /\ ram' = [ram EXCEPT ![p][a] = x]
    <3>1. v \in Pages /\ a \in Pages
      BY <1>0, <1>4, ReplaceAt DEF Evicts
    <3> QED BY <1>4, <3>1 DEF Replace
  <2> HIDE DEF v, a
  <2>2. pagefile[p][a] # NoFile => pagefile[p][a] \in Files'
    <3>1. pagefile[p][a] \in Files \cup {NoFile}
      BY SMTT(30), <1>0, <2>1 DEF FileTypes
    <3>2. PICK f \in 0 .. pagefile_num : pagefile_num' = IF f = pagefile_num THEN f + 1 ELSE pagefile_num
      BY <1>4 DEF Replace, SaveVictim
    <3>3. Files \subseteq Files'
      BY SMTT(30), <1>0, <3>2 DEF FileTypes, Files
    <3> QED BY <3>1, <3>3
  <2>3. x \in Contents
    <3>1. ram[p][v] \in Contents
      BY <1>0, <2>1 DEF DataTypes
    <3>2. disk' \in [Files' -> Contents]
      BY DEF FileTypes
    <3> QED BY <2>2, <3>1, <3>2
  <2> QED BY <1>0, <2>1, <2>3, EntryType DEF DataTypes
<1>5. CASE UNCHANGED <<ram, mem>>
  BY <1>0, <1>5 DEF DataTypes
<1> QED BY <1>0, <1>1, <1>2, <1>3, <1>4, <1>5
        DEF Step, Exec, Kill, BrkQuery, Brk, Store, ServerStore, Load, FaultIgnored, FaultNoPage,
            ExpandStack, ExpandStackFails, BeginReplace, FaultHeap, Sweep, ReplaceFails

LEMMA TypeNext == TypeOK /\ Shape /\ [Next]_vars => TypeOK'
<1> SUFFICES ASSUME TypeOK, Shape, [Next]_vars PROVE TypeOK'
  OBVIOUS
<1>1. CASE UNCHANGED vars
  <2>1. ProcTypes' /\ FrameTypes' /\ DataTypes'
    BY <1>1, TypeParts DEF vars, frameVars, upVars, ProcTypes, FrameTypes, DataTypes, HEAP_LIMIT, MAX_PFRAME_NUM
  <2>2. ListTypes' /\ FileTypes'
    BY <1>1, TypeParts DEF vars, listVars, frameVars, fileVars, ListTypes, FileTypes, Files
  <2> QED BY <2>1, <2>2, TypePartsNext
<1>2. ASSUME NEW p \in size.procs, Step(p), UNCHANGED size PROVE TypeOK'
  BY <1>2, TypePartsNext, ProcTypesNext, ListTypesNext, FrameTypesNext, FileTypesNext, DataTypesNext
<1> QED BY <1>1, <1>2 DEF Next

-----------------------------------------------------------------------------
\* A step of one process leaves what belongs to another as it is.
Same(q) ==
    /\ status'[q] = status[q] /\ target'[q] = target[q] /\ frames'[q] = frames[q]
    /\ vframes'[q] = vframes[q] /\ replacer'[q] = replacer[q] /\ used'[q] = used[q]
    /\ inRAM'[q] = inRAM[q] /\ dirty'[q] = dirty[q] /\ pagefile'[q] = pagefile[q]
    /\ pte'[q] = pte[q] /\ ram'[q] = ram[q] /\ mem'[q] = mem[q] /\ twin'[q] = twin[q]

LEMMA Others ==
  ASSUME TypeOK, NEW p \in Procs, Step(p), NEW q \in Procs, q # p
  PROVE  Same(q)
<1> USE DEF listVars, frameVars, fileVars, upVars, Same
<1>0. /\ DOMAIN status = Procs /\ DOMAIN target = Procs /\ DOMAIN frames = Procs
      /\ DOMAIN vframes = Procs /\ DOMAIN replacer = Procs /\ DOMAIN used = Procs
      /\ DOMAIN inRAM = Procs /\ DOMAIN dirty = Procs /\ DOMAIN pagefile = Procs
      /\ DOMAIN pte = Procs /\ DOMAIN ram = Procs /\ DOMAIN mem = Procs /\ DOMAIN twin = Procs
  BY DEF TypeOK
<1>1. CASE Exec(p)
  BY <1>0, <1>1 DEF Exec
<1>2. CASE Destroy(p)
  BY <1>0, <1>2 DEF Destroy, Wipe
<1>3. CASE BrkQuery(p)
  BY <1>3 DEF BrkQuery
<1>4. ASSUME NEW n \in 1 .. HEAP_LIMIT, Brk(p, n) PROVE Same(q)
  BY <1>0, <1>4 DEF Brk
<1>5. ASSUME NEW a \in Pages, NEW v, Store(p, a, v) PROVE Same(q)
  BY <1>0, <1>5 DEF Store
<1>6. ASSUME NEW a \in Pages, NEW v, ServerStore(p, a, v) PROVE Same(q)
  BY <1>0, <1>6 DEF ServerStore
<1>7. ASSUME NEW a \in Pages, Load(p, a) PROVE Same(q)
  BY <1>0, <1>7 DEF Load
<1>8. CASE status' = [status EXCEPT ![p] = "blocked"]
           /\ UNCHANGED <<target, listVars, replacer, used, frameVars, pte, ram, mem>>
  BY <1>0, <1>8
<1>9. ASSUME NEW a \in Usable(p), ExpandStack(p, a) \/ FaultHeap(p, a) PROVE Same(q)
  <2>1. /\ AllocFrame(p, a)
        /\ frames'[q] = frames[q] /\ vframes'[q] = vframes[q]
        /\ UNCHANGED <<twin, replacer, pagefile, mem>>
    BY <1>0, <1>9 DEF ExpandStack, FaultHeap
  <2>2. CASE TakeFrame(p, a)
    BY <1>0, <2>1, <2>2 DEF TakeFrame
  <2>3. CASE BeginReplace(p, a)
    BY <1>0, <2>1, <2>3 DEF BeginReplace
  <2> QED BY <2>1, <2>2, <2>3 DEF AllocFrame
<1>10. CASE Sweep(p)
  BY <1>0, <1>10 DEF Sweep
<1>11. CASE Evicts(p)
  <2>1. PICK f \in 0 .. pagefile_num : pagefile' = [pagefile EXCEPT ![p][replacer[p]] = f]
    BY <1>11 DEF Evicts, Replace, ReplaceFails, SaveVictim
  <2>2. pagefile'[q] = pagefile[q]
    BY <1>0, <2>1
  <2>3. /\ status'[q] = status[q] /\ target' = [target EXCEPT ![p] = Null]
        /\ inRAM'[q] = inRAM[q] /\ ram'[q] = ram[q] /\ pte'[q] = pte[q]
        /\ UNCHANGED <<frames, vframes, twin, replacer, used, dirty, mem>>
    BY <1>0, <1>11 DEF Evicts, Replace, ReplaceFails
  <2> QED BY <1>0, <2>2, <2>3
<1>12. ASSUME NEW a \in Usable(p), ExpandStackFails(p, a) PROVE Same(q)
  <2>1. /\ twin'[q] = twin[q]
        /\ UNCHANGED <<frames, vframes, replacer, pagefile, mem>>
    BY <1>0, <1>12 DEF ExpandStackFails
  <2>2. CASE BeginReplace(p, a)
    BY <1>0, <2>1, <2>2 DEF BeginReplace
  <2>3. CASE used[p] < MAX_PFRAME_NUM
    BY <1>0, <1>12, <2>3 DEF ExpandStackFails
  <2> QED BY <1>12, <2>2, <2>3 DEF ExpandStackFails
<1> QED BY <1>1, <1>2, <1>3, <1>4, <1>5, <1>6, <1>7, <1>8, <1>9, <1>10, <1>11, <1>12
        DEF Step, Kill, FaultIgnored, FaultNoPage, Evicts

-----------------------------------------------------------------------------
\* A process that alloc_frame gives no new frame has its whole share.
LEMMA Full ==
  ASSUME TypeOK, NEW p \in Procs
  PROVE  /\ used[p] \in Nat /\ MAX_PFRAME_NUM \in Nat
         /\ ~(used[p] < MAX_PFRAME_NUM) => used[p] = MAX_PFRAME_NUM
<1>1. used[p] \in 0 .. MAX_PFRAME_NUM /\ MAX_PFRAME_NUM \in Nat
  BY Basics DEF TypeOK
<1> QED BY SMTT(30), <1>1

\* alloc_frame gives a page that has no frame a new one, or begins to replace.
LEMMA AllocShape ==
  ASSUME TypeOK, NEW p \in Procs, ShapeOf(p), NEW a \in Pages, AllocFrame(p, a),
         UNCHANGED <<size, twin, replacer, pagefile, mem>>, ~inRAM[p][a], status[p] = "run",
         a \in frames'[p], frames[p] \subseteq frames'[p], vframes'[p] \in Pages
  PROVE  ShapeOf(p)'
<1>0. /\ MAX_PFRAME_NUM' = MAX_PFRAME_NUM /\ status \in [Procs -> {"free", "run", "paging", "blocked"}]
      /\ target \in [Procs -> Pages \cup {Null}] /\ inRAM \in [Procs -> [Pages -> BOOLEAN]]
  BY TypeParts DEF MAX_PFRAME_NUM, ProcTypes, FrameTypes
<1>1. CASE TakeFrame(p, a) /\ used[p] < MAX_PFRAME_NUM
  <2>1. \A b \in Pages : pagefile[p][b] = NoFile
    BY SMTT(30), <1>1, Full DEF ShapeOf
  <2>2. inRAM' = [inRAM EXCEPT ![p][a] = TRUE] /\ status' = status
    BY <1>1 DEF TakeFrame
  <2> QED BY <1>0, <2>1, <2>2 DEF ShapeOf
<1>2. CASE BeginReplace(p, a) /\ ~(used[p] < MAX_PFRAME_NUM)
  <2>1. used[p] = MAX_PFRAME_NUM
    BY <1>2, Full
  <2>2. /\ status' = [status EXCEPT ![p] = "paging"] /\ target' = [target EXCEPT ![p] = a]
        /\ UNCHANGED <<used, inRAM>>
    BY <1>2 DEF BeginReplace
  <2> QED BY <1>0, <2>1, <2>2 DEF ShapeOf
<1> QED BY <1>1, <1>2 DEF AllocFrame

\* Shape holds at the start and is kept by every step.
LEMMA ShapeInit == Init => Shape
BY SMTT(30) DEF Init, Shape, ShapeOf, Everywhere

LEMMA ShapeNext == TypeOK /\ Shape /\ [Next]_vars => Shape'
<1> SUFFICES ASSUME TypeOK, Shape, [Next]_vars PROVE Shape'
  OBVIOUS
<1> USE DEF listVars, frameVars
<1>a. CASE UNCHANGED vars
  BY <1>a DEF Shape, ShapeOf, vars, MAX_PFRAME_NUM
<1>b. ASSUME NEW p \in size.procs, Step(p), UNCHANGED size PROVE Shape'
  <2>0. p \in Procs /\ size \in Sizes /\ ShapeOf(p) /\ MAX_PFRAME_NUM' = MAX_PFRAME_NUM
    BY <1>b, OfStep DEF Shape, MAX_PFRAME_NUM
  <2>q. ASSUME NEW q \in Procs, q # p PROVE ShapeOf(q)'
    <3>1. Same(q) /\ ShapeOf(q)
      BY <2>0, <2>q, <1>b, Others DEF Shape
    <3> QED BY <3>1, <2>0 DEF Same, ShapeOf
  <2>p. SUFFICES ShapeOf(p)'
    BY <2>q DEF Shape
  <2>t. /\ status \in [Procs -> {"free", "run", "paging", "blocked"}] /\ target \in [Procs -> Pages \cup {Null}]
        /\ frames \in [Procs -> SUBSET Pages] /\ vframes \in [Procs -> Pages \cup {Null}]
        /\ replacer \in [Procs -> Pages \cup {Null}] /\ inRAM \in [Procs -> [Pages -> BOOLEAN]]
        /\ twin \in [Procs -> BOOLEAN]
    BY TypeParts DEF ProcTypes, ListTypes, FrameTypes
  <2>k. ASSUME UNCHANGED <<target, frames, vframes, twin, replacer, used, inRAM, pagefile>>,
               mem'[p] = mem[p] \/ status'[p] # "free", status[p] = "run",
               status' = status \/ status' = [status EXCEPT ![p] = "blocked"]
        PROVE  ShapeOf(p)'
    BY <2>0, <2>k, <2>t DEF ShapeOf
  <2>1. CASE Exec(p)
    <3>1. \A a \in Pages : pagefile[p][a] = NoFile
      <4>1. status[p] = "free"
        BY <2>1 DEF Exec
      <4> QED BY <2>0, <4>1 DEF ShapeOf
    <3>0. PAGES \in Pages /\ InitialStack \subseteq Pages
      BY <2>0, Basics
    <3>2. /\ status'[p] = "run" /\ frames'[p] = InitialStack /\ vframes'[p] = PAGES
          /\ replacer'[p] = PAGES /\ inRAM'[p] = [a \in Pages |-> a \in InitialStack]
          /\ pagefile' = pagefile /\ ~twin'[p]
      BY <2>0, <2>1, <2>t DEF Exec, ShapeOf
    <3> QED BY <3>0, <3>1, <3>2 DEF ShapeOf
  <2>d. CASE Destroy(p)
    <3>1. /\ status'[p] = "free" /\ frames'[p] = {} /\ ~twin'[p]
          /\ \A a \in Pages : mem'[p][a] = Unset /\ ~inRAM'[p][a] /\ pagefile'[p][a] = NoFile
      <4>1. mem \in [Procs -> [Pages -> Contents]] /\ pagefile \in [Procs -> [Pages -> Files \cup {NoFile}]]
        BY TypeParts DEF DataTypes, FileTypes
      <4> QED BY <2>0, <2>d, <2>t, <4>1 DEF Destroy, Wipe
    <3> QED BY <3>1 DEF ShapeOf
  <2>2. CASE BrkQuery(p)
    BY <2>2, <2>k DEF BrkQuery
  <2>3. ASSUME NEW n \in 1 .. HEAP_LIMIT, Brk(p, n) PROVE ShapeOf(p)'
    <3> DEFINE top == heapTop[p]
    <3>1. /\ status[p] = "run" /\ top > 0 /\ top + n <= HEAP_LIMIT + 1
          /\ frames' = [frames EXCEPT ![p] = @ \cup (top .. top + n - 1)]
          /\ vframes' = [vframes EXCEPT ![p] = top + n - 1]
          /\ UNCHANGED <<status, twin, replacer, used, inRAM, pagefile, mem>>
      BY <2>3 DEF Brk
    <3>2. top \in Nat /\ HEAP_LIMIT \in Nat /\ PAGES \in Nat /\ HEAP_LIMIT < PAGES
      BY <2>0, Basics, PagingAssumption DEF TypeOK
    <3> HIDE DEF top
    <3>3. top + n - 1 \in Pages
      BY SMTT(30), <3>1, <3>2 DEF Pages
    <3> QED BY <2>0, <2>t, <3>1, <3>3 DEF ShapeOf
  <2>4. ASSUME NEW a \in Pages, NEW v \in size.values, Store(p, a, v) PROVE ShapeOf(p)'
    BY <2>4, <2>k DEF Store
  <2>5. ASSUME NEW a \in Pages, NEW v \in ServerValues, ServerStore(p, a, v) PROVE ShapeOf(p)'
    BY <2>5, <2>k DEF ServerStore
  <2>6. ASSUME NEW a \in Pages, Load(p, a) PROVE ShapeOf(p)'
    BY <2>6, <2>k DEF Load
  <2>7. CASE status' = [status EXCEPT ![p] = "blocked"] /\ status[p] = "run"
             /\ UNCHANGED <<target, listVars, replacer, used, frameVars, pte, ram, mem>>
    BY <2>7, <2>k
  <2>8. ASSUME NEW a \in Usable(p), ExpandStack(p, a) PROVE ShapeOf(p)'
    <3>1. a \in Pages
      BY <2>0, UsablePages
    <3>2. /\ AllocFrame(p, a) /\ UNCHANGED <<twin, replacer, pagefile, mem>>
          /\ ~inRAM[p][a] /\ status[p] = "run"
      BY <2>8 DEF ExpandStack, Faults
    <3>3. a \in frames'[p] /\ frames[p] \subseteq frames'[p] /\ vframes'[p] \in Pages
      BY <2>0, <2>t, <2>8, <3>1 DEF ExpandStack
    <3> QED BY <1>b, <2>0, <3>1, <3>2, <3>3, AllocShape
  <2>9. ASSUME NEW a \in Usable(p), FaultHeap(p, a) PROVE ShapeOf(p)'
    <3>1. a \in Pages
      BY <2>0, UsablePages
    <3>2. /\ AllocFrame(p, a) /\ UNCHANGED <<twin, replacer, pagefile, mem>>
          /\ ~inRAM[p][a] /\ status[p] = "run"
      BY <2>9 DEF FaultHeap, Faults
    <3>3. a \in frames'[p] /\ frames[p] \subseteq frames'[p] /\ vframes'[p] \in Pages
      BY <2>0, <2>9, <3>2 DEF FaultHeap, ShapeOf
    <3> QED BY <1>b, <2>0, <3>1, <3>2, <3>3, AllocShape
  <2>10. CASE Sweep(p)
    <3>1. Advance(p, replacer[p]) \in Pages
      <4>1. next[p][replacer[p]] \in Pages \cup {Null} /\ vframes[p] \in Pages
        BY <2>0, <2>10, TypeParts DEF Sweep, ShapeOf, ListTypes
      <4> QED BY <4>1 DEF Advance
    <3>2. /\ replacer' = [replacer EXCEPT ![p] = Advance(p, replacer[p])]
          /\ UNCHANGED <<status, target, frames, vframes, twin, used, inRAM, pagefile, mem>>
      BY <2>10 DEF Sweep
    <3> QED BY <2>0, <2>t, <3>1, <3>2 DEF ShapeOf
  <2>11. CASE Evicts(p)
    <3> DEFINE v == replacer[p]
               a == target[p]
    <3>1. /\ v \in Pages /\ a \in Pages /\ v \in frames[p] /\ a \in frames[p]
          /\ status[p] = "paging" /\ used[p] = MAX_PFRAME_NUM
      BY <2>0, <2>11, ReplaceAt
    <3>2. PICK f \in 0 .. pagefile_num : pagefile' = [pagefile EXCEPT ![p][v] = f]
      BY <2>11 DEF Evicts, Replace, ReplaceFails, SaveVictim
    <3>3. /\ status' = [status EXCEPT ![p] = IF twin[p] THEN "blocked" ELSE "run"]
          /\ UNCHANGED <<frames, vframes, twin, replacer, used>>
          /\ \/ inRAM' = [inRAM EXCEPT ![p][v] = FALSE, ![p][a] = TRUE]
             \/ inRAM' = [inRAM EXCEPT ![p][v] = FALSE]
      BY <2>11 DEF Evicts, Replace, ReplaceFails
    <3>4. v \in Pages /\ vframes[p] \in Pages
      BY <2>0, <3>1 DEF ShapeOf
    <3>5. \A b \in Pages : b # v /\ b # a => inRAM'[p][b] = inRAM[p][b] /\ pagefile'[p][b] = pagefile[p][b]
      <4>1. pagefile \in [Procs -> [Pages -> Files \cup {NoFile}]]
        BY TypeParts DEF FileTypes
      <4> HIDE DEF v, a
      <4> QED BY SMTT(30), <2>0, <2>t, <3>1, <3>2, <3>3, <4>1
    <3>6. status'[p] = IF twin[p] THEN "blocked" ELSE "run"
      BY <2>0, <2>t, <3>3
    <3> HIDE DEF a
    <3> QED BY SMTT(30), <2>0, <3>1, <3>3, <3>4, <3>5, <3>6 DEF ShapeOf
  <2>12. ASSUME NEW a \in Usable(p), ExpandStackFails(p, a) PROVE ShapeOf(p)'
    <3>1. /\ a \in frames[p] /\ ~inRAM[p][a] /\ status[p] = "run"
          /\ twin' = [twin EXCEPT ![p] = TRUE] /\ UNCHANGED <<frames, vframes, replacer, pagefile, mem>>
      BY <2>12 DEF ExpandStackFails, Faults
    <3>2. CASE /\ used[p] < MAX_PFRAME_NUM /\ status' = [status EXCEPT ![p] = "blocked"]
               /\ UNCHANGED <<target, inRAM>>
      <4>1. \A b \in Pages : pagefile[p][b] = NoFile
        BY SMTT(30), <2>0, <3>2, Full DEF ShapeOf
      <4> QED BY <2>0, <2>t, <3>1, <3>2, <4>1 DEF ShapeOf
    <3>3. CASE BeginReplace(p, a) /\ ~(used[p] < MAX_PFRAME_NUM)
      <4>1. used[p] = MAX_PFRAME_NUM
        BY <2>0, <3>3, Full
      <4>2. /\ status' = [status EXCEPT ![p] = "paging"] /\ target' = [target EXCEPT ![p] = a]
            /\ UNCHANGED <<used, inRAM>>
        BY <3>3 DEF BeginReplace
      <4>3. a \in Pages
        BY <2>0, UsablePages
      <4> QED BY <2>0, <2>t, <3>1, <4>1, <4>2, <4>3 DEF ShapeOf
    <3> QED BY <2>12, <3>2, <3>3 DEF ExpandStackFails
  <2> QED BY <1>b, <2>1, <2>2, <2>3, <2>4, <2>5, <2>6, <2>7, <2>8, <2>9, <2>10, <2>11, <2>12, <2>d
          DEF Step, Kill, FaultIgnored, FaultNoPage, Faults, Evicts, fileVars, upVars
<1> QED BY <1>a, <1>b DEF Next

-----------------------------------------------------------------------------
\* The swap file that page_replace saves its victim in is the victim's own or
\* one that is not in use.
LEMMA ReplaceFile ==
  ASSUME TypeOK, Shape, Owned, NEW p \in Procs, Evicts(p)
  PROVE  \E f \in 0 .. pagefile_num :
            /\ \A q \in Procs, b \in Pages : pagefile[q][b] = f => q = p /\ b = replacer[p]
            /\ pagefile[p][replacer[p]] # NoFile => f = pagefile[p][replacer[p]]
            /\ pagefile' = [pagefile EXCEPT ![p][replacer[p]] = f]
            /\ inuse' = inuse \cup {f}
            /\ pagefile_num' = IF f = pagefile_num THEN f + 1 ELSE pagefile_num
            /\ disk' = [g \in 0 .. pagefile_num' - 1 |->
                          IF g = f /\ MustSave(p, replacer[p]) THEN ram[p][replacer[p]] ELSE disk[g]]
<1>1. PICK f \in 0 .. pagefile_num :
         /\ IF pagefile[p][replacer[p]] = NoFile THEN GetPagefile(f) ELSE f = pagefile[p][replacer[p]]
         /\ pagefile' = [pagefile EXCEPT ![p][replacer[p]] = f]
         /\ inuse' = inuse \cup {f}
         /\ pagefile_num' = IF f = pagefile_num THEN f + 1 ELSE pagefile_num
         /\ disk' = [g \in 0 .. pagefile_num' - 1 |->
                       IF g = f /\ MustSave(p, replacer[p]) THEN ram[p][replacer[p]] ELSE disk[g]]
  BY DEF Evicts, Replace, ReplaceFails, SaveVictim
<1>2. replacer[p] \in Pages /\ FileTypes
  BY ReplaceAt, TypeParts DEF Shape
<1>3. ASSUME NEW q \in Procs, NEW b \in Pages, pagefile[q][b] = f PROVE q = p /\ b = replacer[p]
  <2>1. f # NoFile /\ f \in inuse /\ f \in Files
    <3>1. f \in Nat /\ f # NoFile
      BY SMTT(30), <1>2 DEF FileTypes, NoFile
    <3>2. f \in inuse
      BY <1>3, <3>1 DEF Owned
    <3> QED BY <1>2, <3>1, <3>2 DEF FileTypes
  <2>2. CASE pagefile[p][replacer[p]] = NoFile
    <3>1. f \notin inuse
      BY SMTT(30), <1>1, <1>2, <2>2, <2>1 DEF GetPagefile, FreeFiles, Files, FileTypes
    <3> QED BY <3>1, <2>1
  <2>3. CASE pagefile[p][replacer[p]] # NoFile
    BY SMTT(30), <1>1, <1>2, <1>3, <2>3 DEF Owned
  <2> QED BY <2>2, <2>3
<1> QED BY <1>1, <1>3

LEMMA OwnedInit == Init => Owned
BY SMTT(30) DEF Init, Owned, Everywhere

LEMMA OwnedNext == TypeOK /\ Shape /\ Owned /\ [Next]_vars => Owned'
<1> SUFFICES ASSUME TypeOK, Shape, Owned, [Next]_vars PROVE Owned'
  OBVIOUS
<1>a. CASE UNCHANGED <<pagefile, inuse>>
  BY SMTT(30), <1>a DEF Owned
<1>b. ASSUME NEW p \in Procs, Destroy(p) PROVE Owned'
  <2>1. /\ \A b \in Pages : pagefile'[p][b] = NoFile
        /\ \A q \in Procs, b \in Pages : q # p => pagefile'[q][b] = pagefile[q][b]
        /\ inuse' = inuse \ {pagefile[p][a] : a \in frames[p]}
    <3>1. pagefile \in [Procs -> [Pages -> Files \cup {NoFile}]]
      BY TypeParts DEF FileTypes
    <3> QED BY <1>b, <3>1 DEF Destroy, Wipe
  <2>2. \A b \in Pages : pagefile[p][b] # NoFile => b \in frames[p]
    BY DEF Shape, ShapeOf
  <2>3. frames[p] \subseteq Pages /\ NoFile \notin inuse
    BY SMTT(30), TypeParts DEF ListTypes, FileTypes, Files, NoFile
  <2>4. ASSUME NEW q \in Procs, NEW a \in Pages, pagefile'[q][a] # NoFile PROVE pagefile'[q][a] \in inuse'
    BY SMTT(30), <2>1, <2>3, <2>4 DEF Owned
  <2>5. ASSUME NEW f \in inuse' PROVE \E q \in Procs, b \in Pages : pagefile'[q][b] = f
    <3>1. PICK q \in Procs, b \in Pages : pagefile[q][b] = f
      BY <2>1 DEF Owned
    <3>2. q # p
      BY <2>1, <2>2, <2>3, <3>1
    <3> QED BY <2>1, <3>1, <3>2
  <2>6. \A q, r \in Procs, a, b \in Pages :
           pagefile'[q][a] # NoFile /\ pagefile'[q][a] = pagefile'[r][b] => q = r /\ a = b
    BY SMTT(30), <2>1 DEF Owned
  <2> QED BY <2>4, <2>5, <2>6 DEF Owned
<1>c. ASSUME NEW p \in Procs, Evicts(p) PROVE Owned'
  <2> DEFINE v == replacer[p]
  <2>1. PICK f \in 0 .. pagefile_num :
           /\ \A q \in Procs, b \in Pages : pagefile[q][b] = f => q = p /\ b = v
           /\ pagefile[p][v] # NoFile => f = pagefile[p][v]
           /\ pagefile' = [pagefile EXCEPT ![p][v] = f]
           /\ inuse' = inuse \cup {f}
    BY <1>c, ReplaceFile
  <2>2. v \in Pages
    BY <1>c, ReplaceAt DEF Shape
  <2> HIDE DEF v
  <2>3. /\ pagefile'[p][v] = f
        /\ \A q \in Procs, b \in Pages : <<q, b>> # <<p, v>> => pagefile'[q][b] = pagefile[q][b]
    <3>1. pagefile \in [Procs -> [Pages -> Files \cup {NoFile}]]
      BY TypeParts DEF FileTypes
    <3> QED BY <2>1, <2>2, <3>1
  <2>4. ASSUME NEW g \in inuse' PROVE \E q \in Procs, b \in Pages : pagefile'[q][b] = g
    <3>1. CASE g = f
      BY <2>2, <2>3, <3>1
    <3>2. CASE g # f
      <4>1. PICK q \in Procs, b \in Pages : pagefile[q][b] = g
        BY <2>1, <3>2 DEF Owned
      <4>2. g # NoFile
        BY SMTT(30), <2>1, <3>2, TypeParts DEF FileTypes, Files, NoFile
      <4> QED BY <2>1, <2>3, <3>2, <4>1, <4>2
    <3> QED BY <3>1, <3>2
  <2>5. \A q \in Procs, b \in Pages : pagefile'[q][b] # NoFile => pagefile'[q][b] \in inuse'
    BY SMTT(30), <2>1, <2>3 DEF Owned
  <2>6. \A q, r \in Procs, a, b \in Pages :
           pagefile'[q][a] # NoFile /\ pagefile'[q][a] = pagefile'[r][b] => q = r /\ a = b
    BY SMTT(30), <2>1, <2>3 DEF Owned
  <2> QED BY <2>4, <2>5, <2>6 DEF Owned
<1>d. [Next]_vars => UNCHANGED <<pagefile, inuse>> \/ \E p \in Procs : Destroy(p) \/ Evicts(p)
  BY OfStep, FilesKept DEF Next, vars, frameVars, fileVars
<1> QED BY <1>a, <1>b, <1>c, <1>d

-----------------------------------------------------------------------------
\* A resident page that is not dirty is what its swap file holds, and
\* page_replace knows which pages are dirty.
Clean ==
    \A p \in Procs, a \in Pages :
        inRAM[p][a] =>
            /\ mem[p][a] # Unset /\ pagefile[p][a] # NoFile /\ ~pte[p][a].dirty =>
                  disk[pagefile[p][a]] = mem[p][a]
            /\ status[p] = "paging" /\ pte[p][a].dirty => dirty[p][a] # 0

\* The inductive invariant, besides Inv.
Kept == Transparent /\ Clean

\* Kept, of one page.
KeptAt(p, a) ==
    /\ mem[p][a] # Unset =>
         IF inRAM[p][a] THEN ram[p][a] = mem[p][a]
         ELSE pagefile[p][a] # NoFile /\ disk[pagefile[p][a]] = mem[p][a]
    /\ inRAM[p][a] =>
         /\ mem[p][a] # Unset /\ pagefile[p][a] # NoFile /\ ~pte[p][a].dirty =>
               disk[pagefile[p][a]] = mem[p][a]
         /\ status[p] = "paging" /\ pte[p][a].dirty => dirty[p][a] # 0

LEMMA KeptPages == Kept <=> \A p \in Procs, a \in Pages : KeptAt(p, a)
BY DEF Kept, Transparent, Clean, KeptAt

\* A step of one process does not write into the swap files of another.
LEMMA OthersFiles ==
  ASSUME Inv, NEW p \in Procs, Step(p), NEW q \in Procs, q # p, NEW a \in Pages,
         pagefile[q][a] # NoFile
  PROVE  disk'[pagefile[q][a]] = disk[pagefile[q][a]]
<1>1. CASE Evicts(p)
  <2>1. PICK f \in 0 .. pagefile_num :
           /\ \A r \in Procs, b \in Pages : pagefile[r][b] = f => r = p /\ b = replacer[p]
           /\ pagefile_num' = IF f = pagefile_num THEN f + 1 ELSE pagefile_num
           /\ disk' = [g \in 0 .. pagefile_num' - 1 |->
                          IF g = f /\ MustSave(p, replacer[p]) THEN ram[p][replacer[p]] ELSE disk[g]]
    BY SMTT(30), <1>1, ReplaceFile DEF Inv
  <2>2. pagefile[q][a] # f
    BY <2>1
  <2>3. pagefile[q][a] \in 0 .. pagefile_num' - 1
    BY SMTT(30), <2>1, TypeParts DEF Inv, FileTypes, Files
  <2> QED BY <2>1, <2>2, <2>3
<1>2. CASE disk' = disk
  BY <1>2
<1> QED BY <1>1, <1>2, FilesKept DEF Destroy

\* page_replace: the victim is saved unless its file has its contents already,
\* and the target, if it gets the frame, gets back what its file holds.
LEMMA KeptReplace ==
  ASSUME Inv, Kept, NEW p \in Procs, Evicts(p), NEW b \in Pages
  PROVE  KeptAt(p, b)'
<1> DEFINE v == replacer[p]
           a == target[p]
<1>1. /\ v \in Pages /\ a \in Pages /\ inRAM[p][v] /\ ~inRAM[p][a]
      /\ status[p] = "paging" /\ status'[p] # "paging" /\ mem' = mem
  <2>1. TypeOK /\ ShapeOf(p) /\ DOMAIN status = Procs
    BY TypeParts DEF Inv, Shape, ProcTypes
  <2>2. v \in Pages /\ a \in Pages /\ inRAM[p][v] /\ ~inRAM[p][a] /\ status[p] = "paging"
    BY <2>1, ReplaceAt
  <2>3. mem' = mem /\ (status' = [status EXCEPT ![p] = "run"] \/ status' = [status EXCEPT ![p] = "blocked"])
    BY DEF Evicts, Replace, ReplaceFails
  <2> HIDE DEF v, a
  <2> QED BY <2>1, <2>2, <2>3
<1>e. \/ /\ inRAM' = [inRAM EXCEPT ![p][v] = FALSE, ![p][a] = TRUE]
         /\ ram' = [ram EXCEPT ![p][a] = IF pagefile[p][a] # NoFile
                                         THEN disk'[pagefile[p][a]] ELSE ram[p][v]]
         /\ pte' = [pte EXCEPT ![p][a] = Clear]
      \/ inRAM' = [inRAM EXCEPT ![p][v] = FALSE] /\ UNCHANGED <<ram, pte>>
  BY DEF Evicts, Replace, ReplaceFails
<1>2. PICK f \in 0 .. pagefile_num :
         /\ \A r \in Procs, c \in Pages : pagefile[r][c] = f => r = p /\ c = v
         /\ pagefile[p][v] # NoFile => f = pagefile[p][v]
         /\ pagefile' = [pagefile EXCEPT ![p][v] = f]
         /\ pagefile_num' = IF f = pagefile_num THEN f + 1 ELSE pagefile_num
         /\ disk' = [g \in 0 .. pagefile_num' - 1 |->
                        IF g = f /\ MustSave(p, v) THEN ram[p][v] ELSE disk[g]]
  BY SMTT(30), ReplaceFile DEF Inv
<1> HIDE DEF v, a
<1>3. /\ f \in 0 .. pagefile_num' - 1 /\ f # NoFile
      /\ \A c \in Pages : pagefile[p][c] # NoFile => pagefile[p][c] \in 0 .. pagefile_num' - 1
  BY SMTT(30), <1>2, TypeParts DEF Inv, FileTypes, Files, NoFile
<1>t. /\ inRAM \in [Procs -> [Pages -> BOOLEAN]] /\ pte \in [Procs -> [Pages -> Bits]]
      /\ ram \in [Procs -> [Pages -> Contents]] /\ pagefile \in [Procs -> [Pages -> Files \cup {NoFile}]]
  BY TypeParts DEF Inv, FrameTypes, DataTypes, FileTypes
<1>4. \A c \in Pages : c # v => pagefile'[p][c] = pagefile[p][c] /\ pagefile[p][c] # f
  BY <1>t, <1>1, <1>2
<1>5. ASSUME NEW c \in Pages, c # v, pagefile[p][c] # NoFile
      PROVE  disk'[pagefile[p][c]] = disk[pagefile[p][c]]
  BY <1>2, <1>3, <1>4, <1>5
<1>6. pagefile'[p][v] = f /\ disk'[f] = IF MustSave(p, v) THEN ram[p][v] ELSE disk[f]
  BY <1>t, <1>1, <1>2, <1>3
<1>7. KeptAt(p, v) /\ KeptAt(p, a) /\ KeptAt(p, b)
  BY <1>1, KeptPages
<1>8. CASE b = v
  <2>1. ~inRAM'[p][v]
    BY SMTT(30), <1>t, <1>1, <1>e
  <2>2. mem[p][v] # Unset => disk'[f] = mem[p][v]
    BY <1>1, <1>2, <1>6, <1>7 DEF KeptAt, MustSave
  <2> QED BY <1>1, <1>3, <1>6, <1>8, <2>1, <2>2 DEF KeptAt
<1>9. CASE b = a
  <2>0. a # v
    BY <1>1
  <2>1. mem[p][a] # Unset => pagefile[p][a] # NoFile /\ disk[pagefile[p][a]] = mem[p][a]
    BY <1>1, <1>7 DEF KeptAt
  <2>2. inRAM'[p][a] /\ pagefile[p][a] # NoFile => ram'[p][a] = disk[pagefile[p][a]]
    BY SMTT(30), <1>t, <1>1, <1>e, <1>5, <2>0
  <2> QED BY <1>1, <1>4, <1>5, <1>9, <2>0, <2>1, <2>2 DEF KeptAt
<1>10. CASE b # v /\ b # a
  <2>1. inRAM'[p][b] = inRAM[p][b] /\ ram'[p][b] = ram[p][b] /\ pte'[p][b] = pte[p][b]
    BY SMTT(30), <1>t, <1>1, <1>e, <1>10
  <2> QED BY <1>1, <1>4, <1>5, <1>7, <1>10, <2>1 DEF KeptAt
<1> QED BY <1>8, <1>9, <1>10

LEMMA KeptInit == Init => Kept
BY SMTT(30) DEF Init, Kept, Transparent, Clean, Everywhere

LEMMA KeptNext ==
  ASSUME ServerValues \subseteq {Unset}, Inv, Kept, [Next]_vars
  PROVE  Kept'
<1> USE DEF listVars, frameVars, fileVars, upVars
<1>a. CASE UNCHANGED vars
  BY <1>a DEF Kept, Transparent, Clean, vars
<1>b. ASSUME NEW p \in size.procs, Step(p), UNCHANGED size PROVE Kept'
  <2>0. p \in Procs /\ size \in Sizes /\ TypeOK /\ ShapeOf(p)
    BY OfStep DEF Inv, Shape
  <2>t. /\ DOMAIN status = Procs /\ DOMAIN mem = Procs /\ DOMAIN ram = Procs
        /\ \A q \in Procs : DOMAIN mem[q] = Pages /\ DOMAIN ram[q] = Pages
        /\ inRAM \in [Procs -> [Pages -> BOOLEAN]] /\ dirty \in [Procs -> [Pages -> 0 .. 2]]
        /\ pte \in [Procs -> [Pages -> Bits]]
    BY <2>0, TypeParts DEF ProcTypes, DataTypes, FrameTypes
  <2>q. ASSUME NEW q \in Procs, q # p, NEW b \in Pages PROVE KeptAt(q, b)'
    <3>1. Same(q) /\ KeptAt(q, b)
      BY <2>0, <2>q, <1>b, Others, KeptPages DEF Inv
    <3>2. pagefile[q][b] # NoFile => disk'[pagefile[q][b]] = disk[pagefile[q][b]]
      BY <2>0, <2>q, <1>b, OthersFiles
    <3> QED BY <3>1, <3>2 DEF Same, KeptAt
  <2>p. SUFFICES ASSUME NEW b \in Pages PROVE KeptAt(p, b)'
    <3>1. \A q \in Procs, c \in Pages : KeptAt(q, c)'
      BY <2>p, <2>q, <2>0
    <3> QED BY <3>1 DEF Kept, Transparent, Clean, KeptAt
  <2>k. KeptAt(p, b)
    BY <2>0, KeptPages
  <2>1. CASE Exec(p)
    <3>1. mem'[p][b] = Unset /\ status'[p] = "run"
      BY <2>0, <2>t, <2>1 DEF Exec, ShapeOf
    <3> QED BY <3>1 DEF KeptAt
  <2>2. CASE Destroy(p)
    <3>1. mem'[p][b] = Unset /\ ~inRAM'[p][b]
      BY <2>0, <2>t, <2>2 DEF Destroy, Wipe
    <3> QED BY <3>1 DEF KeptAt
  <2>3. CASE /\ status' = status \/ status' = [status EXCEPT ![p] = "blocked"]
             /\ UNCHANGED <<frameVars, pte, ram, fileVars, mem>>
    <3>1. status'[p] # "paging" \/ status'[p] = status[p]
      BY <2>0, <2>t, <2>3
    <3> QED BY <2>3, <2>k, <3>1 DEF KeptAt
  <2>4. ASSUME NEW a \in Pages, NEW x, Store(p, a, x) PROVE KeptAt(p, b)'
    <3>1. CASE b = a
      <4>1. inRAM'[p][b] /\ ram'[p][b] = mem'[p][b] /\ pte'[p][b].dirty /\ status'[p] = "run"
        BY <2>0, <2>t, <2>4, <3>1 DEF Store
      <4> QED BY <4>1 DEF KeptAt
    <3>2. CASE b # a
      <4>1. ram'[p][b] = ram[p][b] /\ mem'[p][b] = mem[p][b] /\ pte'[p][b] = pte[p][b]
        BY <2>0, <2>t, <2>4, <3>2 DEF Store
      <4> QED BY <2>4, <2>k, <4>1 DEF KeptAt, Store
    <3> QED BY <3>1, <3>2
  <2>5. ASSUME NEW a \in Pages, NEW x \in ServerValues, ServerStore(p, a, x), inRAM[p][a]
        PROVE  KeptAt(p, b)'
    <3>0. /\ x = Unset /\ status' = status /\ status[p] = "run"
          /\ ram' = [ram EXCEPT ![p][a] = x] /\ mem' = [mem EXCEPT ![p][a] = x]
          /\ UNCHANGED <<frameVars, pte, fileVars>>
      BY <2>5 DEF ServerStore
    <3>1. CASE b = a
      <4>1. mem'[p][b] = Unset
        BY <2>0, <2>t, <3>0, <3>1
      <4> QED BY <3>0, <4>1 DEF KeptAt
    <3>2. CASE b # a
      <4>1. ram'[p][b] = ram[p][b] /\ mem'[p][b] = mem[p][b]
        BY <2>0, <2>t, <3>0, <3>2
      <4> QED BY <3>0, <2>k, <4>1 DEF KeptAt
    <3> QED BY <3>1, <3>2
  <2>6. ASSUME NEW a \in Pages, Load(p, a) PROVE KeptAt(p, b)'
    <3>1. pte'[p][b].dirty = pte[p][b].dirty
      BY <2>0, <2>t, <2>6 DEF Load, Bits
    <3> QED BY <2>6, <2>k, <3>1 DEF KeptAt, Load
  <2>7. ASSUME NEW a \in Usable(p), ExpandStack(p, a) \/ FaultHeap(p, a) PROVE KeptAt(p, b)'
    <3>1. /\ a \in Pages /\ ~inRAM[p][a] /\ AllocFrame(p, a) /\ status[p] = "run"
          /\ UNCHANGED <<pagefile, fileVars, mem>>
      BY <2>0, <2>7, UsablePages DEF ExpandStack, FaultHeap, Faults
    <3>2. CASE BeginReplace(p, a)
      <4>1. inRAM[p][b] /\ pte[p][b].dirty => dirty'[p][b] # 0
        BY SMTT(30), <2>0, <2>t, <3>2 DEF BeginReplace
      <4> QED BY <2>k, <3>1, <3>2, <4>1 DEF KeptAt, BeginReplace
    <3>3. CASE TakeFrame(p, a) /\ used[p] < MAX_PFRAME_NUM
      <4>1. \A c \in Pages : pagefile[p][c] = NoFile
        <5>1. used[p] \in Nat /\ MAX_PFRAME_NUM \in Nat
          BY <2>0, Full
        <5> QED BY SMTT(30), <2>0, <3>3, <5>1 DEF ShapeOf
      <4>2. mem[p][a] = Unset
        <5>1. KeptAt(p, a)
          BY <2>0, <3>1, KeptPages
        <5> QED BY <3>1, <4>1, <5>1 DEF KeptAt
      <4>3. CASE b = a
        BY <3>1, <3>3, <4>1, <4>2, <4>3 DEF KeptAt, TakeFrame
      <4>4. CASE b # a
        <5>1. ram'[p][b] = ram[p][b] /\ inRAM'[p][b] = inRAM[p][b] /\ pte'[p][b] = pte[p][b]
          BY <2>0, <2>t, <3>1, <3>3, <4>4 DEF TakeFrame
        <5> QED BY <2>k, <3>1, <3>3, <5>1 DEF KeptAt, TakeFrame
      <4> QED BY <4>3, <4>4
    <3> QED BY <3>1, <3>2, <3>3 DEF AllocFrame
  <2>8. CASE Sweep(p)
    <3>1. dirty[p][b] # 0 => dirty'[p][b] # 0
      BY SMTT(30), <2>0, <2>t, <2>8 DEF Sweep
    <3> QED BY <2>k, <2>8, <3>1 DEF KeptAt, Sweep
  <2>9. CASE Evicts(p)
    BY <2>0, <2>9, KeptReplace
  <2>10. ASSUME NEW a, BeginReplace(p, a), UNCHANGED <<pagefile, fileVars, mem>> PROVE KeptAt(p, b)'
    <3>1. inRAM[p][b] /\ pte[p][b].dirty => dirty'[p][b] # 0
      BY SMTT(30), <2>0, <2>t, <2>10 DEF BeginReplace
    <3> QED BY <2>k, <2>10, <3>1 DEF KeptAt, BeginReplace
  <2>11. ASSUME NEW a \in Usable(p), ExpandStackFails(p, a) PROVE KeptAt(p, b)'
    BY <2>3, <2>10, <2>11 DEF ExpandStackFails
  <2> QED BY <1>b, <2>1, <2>2, <2>3, <2>4, <2>5, <2>6, <2>7, <2>8, <2>9, <2>11
          DEF Step, Kill, BrkQuery, Brk, ServerStore, FaultIgnored, FaultNoPage, Evicts
<1> QED BY <1>a, <1>b DEF Next

-----------------------------------------------------------------------------
\* The theorems on cardinality, which only what follows needs.
INSTANCE FiniteSetTheorems

LEMMA ResidentFinite == ASSUME NEW p PROVE IsFiniteSet(Resident(p))
<1>1. IsFiniteSet(Pages)
  BY SMTT(30), FS_Interval, PagingAssumption DEF Pages
<1> QED BY <1>1, FS_Subset DEF Resident

LEMMA CountedInit == Init => FramesCounted
<1> SUFFICES ASSUME Init, NEW p \in Procs PROVE Cardinality(Resident(p)) + InHand(p) = used[p]
  BY DEF FramesCounted
<1>1. Resident(p) = {} /\ used[p] = 0 /\ InHand(p) = 0
  BY DEF Init, Resident, Everywhere, InHand
<1> QED BY SMTT(30), <1>1, FS_EmptySet

\* pframes_used follows the frames that a process gets, trades and loses.
LEMMA CountedNext == TypeOK /\ Shape /\ FramesCounted /\ [Next]_vars => FramesCounted'
<1> SUFFICES ASSUME TypeOK, Shape, FramesCounted, [Next]_vars PROVE FramesCounted'
  OBVIOUS
<1> USE DEF listVars, frameVars, fileVars, upVars
<1>a. CASE UNCHANGED vars
  BY <1>a DEF FramesCounted, Resident, InHand, vars
<1>b. ASSUME NEW p \in size.procs, Step(p), UNCHANGED size PROVE FramesCounted'
  <2>0. p \in Procs /\ size \in Sizes /\ ShapeOf(p)
    BY OfStep DEF Shape
  <2>c. Cardinality(Resident(p)) + InHand(p) = used[p]
    BY <2>0 DEF FramesCounted
  <2>1. /\ IsFiniteSet(Resident(p)) /\ Cardinality(Resident(p)) \in Nat /\ used[p] \in Nat
        /\ InHand(p) \in {0, 1}
    BY <2>0, ResidentFinite, Full, FS_CardinalityType DEF InHand
  <2>n. ASSUME status[p] \in {"run", "paging"}
        PROVE  InHand(p) = 0 /\ Cardinality(Resident(p)) = used[p]
    <3>1. InHand(p) = 0
      BY <2>0, <2>n DEF InHand, ShapeOf
    <3> QED BY SMTT(30), <2>c, <2>1, <3>1
  <2>t. /\ inRAM \in [Procs -> [Pages -> BOOLEAN]] /\ DOMAIN used = Procs
        /\ DOMAIN status = Procs /\ DOMAIN twin = Procs
    BY TypeParts DEF FrameTypes, ProcTypes, ListTypes
  <2>q. ASSUME NEW q \in Procs, q # p PROVE Cardinality(Resident(q)') + InHand(q)' = used'[q]
    <3>1. Same(q)
      BY <2>0, <2>q, <1>b, Others
    <3>2. Resident(q)' = Resident(q) /\ InHand(q)' = InHand(q)
      BY <3>1 DEF Same, Resident, InHand
    <3> QED BY <3>1, <3>2 DEF Same, FramesCounted
  <2>p. SUFFICES Cardinality(Resident(p)') + InHand(p)' = used'[p]
    BY <2>q DEF FramesCounted
  <2>z. ASSUME NEW n \in Nat, Cardinality(Resident(p)') = n, used'[p] = n, InHand(p)' = 0
        PROVE  Cardinality(Resident(p)') + InHand(p)' = used'[p]
    BY SMTT(30), <2>z
  <2>2. CASE Exec(p)
    <3>1. Resident(p)' = InitialStack /\ used'[p] = STACK_SIZE
      <4>1. InitialStack \subseteq Pages
        BY <2>0, Basics
      <4> QED BY <2>0, <2>t, <2>2, <4>1 DEF Exec, Resident
    <3>2. Cardinality(InitialStack) = STACK_SIZE
      BY SMTT(30), FS_Interval, PagingAssumption DEF InitialStack
    <3>3. InHand(p)' = 0
      BY <2>0, <2>2 DEF Exec, InHand, ShapeOf
    <3> QED BY <2>z, <3>1, <3>2, <3>3, PagingAssumption
  <2>3. CASE Destroy(p)
    <3>1. Resident(p)' = {} /\ used'[p] = 0 /\ InHand(p)' = 0
      BY <2>0, <2>t, <2>3 DEF Destroy, Wipe, Resident, InHand
    <3> QED BY <2>z, <3>1, FS_EmptySet
  <2>4. CASE /\ UNCHANGED <<inRAM, used, twin>> /\ status[p] \in {"run", "paging"}
             /\ \/ status' = status
                \/ status' = [status EXCEPT ![p] = "blocked"] /\ status[p] = "run"
                \/ status' = [status EXCEPT ![p] = "paging"]
    <3>1. InHand(p)' = 0
      BY <2>0, <2>t, <2>4 DEF InHand, ShapeOf
    <3>2. Resident(p)' = Resident(p)
      BY <2>4 DEF Resident
    <3> QED BY <2>z, <2>1, <2>n, <2>4, <3>1, <3>2
  <2>5. ASSUME NEW a \in Usable(p), ExpandStack(p, a) \/ FaultHeap(p, a)
        PROVE  Cardinality(Resident(p)') + InHand(p)' = used'[p]
    <3>1. a \in Pages /\ ~inRAM[p][a] /\ AllocFrame(p, a) /\ status[p] = "run" /\ twin' = twin
      <4>1. ~inRAM[p][a] /\ AllocFrame(p, a) /\ status[p] = "run" /\ twin' = twin
        BY <2>5 DEF ExpandStack, FaultHeap, Faults
      <4> QED BY <2>0, <4>1, UsablePages
    <3>2. CASE BeginReplace(p, a)
      BY <2>4, <3>1, <3>2 DEF BeginReplace
    <3>3. CASE TakeFrame(p, a)
      <4>1. Resident(p)' = Resident(p) \cup {a} /\ used'[p] = used[p] + 1
        BY <2>0, <2>t, <3>1, <3>3 DEF TakeFrame, Resident
      <4>2. a \notin Resident(p)
        BY <3>1 DEF Resident
      <4>3. Cardinality(Resident(p) \cup {a}) = Cardinality(Resident(p)) + 1
        BY <4>2, <2>1, FS_AddElement
      <4>4. InHand(p)' = 0 /\ used[p] + 1 \in Nat /\ Cardinality(Resident(p)) = used[p]
        <5>1. InHand(p)' = 0
          BY <2>0, <3>1, <3>3 DEF InHand, ShapeOf, TakeFrame
        <5>2. used[p] + 1 \in Nat
          BY SMTT(30), <2>1
        <5> QED BY <5>1, <5>2, <2>n, <3>1
      <4> QED BY <2>z, <4>1, <4>3, <4>4
    <3> QED BY <3>1, <3>2, <3>3 DEF AllocFrame
  <2>6. CASE Replace(p)
    <3> DEFINE v == replacer[p]
               a == target[p]
    <3>1. v \in Pages /\ a \in Pages /\ inRAM[p][v] /\ ~inRAM[p][a] /\ status[p] = "paging"
      BY <2>0, <2>6, ReplaceAt DEF Evicts
    <3>2. /\ inRAM' = [inRAM EXCEPT ![p][v] = FALSE, ![p][a] = TRUE]
          /\ used' = used /\ InHand(p)' = 0
      BY <2>0, <2>6 DEF Replace, InHand, listVars
    <3> HIDE DEF v, a
    <3>3. Resident(p)' = (Resident(p) \ {v}) \cup {a}
      BY <2>0, <2>t, <3>1, <3>2 DEF Resident
    <3>4. v \in Resident(p) /\ a \notin Resident(p) \ {v}
      BY <3>1 DEF Resident
    <3>5. /\ IsFiniteSet(Resident(p) \ {v})
          /\ Cardinality(Resident(p) \ {v}) = Cardinality(Resident(p)) - 1
      BY <2>1, <3>4, FS_RemoveElement
    <3>6. Cardinality(Resident(p)') = Cardinality(Resident(p) \ {v}) + 1
      BY <3>3, <3>4, <3>5, FS_AddElement
    <3>7. Cardinality(Resident(p)) = used[p]
      BY <2>n, <3>1
    <3> QED BY SMTT(30), <2>1, <3>2, <3>5, <3>6, <3>7
  <2>7. CASE ReplaceFails(p)
    <3> DEFINE v == replacer[p]
    <3>1. v \in Pages /\ inRAM[p][v] /\ status[p] = "paging"
      BY <2>0, <2>7, ReplaceAt DEF Evicts
    <3>2. inRAM' = [inRAM EXCEPT ![p][v] = FALSE] /\ used' = used /\ InHand(p)' = 1
      BY <2>0, <2>t, <2>7 DEF ReplaceFails, InHand, listVars
    <3> HIDE DEF v
    <3>3. Resident(p)' = Resident(p) \ {v} /\ v \in Resident(p)
      BY <2>0, <2>t, <3>1, <3>2 DEF Resident
    <3>4. Cardinality(Resident(p)') = Cardinality(Resident(p)) - 1
      BY <2>1, <3>3, FS_RemoveElement
    <3>5. Cardinality(Resident(p)) = used[p]
      BY <2>n, <3>1
    <3> QED BY SMTT(30), <2>1, <3>2, <3>4, <3>5
  <2>8. ASSUME NEW a \in Usable(p), ExpandStackFails(p, a)
        PROVE  Cardinality(Resident(p)') + InHand(p)' = used'[p]
    <3>1. status[p] = "run" /\ twin' = [twin EXCEPT ![p] = TRUE]
      BY <2>8 DEF ExpandStackFails, Faults
    <3>2. CASE /\ used' = [used EXCEPT ![p] = @ + 1] /\ UNCHANGED inRAM
               /\ status' = [status EXCEPT ![p] = "blocked"]
      <4>1. used'[p] = used[p] + 1 /\ Resident(p)' = Resident(p) /\ InHand(p)' = 1
        BY <2>0, <2>t, <3>1, <3>2 DEF Resident, InHand
      <4> QED BY <2>n, <3>1, <4>1
    <3>3. CASE BeginReplace(p, a)
      <4>1. used' = used /\ Resident(p)' = Resident(p) /\ InHand(p)' = 0
        BY <2>0, <2>t, <3>1, <3>3 DEF BeginReplace, Resident, InHand
      <4> QED BY <2>z, <2>1, <2>n, <3>1, <4>1
    <3> QED BY <2>8, <3>2, <3>3 DEF ExpandStackFails
  <2>9. CASE FaultIgnored(p) \/ (FaultNoPage(p) /\ ~Destroy(p))
    BY <2>4, <2>9 DEF FaultIgnored, FaultNoPage, Faults
  <2>10. ASSUME NEW a \in Pages, NEW v, Store(p, a, v) \/ ServerStore(p, a, v) \/ Load(p, a)
         PROVE  Cardinality(Resident(p)') + InHand(p)' = used'[p]
    BY <2>4, <2>10 DEF Store, ServerStore, Load
  <2>11. CASE BrkQuery(p) \/ (\E n \in 1 .. HEAP_LIMIT : Brk(p, n)) \/ Sweep(p)
    BY <2>4, <2>11 DEF BrkQuery, Brk, Sweep
  <2>12. CASE FaultNoPage(p) /\ Destroy(p)
    BY <2>3, <2>12
  <2> QED BY <1>b, <2>2, <2>3, <2>5, <2>6, <2>7, <2>8, <2>9, <2>10, <2>11, <2>12
          DEF Step, Kill
<1> QED BY <1>a, <1>b DEF Next

-----------------------------------------------------------------------------
\* The inductive invariant holds in every behaviour.
THEOREM PagingInvariant == Spec => []Inv
<1>1. Init => Inv
  BY TypeInit, ShapeInit, OwnedInit, CountedInit DEF Inv
<1>2. Inv /\ [Next]_vars => Inv'
  BY TypeNext, ShapeNext, OwnedNext, CountedNext DEF Inv
<1> QED BY <1>1, <1>2, PTL DEF Spec

\* Every field of every PCB and VFrame, and the list of swap files, keep to
\* their types: no process ever has more than MAX_PFRAME_NUM frames.
THEOREM PagingTypes == Spec => []TypeOK
BY PagingInvariant, PTL DEF Inv

\* pframes_used counts the frames of a process exactly, through page faults,
\* replacements and the end of the process: its resident pages, and the frame
\* taken from a victim when the replacement stops the page-fault thread.
THEOREM FramesAreCounted == Spec => []FramesCounted
BY PagingInvariant, PTL DEF Inv

\* A swap file in use belongs to exactly one page of one process, and a file
\* not in use to none.
THEOREM FilesHaveOneOwner == Spec => []FilesOwned
<1>1. ASSUME Inv PROVE FilesOwned
  <2> SUFFICES ASSUME NEW f \in Files
               PROVE  Cardinality(Owners(f)) = IF f \in inuse THEN 1 ELSE 0
    BY DEF FilesOwned
  <2>0. Owned /\ f # NoFile
    BY SMTT(30), <1>1, TypeParts DEF Inv, FileTypes, Files, NoFile
  <2>1. CASE f \in inuse
    <3>1. PICK p \in Procs, a \in Pages : pagefile[p][a] = f
      BY <2>0, <2>1 DEF Owned
    <3>2. Owners(f) = {<<p, a>>}
      BY SMTT(30), <2>0, <3>1 DEF Owners, Owned
    <3> QED BY <2>1, <3>2, FS_Singleton
  <2>2. CASE f \notin inuse
    <3>1. Owners(f) = {}
      BY SMTT(30), <2>0, <2>2 DEF Owners, Owned
    <3> QED BY <2>2, <3>1, FS_EmptySet
  <2> QED BY <2>1, <2>2
<1> QED BY <1>1, PagingInvariant, PTL

\* Paging is transparent to every process for what it stores itself: what the
\* server stores is excluded, for it marks no page dirty (run dirty).
THEOREM PagingIsTransparent ==
  ASSUME ServerValues \subseteq {Unset}
  PROVE  Spec => []Transparent
<1>1. Init => Inv /\ Kept
  BY TypeInit, ShapeInit, OwnedInit, CountedInit, KeptInit DEF Inv
<1>2. Inv /\ Kept /\ [Next]_vars => Inv' /\ Kept'
  BY TypeNext, ShapeNext, OwnedNext, CountedNext, KeptNext DEF Inv
<1>3. Kept => Transparent
  BY DEF Kept
<1> QED BY <1>1, <1>2, <1>3, PTL DEF Spec

=============================================================================
