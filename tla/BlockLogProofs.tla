--------------------------- MODULE BlockLogProofs ---------------------------
(***************************************************************************)
(* For any size of a part, any number of parts kept, of readers, of blocks *)
(* and of kills: the files hold the committed state, a reader finds its    *)
(* block, a running node serves every part it should, an orderly close     *)
(* leaves no file behind and a plain start after it succeeds.              *)
(***************************************************************************)
EXTENDS BlockLog, NaturalsInduction, WellFoundedInduction, TLAPS

------------------------------------------------------------------------------
(* Largest and smallest elements. *)

\* A set of natural numbers that is not empty has a least element.
LEMMA LeastNat ==
  ASSUME NEW T, T \subseteq Nat, T # {}
  PROVE  \E n \in T : \A m \in T : n <= m
<1> DEFINE R == OpToRel(<, Nat)
<1>1. \A m, n \in Nat : <<m, n>> \in R <=> m < n
  BY DEF OpToRel
<1>2. IsWellFoundedOn(R, Nat)
  BY NatLessThanWellFounded
<1> HIDE DEF R
<1>3. PICK n \in T : \A m \in T : ~ (<<m, n>> \in R)
  BY <1>2, WFMin
<1>4. \A m \in T : m \in Nat /\ n \in Nat /\ ~(m < n)
  BY <1>1, <1>3, Zenon
<1> QED  BY <1>4

\* Max of a set of bounded natural numbers, as Start and Kill use it for the
\* parts that have a file.
LEMMA MaxBounded ==
  ASSUME NEW N \in Nat, NEW S, S \subseteq 1 .. N, S # {}
  PROVE  Max(S) \in S /\ \A x \in S : x <= Max(S)
<1> DEFINE T == {N - x : x \in S}
<1>1. T \subseteq Nat /\ T # {}
  OBVIOUS
<1>2. PICK n \in T : \A m \in T : n <= m
  BY <1>1, LeastNat
<1>3. PICK x \in S : n = N - x
  BY <1>2
<1>4. \A y \in S : x >= y
  <2> TAKE y \in S
  <2>1. n <= N - y  BY <1>2
  <2> QED  BY <1>3, <2>1
<1>5. \E z \in S : \A y \in S : z >= y
  BY <1>4
<1> QED  BY <1>5 DEF Max

\* Max and Min of two integers.
LEMMA MaxOfTwo ==
  ASSUME NEW a \in Int, NEW b \in Int
  PROVE  Max({a, b}) = IF a >= b THEN a ELSE b
<1>1. \E x \in {a, b} : \A y \in {a, b} : x >= y
  OBVIOUS
<1> QED  BY <1>1 DEF Max

\* Min of two integers.
LEMMA MinOfTwo ==
  ASSUME NEW a \in Int, NEW b \in Int
  PROVE  Min({a, b}) = IF a <= b THEN a ELSE b
<1>1. \E x \in {a, b} : \A y \in {a, b} : x =< y
  OBVIOUS
<1> QED  BY <1>1 DEF Min

------------------------------------------------------------------------------
(* Parts and their blocks. *)

\* Multiples of PartSize.
LEMMA Multiples ==
  ASSUME NEW c \in Nat \ {0}
  PROVE  /\ \A a \in Int : a * c \in Int /\ (a * c) % c = 0
         /\ \A a, b \in Int : a < b => a * c + c <= b * c
<1>1. ASSUME NEW a \in Int, NEW b \in Int, a < b
      PROVE  a * c + c <= b * c
  <2>1. a * c \in Int /\ b * c \in Int  OBVIOUS
  <2>2. b - a - 1 \in Nat  BY <1>1
  <2>3. (b - a - 1) * c >= 0  BY <2>2
  <2>4. (b - a - 1) * c = b * c - a * c - c  OBVIOUS
  <2> QED  BY <2>1, <2>3, <2>4
<1> QED  BY <1>1

\* The last block of a part comes before the first of the next one, and parts
\* do not overlap.
LEMMA PartBounds ==
  /\ \A p \in Int : /\ First(p) \in Int
                    /\ get_number_of_last_block_in_part(p) = First(p) + PartSize - 1
                    /\ First(p + 1) = First(p) + PartSize
  /\ First(1) = 1
  /\ \A p, q \in Int : p < q => First(p) + PartSize <= First(q)
  /\ \A p \in Int : p >= 1 => First(p) >= 1
<1>0. PartSize \in Nat \ {0}
  BY BlockLogAssumption
<1>1. \A p \in Int : p * PartSize \in Int /\ (p - 1) * PartSize = p * PartSize - PartSize
                     /\ (p + 1) * PartSize = p * PartSize + PartSize
  BY <1>0
<1>2. \A p, q \in Int : p < q => p * PartSize + PartSize <= q * PartSize
  BY <1>0, Multiples
<1>3. 0 * PartSize = 0
  BY <1>0
<1>4. \A p \in Int : First(p) = 1 + p * PartSize - PartSize
  BY <1>0, <1>1 DEF First, get_number_of_first_block_in_part
<1>5. \A p \in Int : /\ First(p) \in Int
                     /\ get_number_of_last_block_in_part(p) = First(p) + PartSize - 1
                     /\ First(p + 1) = First(p) + PartSize
  BY <1>0, <1>1, <1>4 DEF get_number_of_last_block_in_part
<1>6. First(1) = 1
  BY <1>0, <1>3 DEF First, get_number_of_first_block_in_part
<1>7. \A p, q \in Int : p < q => First(p) + PartSize <= First(q)
  BY <1>0, <1>1, <1>2, <1>4
<1>8. \A p \in Int : p >= 1 => First(p) >= 1
  BY <1>0, <1>5, <1>6, <1>7
<1> QED  BY <1>5, <1>6, <1>7, <1>8

\* A block lies in the part get_part_number_for_block names, and in no other.
LEMMA PartOfBlock ==
  /\ get_part_number_for_block(0) = 1
  /\ \A n \in Nat \ {0} :
       LET p == get_part_number_for_block(n)
       IN  p \in Nat \ {0} /\ First(p) <= n /\ n < First(p) + PartSize
  /\ \A n \in Nat \ {0}, p \in Int :
       First(p) <= n /\ n < First(p) + PartSize => get_part_number_for_block(n) = p
<1>0. PartSize \in Nat \ {0}
  BY BlockLogAssumption
<1>1. ASSUME NEW n \in Nat \ {0}
      PROVE  LET p == get_part_number_for_block(n)
             IN  p \in Nat \ {0} /\ First(p) <= n /\ n < First(p) + PartSize
  <2> DEFINE p == (n + PartSize - 1) \div PartSize
  <2>1. p \in Int /\ PartSize * p <= n + PartSize - 1 /\ n + PartSize - 1 < PartSize * p + PartSize
    BY <1>0
  <2>2. get_part_number_for_block(n) = p
    BY DEF get_part_number_for_block
  <2>3. First(p) = 1 + PartSize * p - PartSize
    BY <1>0, <2>1 DEF First, get_number_of_first_block_in_part
  <2> HIDE DEF p
  <2>4. First(p) <= n /\ n < First(p) + PartSize
    BY <1>0, <2>1, <2>3
  <2>5. p \in Nat \ {0}
    <3> SUFFICES ASSUME p < 1 PROVE FALSE
      BY <2>1
    <3>1. First(p) + PartSize <= First(1)
      BY <2>1, PartBounds
    <3> QED  BY <1>0, <2>1, <2>4, <3>1, PartBounds
  <2> QED  BY <2>2, <2>4, <2>5
<1>2. ASSUME NEW n \in Nat \ {0}, NEW p \in Int, First(p) <= n, n < First(p) + PartSize
      PROVE  get_part_number_for_block(n) = p
  <2> DEFINE q == get_part_number_for_block(n)
  <2>1. q \in Int /\ First(q) <= n /\ n < First(q) + PartSize
    BY <1>1
  <2> HIDE DEF q
  <2>2. First(p) \in Int /\ First(q) \in Int
    BY <2>1, PartBounds
  <2>3. ~(p < q)
    <3> SUFFICES ASSUME p < q PROVE FALSE  OBVIOUS
    <3>1. First(p) + PartSize <= First(q)  BY <2>1, PartBounds
    <3> QED  BY <1>0, <1>2, <2>1, <2>2, <3>1
  <2>4. ~(q < p)
    <3> SUFFICES ASSUME q < p PROVE FALSE  OBVIOUS
    <3>1. First(q) + PartSize <= First(p)  BY <2>1, PartBounds
    <3> QED  BY <1>0, <1>2, <2>1, <2>2, <3>1
  <2>5. q = p
    BY <2>1, <2>3, <2>4
  <2> QED  BY <2>5 DEF q
<1>3. get_part_number_for_block(0) = 1
  BY DEF get_part_number_for_block
<1> QED  BY <1>1, <1>2, <1>3

\* Later blocks are in later parts; PartSize blocks further is the next part.
LEMMA PartOrder ==
  /\ \A n \in Nat : get_part_number_for_block(n) \in Nat \ {0}
  /\ \A m, n \in Nat : m <= n => get_part_number_for_block(m) <= get_part_number_for_block(n)
  /\ \A n \in Nat : get_part_number_for_block(n + PartSize) <= get_part_number_for_block(n) + 1
  /\ get_part_number_for_block(PartSize) = 1
  /\ \A n \in Nat, p \in Int : n = First(p) + PartSize - 1 => is_last_number_of_the_file(n)
<1>0. PartSize \in Nat \ {0}
  BY BlockLogAssumption
<1>1. \A n \in Nat : get_part_number_for_block(n) \in Nat \ {0}
  BY PartOfBlock
<1>2. ASSUME NEW m \in Nat, NEW n \in Nat, m <= n
      PROVE  get_part_number_for_block(m) <= get_part_number_for_block(n)
  <2>1. CASE m = 0
    BY <1>1, <2>1, PartOfBlock
  <2>2. CASE m # 0
    <3> DEFINE p == get_part_number_for_block(m)
               q == get_part_number_for_block(n)
    <3>1. p \in Nat /\ First(p) <= m
      BY <2>2, PartOfBlock
    <3>2. q \in Nat /\ n < First(q) + PartSize
      BY <1>2, <2>2, PartOfBlock
    <3> HIDE DEF p, q
    <3>3. First(p) \in Int /\ First(q) \in Int /\ (q < p => First(q) + PartSize <= First(p))
      BY <3>1, <3>2, PartBounds
    <3>4. p <= q
      BY <1>0, <1>2, <3>1, <3>2, <3>3
    <3> QED  BY <3>4 DEF p, q
  <2> QED  BY <2>1, <2>2
<1>3. get_part_number_for_block(PartSize) = 1
  <2>0. First(1) = 1
    BY PartBounds
  <2>1. First(1) <= PartSize /\ PartSize < First(1) + PartSize
    BY <1>0, <2>0
  <2> QED  BY <1>0, <2>1, PartOfBlock
<1>4. ASSUME NEW n \in Nat
      PROVE  get_part_number_for_block(n + PartSize) <= get_part_number_for_block(n) + 1
  <2>1. CASE n = 0
    <3>1. n + PartSize = PartSize  BY <1>0, <2>1
    <3> QED  BY <1>3, <2>1, <3>1, PartOfBlock
  <2>2. CASE n # 0
    <3> DEFINE p == get_part_number_for_block(n)
    <3>1. p \in Int /\ First(p) <= n /\ n < First(p) + PartSize
      BY <2>2, PartOfBlock
    <3> HIDE DEF p
    <3>2. First(p) \in Int /\ First(p + 1) = First(p) + PartSize
      BY <3>1, PartBounds
    <3>3. First(p + 1) <= n + PartSize /\ n + PartSize < First(p + 1) + PartSize
      BY <1>0, <3>1, <3>2
    <3>4. n + PartSize \in Nat \ {0} /\ p + 1 \in Int
      BY <1>0, <3>1
    <3>5. get_part_number_for_block(n + PartSize) = p + 1
      BY <3>3, <3>4, PartOfBlock
    <3> QED  BY <3>1, <3>5 DEF p
  <2> QED  BY <2>1, <2>2
<1>5. ASSUME NEW n \in Nat, NEW p \in Int, n = First(p) + PartSize - 1
      PROVE  is_last_number_of_the_file(n)
  <2>1. n = p * PartSize
    BY <1>0, <1>5, PartBounds DEF get_number_of_last_block_in_part
  <2> QED  BY <1>0, <2>1, Multiples DEF is_last_number_of_the_file
<1> QED  BY <1>1, <1>2, <1>3, <1>4, <1>5

\* The block after the last one of a part is the first of the next.
LEMMA AfterLast ==
  ASSUME NEW n \in Nat, is_last_number_of_the_file(n)
  PROVE  First(get_part_number_for_block(n + 1)) = n + 1
<1> DEFINE q == n \div PartSize
<1>0. PartSize \in Nat \ {0}
  BY BlockLogAssumption
<1>1. q \in Int /\ n = q * PartSize
  BY <1>0 DEF is_last_number_of_the_file
<1> HIDE DEF q
<1>2. First(q + 1) = n + 1
  BY <1>0, <1>1 DEF First, get_number_of_first_block_in_part
<1>3. get_part_number_for_block(n + 1) = q + 1
  <2>1. n + 1 \in Nat \ {0} /\ q + 1 \in Int
    BY <1>1
  <2>2. First(q + 1) <= n + 1 /\ n + 1 < First(q + 1) + PartSize
    BY <1>0, <1>2
  <2> QED  BY <2>1, <2>2, PartOfBlock
<1> QED  BY <1>2, <1>3

\* The parts that exist are those of the blocks there may be.
LEMMA PartsOfBlocks ==
  /\ Part = 1 .. get_part_number_for_block(MaxBlock)
  /\ get_part_number_for_block(MaxBlock) \in Nat \ {0}
  /\ \A n \in 0 .. MaxBlock : get_part_number_for_block(n) \in Part
  /\ \A p \in Part : p \in Nat \ {0} /\ First(p) \in 1 .. MaxBlock
<1>0. PartSize \in Nat \ {0} /\ MaxBlock \in Nat \ {0}
  BY BlockLogAssumption
<1>1. Part = 1 .. get_part_number_for_block(MaxBlock)
  BY DEF Part
<1>2. get_part_number_for_block(MaxBlock) \in Nat \ {0}
  BY <1>0, PartOrder
<1>3. ASSUME NEW n \in 0 .. MaxBlock
      PROVE  get_part_number_for_block(n) \in Part
  <2>1. n \in Nat /\ n <= MaxBlock /\ MaxBlock \in Nat
    BY <1>0
  <2>2. /\ get_part_number_for_block(n) \in Nat \ {0}
        /\ get_part_number_for_block(n) <= get_part_number_for_block(MaxBlock)
    BY <2>1, PartOrder
  <2> QED  BY <1>1, <1>2, <2>2
<1>4. ASSUME NEW p \in Part
      PROVE  p \in Nat \ {0} /\ First(p) \in 1 .. MaxBlock
  <2> DEFINE q == get_part_number_for_block(MaxBlock)
  <2>1. q \in Nat \ {0} /\ First(q) <= MaxBlock
    BY <1>0, PartOfBlock
  <2>2. p \in Nat \ {0} /\ p <= q
    BY <1>1, <1>2
  <2> HIDE DEF q
  <2>3. First(p) \in Int /\ First(q) \in Int /\ First(p) >= 1
        /\ (p < q => First(p) + PartSize <= First(q))
    BY <2>1, <2>2, PartBounds
  <2> QED  BY <1>0, <2>1, <2>2, <2>3
<1> QED  BY <1>1, <1>2, <1>3, <1>4

------------------------------------------------------------------------------
(* The inductive invariant. *)

\* t is the newest part with a file.
Topmost(t) == t \in Files /\ \A p \in Files : p <= t

Starting == phase \in {"open", "index", "generate", "load"}
Writing == phase \in {"create", "createArtifacts", "write", "chunk", "header", "show", "push"}

\* The files: full but for the newest one, unbroken down to the parts the
\* configuration keeps, counted from the newest part and from the committed
\* block, which is stored and at most one part behind.  The newest file is
\* empty only after a block was committed, or when it is the first.
FilesOK ==
  /\ \A p \in Part : file[p] > 0 => First(p) + file[p] - 1 <= MaxBlock
  /\ Files = {} => base = 0
  /\ \A t \in Part : Topmost(t) =>
       /\ \A p \in Files : p < t => file[p] = PartSize
       /\ \A p \in Part : t - Split <= p /\ p <= t => p \in Files
       /\ base > 0 => LET b == get_part_number_for_block(base)
                      IN  /\ b <= t /\ t <= b + 1
                          /\ \A p \in Part : b - Split <= p /\ p <= t => p \in Files
                          /\ file[b] >= base - First(b) + 1
       /\ base = 0 /\ t > 1 => file[t] > 0

\* A process that is not there knows nothing.
DownOK ==
  phase = "down" =>
    /\ part = 0 /\ logs = {} /\ top = 0 /\ garbage = {}
    /\ reader = [r \in Readers |-> NoReader]

\* A start opens the parts from the oldest one it needs upwards.
StartingOK ==
  Starting =>
    /\ Topmost(top) /\ part \in 1 .. top
    /\ garbage = {} /\ reader = [r \in Readers |-> NoReader]
    /\ Needed(mode, top) .. top \subseteq Files
    /\ Needed(mode, top) <= part
    /\ logs = Needed(mode, top) .. (IF phase = "open" THEN part - 1 ELSE part)
    /\ phase = "load" => part = top
    /\ \A p \in logs : head[p] = FileHead(p)

\* A running node: the parts it has, how far the log is ahead of the committed
\* state and behind the irreversible block.  A state that a replay left short
\* ends with the part below the newest and catches up before that one is full.
ServingOK ==
  Serving =>
    /\ top # 0
    /\ logs \subseteq Files /\ logs \subseteq 1 .. top
    /\ \A p \in Part : top - Split <= p /\ p <= top => p \in logs
    /\ \A p \in logs : p < top => head[p] = First(p) + PartSize - 1
    /\ top > 1 => head[top] > 0
    /\ base <= head[top] /\ lib <= base + PartSize
    /\ head[top] <= base \/ head[top] <= lib \/ (short /\ head[top] = First(top))
    /\ short => garbage = {} /\ base = First(top) - 1 /\ base < head[top]
    /\ phase = "run" /\ short => base = head[top] - 1
    /\ phase = "run" /\ ~short => base = head[top]
    /\ ~Writing => Topmost(top) /\ head[top] = FileHead(top) /\ part = top
    /\ phase = "commit" => lib <= head[top]
    /\ phase = "rotate" => top - 1 > Split /\ top - 1 - Split \in logs /\ ~short

\* Where the next block goes.
WritingOK ==
  Writing =>
    /\ head[top] < lib
    /\ part \in Part /\ part \in {top, top + 1}
    /\ part = get_part_number_for_block(head[top] + 1)
    /\ phase \in {"create", "createArtifacts", "push"} => part = top + 1
    /\ phase = "create" => Topmost(top)
    /\ phase # "create" => Topmost(part)
    /\ phase = "createArtifacts" => file[part] = 0
    /\ phase = "write" => First(part) + file[part] = head[top] + 1 /\ file[part] >= 0
    /\ phase \in {"chunk", "header", "show", "push"} => FileHead(part) = head[top] + 1
    /\ phase = "push" => head[part] = FileHead(part)
    /\ part = top + 1 => head[top] = First(top) + PartSize - 1 /\ file[top] = PartSize

\* Garbage is older than the parts that are kept.
GarbageOK ==
  \A p \in garbage :
    p \in Files \ logs /\ p < top - Split /\ (phase = "rotate" => p < top - 1 - Split)

\* The newest part is not yet in _logs, or the part it replaces still is.
NewHead == (part = top + 1 /\ phase # "create") \/ phase = "rotate"

\* A file is kept, garbage or left by a killed process.
StrayOK ==
  \A t \in Part : Topmost(t) =>
    \A p \in Files \ (leaked \cup garbage) :
      \/ p >= t - Split
      \/ NewHead /\ p >= t - 1 - Split

\* A reader asks for a block of the log and holds the part it is in.
ReaderOK ==
  \A r \in Readers :
    \/ reader[r] = NoReader
    \/ /\ reader[r].step = "asked" /\ reader[r].part = 0
       /\ reader[r].num \in 1 .. head[top]
    \/ /\ reader[r].step \in {"held", "disk"}
       /\ reader[r].part \in logs \cup garbage
       /\ reader[r].part = get_part_number_for_block(reader[r].num)
       /\ reader[r].num \in 1 .. head[reader[r].part]
       /\ reader[r].step = "disk" => reader[r].num < head[reader[r].part]

\* A header of part p: it does not go beyond the log, and an interrupted
\* generation is between its ends.
WellFormed(h, p) ==
  /\ h.head = -1 => h = NoArt
  /\ h.head <= FileHead(p)
  /\ h.head > 0 => First(p) <= h.head
  /\ h.at # 0 => First(p) <= h.tail /\ h.tail < h.at /\ h.at <= h.head

\* The chunks a header stands for are there, or were lost with a generation.
Complete(h, p) ==
  \A n \in First(p) .. h.head :
    h.at = 0 \/ n < h.tail \/ (n >= h.at /\ h.at # h.head) => n \in chunk \cup cut

\* The parts whose headers in memory are those of a running node.
Kept == logs \cup garbage \cup
        {p \in {part} : part = top + 1 /\ phase \in {"write", "chunk", "header", "show", "push"}}

\* The artifacts files.
ArtifactsOK ==
  \A p \in Part :
    /\ WellFormed(art[p], p)
    /\ p \notin Files => art[p] = NoArt
    /\ Complete(art[p], p) \/ (phase = "generate" /\ p = part)

\* Their headers in memory.
HeadersOK ==
  /\ \A p \in Part : hdr[p].head >= 0
  /\ Starting => \A p \in logs :
       /\ art[p] = hdr[p]
       /\ p # part \/ phase = "load" => hdr[p].at = 0 /\ head[p] <= hdr[p].head
  /\ Serving => \A p \in Kept :
       /\ hdr[p].at = 0 /\ WellFormed(hdr[p], p)
       /\ p \in logs \cup garbage => head[p] <= hdr[p].head
       /\ Complete(hdr[p], p)
  /\ phase = "header" => FileHead(part) \in chunk
  /\ phase \in {"show", "push"} => hdr[part].head = FileHead(part)

\* A generation has stored the chunks above gen and needs not store those
\* below its tail.
GeneratingOK ==
  phase = "generate" =>
    LET h == hdr[part]
    IN  /\ First(part) <= h.tail /\ h.tail < h.head
        /\ h.tail <= gen /\ gen <= h.head
        /\ h.at = 0 \/ gen < h.at
        /\ \A n \in First(part) .. h.head :
             n < h.tail \/ n > gen => n \in chunk \cup cut

IInv ==
  /\ TypeOK
  /\ FilesOK /\ DownOK /\ StartingOK /\ ServingOK /\ WritingOK
  /\ GarbageOK /\ StrayOK /\ ReaderOK
  /\ ArtifactsOK /\ HeadersOK /\ GeneratingOK

------------------------------------------------------------------------------
(* Facts about a state. *)

\* The head block of a part's file is a block of that part.
LEMMA FileHeads ==
  ASSUME TypeOK, FilesOK, NEW p \in Part
  PROVE  /\ FileHead(p) \in 0 .. MaxBlock
         /\ file[p] \in -1 .. PartSize
         /\ file[p] > 0 => /\ FileHead(p) = First(p) + file[p] - 1
                           /\ First(p) <= FileHead(p) /\ FileHead(p) < First(p) + PartSize
                           /\ get_part_number_for_block(FileHead(p)) = p
         /\ ~(file[p] > 0) => FileHead(p) = 0
<1>0. PartSize \in Nat \ {0} /\ MaxBlock \in Nat
  BY BlockLogAssumption
<1>1. file[p] \in -1 .. PartSize
  BY DEF TypeOK
<1>2. p \in Int /\ First(p) \in 1 .. MaxBlock
  BY PartsOfBlocks
<1>3. CASE file[p] > 0
  <2>1. FileHead(p) = First(p) + file[p] - 1
    BY <1>3 DEF FileHead
  <2>2. First(p) <= FileHead(p) /\ FileHead(p) < First(p) + PartSize /\ FileHead(p) \in 1 .. MaxBlock
    BY <1>0, <1>1, <1>2, <1>3, <2>1 DEF FilesOK
  <2>3. get_part_number_for_block(FileHead(p)) = p
    BY <1>0, <1>2, <2>2, PartOfBlock
  <2> QED  BY <1>1, <1>3, <2>1, <2>2, <2>3
<1>4. CASE ~(file[p] > 0)
  BY <1>0, <1>1, <1>4 DEF FileHead
<1> QED  BY <1>3, <1>4

\* The parts with a file are among the parts, and the newest one is Max(Files).
LEMMA NewestFile ==
  /\ Files \subseteq Part
  /\ Files # {} => Topmost(Max(Files))
  /\ \A t : Topmost(t) => t \in Part /\ t = Max(Files)
<1>1. Files \subseteq Part
  BY DEF Files
<1>2. Files # {} => Topmost(Max(Files))
  BY <1>1, MaxBounded, PartsOfBlocks DEF Topmost
<1>3. ASSUME NEW t, Topmost(t)
      PROVE  t \in Part /\ t = Max(Files)
  <2>1. t \in Files /\ Topmost(Max(Files)) /\ \A p \in Part : p \in Nat
    BY <1>2, <1>3, PartsOfBlocks DEF Topmost
  <2> QED  BY <1>1, <1>3, <2>1 DEF Topmost
<1> QED  BY <1>1, <1>2, <1>3

\* The oldest part a start needs.
LEMMA NeededPart ==
  ASSUME TypeOK, NEW t \in Part, NEW m
  PROVE  /\ Needed(m, t) \in 1 .. t
         /\ t > Split => Needed(m, t) <= t - Split
         /\ t <= Split => Needed(m, t) = 1
<1>0. Split \in Nat \ {0} /\ t \in Nat \ {0}
  BY BlockLogAssumption, PartsOfBlocks
<1>1. CASE m = "force" \/ t <= Split
  BY <1>0, <1>1 DEF Needed
<1>2. CASE ~(m = "force" \/ t <= Split)
  <2> DEFINE b == IF m = "replay" /\ base # 0 THEN get_part_number_for_block(base) ELSE t
  <2>1. b \in Nat \ {0}
    BY <1>0, PartOrder DEF TypeOK
  <2>2. Needed(m, t) = Min({t - Split, b})
    BY <1>2 DEF Needed
  <2> HIDE DEF b
  <2>3. Min({t - Split, b}) = IF t - Split <= b THEN t - Split ELSE b
    BY <1>0, <2>1, MinOfTwo
  <2> QED  BY <1>0, <1>2, <2>1, <2>2, <2>3
<1> QED  BY <1>1, <1>2

\* The conjuncts of TypeOK in three groups: Boolean flags, what is on disk and
\* what the process knows.
FlagsOK == {torn, refused, orderly, short} \subseteq BOOLEAN

DiskTypeOK ==
  /\ file \in [Part -> -1 .. PartSize]
  /\ art \in [Part -> Header] /\ chunk \subseteq Block
  /\ lib \in 0 .. MaxBlock /\ base \in 0 .. MaxBlock
  /\ kills \in 0 .. MaxKills /\ leaked \subseteq Part /\ cut \subseteq Block

Reader == [step : {"none", "asked", "held", "disk"}, num : 0 .. MaxBlock, part : Part \cup {0}]

Phases == {"down", "open", "index", "generate", "load", "run", "append", "create",
           "createArtifacts", "write", "chunk", "header", "show", "push", "rotate", "commit"}

ProcessTypeOK ==
  /\ phase \in Phases
  /\ mode \in {"normal", "replay", "force"}
  /\ part \in Part \cup {0} /\ logs \subseteq Part /\ top \in Part \cup {0}
  /\ hdr \in [Part -> Header] /\ head \in [Part -> 0 .. MaxBlock]
  /\ gen \in 0 .. MaxBlock /\ garbage \subseteq Part
  /\ reader \in [Readers -> Reader]

\* TypeOK is these three groups, each within reach of one prover.
LEMMA TypeParts == TypeOK <=> FlagsOK /\ DiskTypeOK /\ ProcessTypeOK
<1>1. FlagsOK <=> /\ torn \in BOOLEAN /\ refused \in BOOLEAN
                  /\ orderly \in BOOLEAN /\ short \in BOOLEAN
  BY Zenon DEF FlagsOK
<1> QED  BY <1>1, Zenon DEF TypeOK, DiskTypeOK, ProcessTypeOK, Reader, Phases

\* What the process knows when it is not there.
LEMMA Constants ==
  /\ NoArt \in Header /\ NoHeader \in Header /\ NoReader \in Reader
  /\ NoFile \in -1 .. PartSize
<1>0. PartSize \in Nat \ {0} /\ MaxBlock \in Nat \ {0}
  BY BlockLogAssumption
<1> QED  BY <1>0 DEF NoArt, NoHeader, Header, NoReader, Reader, NoFile

\* The invariant holds at first.
LEMMA InitInv == Init => IInv
<1> SUFFICES ASSUME Init PROVE IInv
  OBVIOUS
<1>0. PartSize \in Nat \ {0} /\ MaxBlock \in Nat \ {0} /\ MaxKills \in Nat
  BY BlockLogAssumption
<1>1. TypeOK
  <2>1. FlagsOK
    BY Zenon DEF Init, FlagsOK
  <2>2. DiskTypeOK
    BY <1>0, Constants DEF Init, DiskTypeOK
  <2>3. ProcessTypeOK
    BY <1>0, Constants DEF Init, ProcessTypeOK, Phases
  <2> QED  BY <2>1, <2>2, <2>3, TypeParts
<1>2. Files = {}
  BY DEF Init, Files
<1>3. ~Starting /\ ~Serving /\ ~Writing
  BY DEF Init, Starting, Serving, Writing
<1>4. FilesOK /\ DownOK /\ StartingOK /\ ServingOK /\ WritingOK /\ GarbageOK /\ StrayOK
  BY <1>2, <1>3 DEF Init, FilesOK, DownOK, StartingOK, ServingOK, WritingOK, GarbageOK, StrayOK,
                    Topmost, NoFile
<1>5. ReaderOK
  BY DEF Init, ReaderOK
<1>6. \A p \in Part : First(p) \in Nat /\ First(p) > 0
  BY PartsOfBlocks
<1>7. ArtifactsOK /\ HeadersOK /\ GeneratingOK
  BY <1>3, <1>6 DEF Init, ArtifactsOK, HeadersOK, GeneratingOK, WellFormed, Complete, NoArt,
                    NoHeader, NoFile, FileHead
<1> QED  BY <1>1, <1>4, <1>5, <1>7 DEF IInv

------------------------------------------------------------------------------
(* The files. *)

\* When the committed block becomes the head of the log, the files fit.
LEMMA FilesAtHead ==
  ASSUME TypeOK, FilesOK, Topmost(top), file' = file, base' = FileHead(top), base' >= base
  PROVE  FilesOK'
<1>0. PartSize \in Nat \ {0} /\ Split \in Nat \ {0} /\ base \in Nat
  BY BlockLogAssumption, TypeParts DEF DiskTypeOK
<1>1. top \in Part /\ \A t : Topmost(t) => t = top
  BY NewestFile
<1>2. top \in Nat /\ \A p \in Part : p \in Nat
  BY <1>1, PartsOfBlocks
<1>3. Files' = Files /\ \A t : Topmost(t)' <=> Topmost(t)
  BY DEF Files, Topmost
<1>4. /\ FileHead(top) \in Nat /\ First(top) \in Int
      /\ FileHead(top) > 0 => /\ get_part_number_for_block(FileHead(top)) = top
                              /\ FileHead(top) = First(top) + file[top] - 1
      /\ file[top] \in Int
  BY <1>1, FileHeads, PartsOfBlocks, SMTT(60)
<1>5. base' = 0 => base = 0
  BY <1>0, <1>4
<1>6. Files # {}
  BY DEF Topmost
<1>7. base' > 0 => LET b == get_part_number_for_block(base')
                   IN  /\ b = top
                       /\ file[b] >= base' - First(b) + 1
  BY <1>0, <1>4
<1> QED  BY <1>0, <1>1, <1>2, <1>3, <1>5, <1>6, <1>7 DEF FilesOK

\* Every step keeps FilesOK: blocks are appended in order, and only a part
\* below the configured ones loses its file.
LEMMA FilesStep ==
  ASSUME IInv, Next
  PROVE  FilesOK'
<1>0. PartSize \in Nat \ {0} /\ Split \in Nat \ {0} /\ MaxBlock \in Nat \ {0}
  BY BlockLogAssumption
<1> USE DEF IInv
<1>1. /\ file \in [Part -> -1 .. PartSize] /\ base \in Nat /\ lib \in 0 .. MaxBlock
      /\ top \in Part \cup {0} /\ part \in Part \cup {0} /\ garbage \subseteq Part
      /\ head \in [Part -> 0 .. MaxBlock]
  BY TypeParts DEF DiskTypeOK, ProcessTypeOK
<1>2. \A p \in Part : p \in Nat /\ p >= 1 /\ First(p) \in 1 .. MaxBlock
  BY PartsOfBlocks
<1>3. \A t : Topmost(t) => t \in Part
  BY NewestFile
<1>4. ASSUME UNCHANGED <<file, base>>
      PROVE  FilesOK'
  BY <1>4 DEF FilesOK, Topmost, Files
<1>5. CASE Close
  <2>1. phase = "run" /\ file' = [p \in Part |-> IF p \in garbage THEN NoFile ELSE file[p]]
        /\ base' = base
    BY <1>5 DEF Close
  <2>2. Serving /\ ~Writing
    BY <2>1 DEF Serving, Writing
  <2>3. Topmost(top) /\ head[top] = FileHead(top)
    BY <2>2 DEF ServingOK
  <2>4. CASE short
    <3>1. file' = file
      BY <1>1, <2>1, <2>2, <2>4 DEF ServingOK
    <3> QED  BY <2>1, <3>1, <1>4
  <2>5. CASE ~short
    <3>1. base = FileHead(top)
      BY <2>1, <2>2, <2>3, <2>5 DEF ServingOK
    <3>2. top \in Part /\ top \in Nat
      BY <1>2, <1>3, <2>3
    <3>3. base > 0 => get_part_number_for_block(base) = top
      BY <1>1, <3>1, <3>2, FileHeads
    <3>4. \A p \in garbage : p < top - Split
      BY DEF GarbageOK
    <3>5. Files' = Files \ garbage
      BY <1>1, <2>1 DEF Files, NoFile
    <3>6. \A p \in Part \ garbage : file'[p] = file[p]
      BY <2>1
    <3>7. top \notin garbage
      BY <1>0, <3>2, <3>4
    <3>8. \A t \in Part : Topmost(t)' => t = top
      BY <1>2, <2>3, <3>2, <3>5, <3>7 DEF Topmost
    <3>9. \A p \in Part : top - Split <= p => p \notin garbage
      BY <1>0, <1>2, <3>2, <3>4
    <3>10. \A p \in Part : file'[p] > 0 => file[p] = file'[p]
      BY <2>1, <1>1 DEF NoFile
    <3>11. Files' # {}
      BY <2>3, <3>5, <3>7 DEF Topmost
    <3>12. base > 0 => LET b == get_part_number_for_block(base)
                       IN  /\ b = top
                           /\ file'[b] >= base - First(b) + 1
      BY <1>1, <2>3, <3>2, <3>3, <3>6, <3>7 DEF FilesOK
    <3>13. \A p \in Part : top - Split <= p /\ p <= top => p \in Files'
      BY <2>3, <3>2, <3>5, <3>9 DEF FilesOK
    <3>14. \A p \in Files' : p < top => file'[p] = PartSize
      BY <2>3, <3>2, <3>5, <3>6 DEF FilesOK, Files
    <3>15. base = 0 /\ top > 1 => file'[top] > 0
      BY <2>3, <3>2, <3>6, <3>7 DEF FilesOK
    <3>16. \A p \in Part : file'[p] > 0 => First(p) + file'[p] - 1 <= MaxBlock
      BY <3>10 DEF FilesOK
    <3> QED  BY <2>1, <3>2, <3>8, <3>11, <3>12, <3>13, <3>14, <3>15, <3>16 DEF FilesOK
  <2> QED  BY <2>4, <2>5
<1>6. CASE CreateLogFile
  <2>1. phase = "create" /\ file' = [file EXCEPT ![part] = 0] /\ base' = base
    BY <1>6 DEF CreateLogFile
  <2>2. Writing /\ Serving
    BY <2>1 DEF Serving, Writing
  <2>3. /\ Topmost(top) /\ part = top + 1 /\ part \in Part /\ head[top] < lib
        /\ part = get_part_number_for_block(head[top] + 1) /\ file[top] = PartSize
    BY <2>1, <2>2 DEF WritingOK
  <2>4. top \in Part /\ top \in Nat /\ head[top] \in Nat
    BY <1>1, <1>2, <1>3, <2>3
  <2>5. part <= get_part_number_for_block(base + PartSize)
    <3>1. head[top] + 1 <= base + PartSize /\ base + PartSize \in Nat /\ head[top] + 1 \in Nat
      BY <1>0, <1>1, <2>2, <2>3, <2>4 DEF ServingOK
    <3> QED  BY <2>3, <3>1, PartOrder
  <2>6. base # 0
    <3> SUFFICES ASSUME base = 0 PROVE FALSE
      OBVIOUS
    <3>1. part <= 1
      <4>1. base + PartSize = PartSize  BY <1>0
      <4> QED  BY <2>5, <4>1, PartOrder
    <3> QED  BY <1>2, <2>3, <2>4, <3>1
  <2>7. part <= get_part_number_for_block(base) + 1 /\ get_part_number_for_block(base) \in Nat
    <3>1. /\ get_part_number_for_block(base + PartSize) <= get_part_number_for_block(base) + 1
          /\ get_part_number_for_block(base) \in Nat
          /\ get_part_number_for_block(base + PartSize) \in Nat
      BY <1>0, <1>1, PartOrder, SMTT(60)
    <3> QED  BY <1>2, <2>3, <2>5, <3>1
  <2>8. Files' = Files \cup {part}
    BY <1>1, <2>1, <2>3 DEF Files, NoFile
  <2>9. \A t \in Part : Topmost(t)' => t = part
    BY <1>2, <2>3, <2>4, <2>8 DEF Topmost
  <2>10. \A p \in Files : p < part => file'[p] = PartSize
    <3> TAKE p \in Files
    <3>1. p \in Part /\ p <= top
      BY <2>3 DEF Topmost, Files
    <3>2. p < top => file[p] = PartSize
      BY <2>3, <2>4 DEF FilesOK
    <3> QED  BY <1>1, <1>2, <2>1, <2>3, <2>4, <3>1, <3>2
  <2>11. /\ get_part_number_for_block(base) <= top
         /\ \A p \in Part : get_part_number_for_block(base) - Split <= p /\ p <= top => p \in Files
         /\ file[get_part_number_for_block(base)] >= base - First(get_part_number_for_block(base)) + 1
         /\ \A p \in Part : top - Split <= p /\ p <= top => p \in Files
    BY <1>1, <2>3, <2>4, <2>6 DEF FilesOK
  <2>12. \A p \in Part : p # part => file'[p] = file[p]
    BY <2>1
  <2>13. get_part_number_for_block(base) \in Part
    BY PartsOfBlocks, TypeParts DEF DiskTypeOK
  <2>14. file[part] # NoFile => part \in Files
    BY <2>3 DEF Files
  <2>15. \A p \in Part : file'[p] > 0 => First(p) + file'[p] - 1 <= MaxBlock
    BY <1>1, <2>1 DEF FilesOK
  <2>16. \A p \in Part : part - Split <= p /\ p <= part => p \in Files'
    BY <1>0, <1>2, <2>3, <2>4, <2>8, <2>11
  <2>17. \A p \in Part : get_part_number_for_block(base) - Split <= p /\ p <= part => p \in Files'
    BY <1>0, <1>2, <2>3, <2>4, <2>7, <2>8, <2>11
  <2>18. \A p \in Files' : p < part => file'[p] = PartSize
    BY <2>8, <2>10, <1>2, <2>3
  <2>19. file'[get_part_number_for_block(base)] >= base - First(get_part_number_for_block(base)) + 1
    BY <2>3, <2>4, <2>7, <2>11, <2>12, <2>13
  <2> QED  BY <1>1, <2>1, <2>3, <2>4, <2>6, <2>7, <2>8, <2>9, <2>11, <2>15, <2>16, <2>17, <2>18, <2>19
           DEF FilesOK
<1>7. CASE WriteBlock
  <2>1. phase = "write" /\ file' = [file EXCEPT ![part] = @ + 1] /\ base' = base
    BY <1>7 DEF WriteBlock
  <2>2. Writing /\ Serving
    BY <2>1 DEF Serving, Writing
  <2>3. /\ Topmost(part) /\ part \in Part /\ head[top] < lib
        /\ First(part) + file[part] = head[top] + 1 /\ file[part] >= 0
    BY <2>1, <2>2 DEF WritingOK
  <2>4. top # 0
    BY <2>2 DEF ServingOK
  <2>5. First(part) + file[part] <= MaxBlock /\ file[part] \in Nat /\ part \in Nat
    <3>1. head[top] \in 0 .. MaxBlock /\ file[part] \in -1 .. PartSize
      BY <1>1, <2>3, <2>4
    <3> QED  BY <1>0, <1>1, <1>2, <2>3, <3>1
  <2>6. Files' = Files
    BY <1>1, <2>1, <2>3, <2>5 DEF Files, NoFile
  <2>7. \A p \in Part : file'[p] = IF p = part THEN file[p] + 1 ELSE file[p]
    BY <1>1, <2>1
  <2>8. \A t \in Part : Topmost(t)' => Topmost(t) /\ t = part
    BY <1>2, <2>3, <2>5, <2>6 DEF Topmost
  <2>9. \A p \in Part : file'[p] > 0 => First(p) + file'[p] - 1 <= MaxBlock
    BY <1>0, <1>1, <1>2, <2>5, <2>7 DEF FilesOK
  <2>10. base > 0 => get_part_number_for_block(base) \in Part
    BY PartsOfBlocks, TypeParts DEF DiskTypeOK
  <2>11. \A p \in Part : file'[p] \in Int /\ file[p] \in Int /\ file'[p] >= file[p]
    BY <1>0, <1>1, <2>5, <2>7
  <2> QED  BY <1>1, <1>2, <2>1, <2>3, <2>5, <2>6, <2>7, <2>8, <2>9, <2>10, <2>11 DEF FilesOK
<1>8. CASE Rotate
  <2> DEFINE free == {p \in garbage : ~InUse(p)}
  <2>1. /\ phase = "rotate" /\ base' = base
        /\ file' = [p \in Part |-> IF p \in free THEN NoFile ELSE file[p]]
    BY <1>8 DEF Rotate
  <2>2. Serving /\ ~Writing
    BY <2>1 DEF Serving, Writing
  <2>3. Topmost(top) /\ head[top] = FileHead(top)
    BY <2>2 DEF ServingOK
  <2>4. top \in Part /\ top \in Nat
    BY <1>2, <1>3, <2>3
  <2>5. \A p \in free : p < top - 1 - Split
    BY <2>1 DEF GarbageOK
  <2> HIDE DEF free
  <2>6. Files' = Files \ free
    BY <1>1, <2>1 DEF Files, NoFile
  <2>7. \A p \in Part \ free : file'[p] = file[p]
    BY <2>1
  <2>8. \A p \in Part : top - 1 - Split <= p => p \notin free
    BY <1>0, <1>2, <2>4, <2>5
  <2>9. top \notin free
    BY <1>0, <2>4, <2>8
  <2>10. \A t \in Part : Topmost(t)' => t = top
    BY <1>2, <2>3, <2>4, <2>6, <2>9 DEF Topmost
  <2>11. \A p \in Part : file'[p] > 0 => file[p] = file'[p]
    BY <1>1, <2>1 DEF NoFile
  <2>12. Files' # {}
    BY <2>3, <2>6, <2>9 DEF Topmost
  <2>13. base > 0 => LET b == get_part_number_for_block(base)
                     IN  /\ b \in Part /\ b \in Nat /\ b <= top /\ top <= b + 1
                         /\ \A p \in Part : b - Split <= p /\ p <= top => p \in Files
                         /\ file[b] >= base - First(b) + 1
    BY <1>1, <1>2, <2>3, <2>4, PartsOfBlocks, TypeParts DEF FilesOK, DiskTypeOK
  <2>14. base > 0 => LET b == get_part_number_for_block(base)
                     IN  /\ \A p \in Part : b - Split <= p /\ p <= top => p \in Files'
                         /\ file'[b] >= base - First(b) + 1
    BY <1>0, <1>2, <2>4, <2>6, <2>7, <2>8, <2>13
  <2>15. \A p \in Part : top - Split <= p /\ p <= top => p \in Files'
    BY <1>0, <1>2, <2>3, <2>4, <2>6, <2>8 DEF FilesOK
  <2>16. \A p \in Files' : p < top => file'[p] = PartSize
    BY <2>3, <2>4, <2>6, <2>7 DEF FilesOK, Files
  <2>17. base = 0 /\ top > 1 => file'[top] > 0
    BY <2>3, <2>4, <2>7, <2>9 DEF FilesOK
  <2>18. \A p \in Part : file'[p] > 0 => First(p) + file'[p] - 1 <= MaxBlock
    BY <2>11 DEF FilesOK
  <2> QED  BY <2>1, <2>10, <2>12, <2>13, <2>14, <2>15, <2>16, <2>17, <2>18 DEF FilesOK
<1>9. CASE Commit
  <2>1. phase = "commit" /\ base' = Max({base, lib}) /\ file' = file
    BY <1>9 DEF Commit, disk
  <2>2. Serving /\ ~Writing
    BY <2>1 DEF Serving, Writing
  <2>3. Topmost(top) /\ head[top] = FileHead(top) /\ base <= head[top] /\ lib <= head[top]
        /\ (head[top] <= base \/ head[top] <= lib \/ head[top] - 1 = base)
    BY <2>1, <2>2 DEF ServingOK
  <2>4. FileHead(top) \in Nat /\ lib \in Nat
    BY <1>1, <1>3, <2>3, FileHeads
  <2>5. base' = IF base >= lib THEN base ELSE lib
    BY <1>1, <2>1, <2>4, MaxOfTwo
  <2>6. CASE base' = base
    BY <1>4, <2>1, <2>6
  <2>7. CASE base' # base
    <3>1. base' = FileHead(top) /\ base' >= base
      BY <1>1, <2>3, <2>4, <2>5, <2>7
    <3> QED  BY <2>1, <2>3, <3>1, FilesAtHead
  <2> QED  BY <2>6, <2>7
<1>10. CASE \E m \in {"normal", "replay", "force"} : Start(m)
  <2>1. PICK m \in {"normal", "replay", "force"} : Start(m)
    BY <1>10
  <2>2. /\ base' = (IF m = "force" THEN 0 ELSE base)
        /\ file' = (IF Files = {} THEN [file EXCEPT ![1] = 0] ELSE file)
        /\ m = "force" => Files # {} /\ FileHead(Max(Files)) # 0
    BY <2>1 DEF Start
  <2>3. CASE Files = {}
    <3>1. base' = 0 /\ file' = [file EXCEPT ![1] = 0]
      BY <2>2, <2>3 DEF FilesOK
    <3>2. 1 \in Part
      BY <1>0, PartsOfBlocks
    <3>3. Files' = {1} /\ \A p \in Part : file'[p] <= 0
      BY <1>1, <2>3, <3>1, <3>2 DEF Files, NoFile
    <3>4. \A t \in Part : Topmost(t)' => t = 1
      BY <3>3 DEF Topmost
    <3>5. \A p \in Part : ~(file'[p] > 0)
      BY <1>1, <3>1, <3>3
    <3> QED  BY <1>2, <3>1, <3>3, <3>4, <3>5 DEF FilesOK
  <2>4. CASE Files # {}
    <3>1. file' = file /\ Files' = Files /\ \A t : Topmost(t)' <=> Topmost(t)
      BY <2>2, <2>4 DEF Files, Topmost
    <3>2. CASE base' = base
      BY <1>4, <3>1, <3>2
    <3>3. CASE base' # base
      <4>1. base' = 0 /\ FileHead(Max(Files)) # 0
        BY <2>2, <3>3
      <4>2. \A t \in Part : Topmost(t) => file[t] > 0
        BY <4>1, NewestFile, FileHeads
      <4> QED  BY <2>4, <3>1, <4>1, <4>2 DEF FilesOK
    <3> QED  BY <3>2, <3>3
  <2> QED  BY <2>3, <2>4
<1>11. CASE Load
  <2>0. CASE Refuse
    BY <1>4, <2>0 DEF Refuse
  <2>1. CASE ~Refuse
    <3> DEFINE last == IF mode = "normal" THEN base ELSE Reindexed
    <3>1. /\ phase = "load" /\ base' = last /\ file' = file
          /\ IF mode = "normal" THEN LogHead = base
             ELSE LogHead # 0 /\ base <= LogHead /\ \A n \in (base + 1) .. last : Readable(n)
      BY <1>11, <2>1 DEF Load, disk
    <3>2. Starting
      BY <3>1 DEF Starting
    <3>3. /\ Topmost(top) /\ part = top
          /\ logs \subseteq Files /\ head[top] = FileHead(top)
      BY <1>1, <3>1, <3>2, NeededPart, NewestFile DEF StartingOK, Topmost
    <3>4. top \in Part /\ top \in Nat /\ top >= 1 /\ LogHead = FileHead(top)
      BY <1>2, <1>3, <3>3 DEF LogHead
    <3>5. CASE mode = "normal"
      BY <1>4, <3>1, <3>5
    <3>6. CASE mode # "normal"
      <4>1. FileHead(top) \in Nat \ {0} /\ base <= FileHead(top)
        BY <3>1, <3>4, <3>6, FileHeads
      <4>2. \/ last = FileHead(top)
            \/ last = FileHead(top) - 1 /\ base <= last /\ last > 0
        BY <1>1, <3>4, <3>6, <4>1 DEF Reindexed, process_blocks
      <4>3. CASE last = FileHead(top)
        BY <3>1, <3>3, <4>1, <4>3, FilesAtHead
      <4>4. CASE last = FileHead(top) - 1 /\ base <= last /\ last > 0
        <5> HIDE DEF last
        <5> DEFINE b == get_part_number_for_block(last)
        <5>1. /\ First(top) <= FileHead(top) /\ FileHead(top) < First(top) + PartSize
              /\ file[top] > 0 /\ FileHead(top) = First(top) + file[top] - 1
          BY <3>4, <4>1, FileHeads
        <5>2. b = top \/ (b = top - 1 /\ last = First(top) - 1)
          <6>1. CASE First(top) <= last
            BY <1>0, <1>2, <3>4, <4>1, <4>4, <5>1, <6>1, PartOfBlock
          <6>2. CASE ~(First(top) <= last)
            <7>1. last = First(top) - 1
              BY <1>2, <3>4, <4>1, <4>4, <5>1, <6>2
            <7>2. First(top - 1) \in Int /\ First(top) = First(top - 1) + PartSize
              <8>1. top - 1 \in Int /\ (top - 1) + 1 = top  BY <3>4
              <8> QED  BY <8>1, PartBounds
            <7>3. last \in Nat \ {0} /\ First(top - 1) <= last /\ last < First(top - 1) + PartSize
              BY <1>0, <4>1, <4>4, <7>1, <7>2
            <7>4. top - 1 \in Int
              BY <3>4
            <7>5. b = top - 1
              BY <7>3, <7>4, PartOfBlock
            <7> QED  BY <7>1, <7>5
          <6> QED  BY <6>1, <6>2
        <5>3. b \in Part /\ b \in Nat /\ b >= 1
          <6>1. last \in 0 .. MaxBlock
            <7>1. FileHead(top) \in 0 .. MaxBlock
              BY <3>4, FileHeads
            <7> QED  BY <1>0, <4>4, <7>1
          <6> QED  BY <1>2, <6>1, PartsOfBlocks
        <5>4. b <= top /\ top <= b + 1
          BY <3>4, <5>2
        <5>5. file[b] >= last - First(b) + 1
          <6>1. CASE b = top
            BY <1>0, <1>1, <1>2, <3>4, <4>4, <5>1, <6>1
          <6>2. CASE b = top - 1
            <7>1. b \in Files
              BY <1>0, <3>3, <3>4, <5>3, <6>2 DEF FilesOK
            <7>2. file[b] = PartSize
              BY <3>3, <3>4, <6>2, <7>1 DEF FilesOK
            <7>3. last < First(b) + PartSize
              BY <4>1, <4>4, PartOfBlock
            <7> QED  BY <1>0, <1>2, <4>1, <4>4, <5>3, <7>2, <7>3
          <6> QED  BY <5>2, <6>1, <6>2
        <5>6. ASSUME NEW p \in Part, b - Split <= p, p <= top
              PROVE  p \in Files
          <6>1. CASE top - Split <= p
            BY <3>3, <3>4, <5>6, <6>1 DEF FilesOK
          <6>2. CASE ~(top - Split <= p)
            <7>1. b = top - 1 /\ p = top - 1 - Split
              BY <1>0, <1>2, <3>4, <5>2, <5>6, <6>2
            <7>2. CASE base > 0
              <8>1. get_part_number_for_block(base) <= b /\ get_part_number_for_block(base) \in Nat
                BY <1>1, <4>1, <4>4, PartOrder
              <8>2. get_part_number_for_block(base) - Split <= p
                BY <1>0, <1>2, <3>4, <7>1, <8>1
              <8> QED  BY <3>3, <3>4, <5>6, <7>2, <8>2 DEF FilesOK
            <7>3. CASE base = 0
              <8>1. First(p) + PartSize <= First(top) /\ First(p) \in Nat /\ First(p) >= 1
                <9>1. p \in Int /\ top \in Int /\ p < top
                  BY <1>0, <1>2, <3>4, <7>1
                <9> QED  BY <1>2, <9>1, PartBounds
              <8>2. First(p) \in (base + 1) .. last
                <9>1. last = First(top) - 1 /\ First(top) \in Int
                  BY <1>2, <3>4, <5>2, <7>1
                <9> QED  BY <1>0, <7>3, <8>1, <9>1
              <8>3. Readable(First(p))
                BY <3>1, <3>6, <8>2
              <8>4. get_part_number_for_block(First(p)) = p
                BY <1>0, <1>2, <8>1, PartOfBlock
              <8> QED  BY <3>3, <8>3, <8>4 DEF Readable
            <7> QED  BY <1>1, <7>2, <7>3
          <6> QED  BY <6>1, <6>2
        <5>7. Files' = Files /\ \A t \in Part : Topmost(t)' => t = top
          BY <1>2, <3>1, <3>3, <3>4 DEF Files, Topmost
        <5>8. base' = last /\ last > 0
          BY <3>1, <4>4
        <5>9. Files # {}
          BY <3>3 DEF Topmost
        <5>10. /\ \A p \in Files : p < top => file[p] = PartSize
               /\ \A p \in Part : top - Split <= p /\ p <= top => p \in Files
               /\ \A p \in Part : file[p] > 0 => First(p) + file[p] - 1 <= MaxBlock
          BY <3>3, <3>4 DEF FilesOK
        <5> HIDE DEF b
        <5>11. last \in Nat
          BY <4>1, <4>4
        <5> QED  BY <3>1, <5>4, <5>5, <5>6, <5>7, <5>8, <5>9, <5>10, <5>11 DEF FilesOK, b
      <4> QED  BY <4>2, <4>3, <4>4
    <3> QED  BY <3>5, <3>6
  <2> QED  BY <2>0, <2>1
<1>12. CASE \/ Kill \/ OpenPart \/ Index \/ Interrupt
            \/ \E b \in BOOLEAN : GenerateChunk(b) \/ store_block_artifacts_epilogue(b)
            \/ \E n \in Block, b \in BOOLEAN : Irreversible(n, b)
            \/ Append \/ CreateArtifacts \/ store_block_artifacts \/ ShowHead \/ PushPart
  <2>1. UNCHANGED <<file, base>>
    BY <1>12 DEF Kill, OpenPart, Refuse, Index, Abort, Interrupt, GenerateChunk,
         store_block_artifacts_epilogue, Irreversible, Append, CreateArtifacts,
         store_block_artifacts, ShowHead, PushPart, disk
  <2> QED  BY <1>4, <2>1
<1>13. CASE \E r \in Readers : \/ \E n \in Block : Ask(r, n)
                               \/ TakePart(r) \/ LookAtHead(r) \/ ReadDisk(r)
  <2>1. UNCHANGED <<file, base>>
    BY <1>13 DEF Ask, TakePart, LookAtHead, ReadDisk, ReadStep, disk
  <2> QED  BY <1>4, <2>1
<1> QED
  BY <1>5, <1>6, <1>7, <1>8, <1>9, <1>10, <1>11, <1>12, <1>13 DEF Next

------------------------------------------------------------------------------
(* A node that is down or starting. *)

Reading(r) == (\E n \in Block : Ask(r, n)) \/ TakePart(r) \/ LookAtHead(r) \/ ReadDisk(r)

\* Steps of the write thread of a running node.
Appending ==
  \/ \E b \in BOOLEAN : store_block_artifacts_epilogue(b)
  \/ \E n \in Block, b \in BOOLEAN : Irreversible(n, b)
  \/ Append \/ CreateLogFile \/ CreateArtifacts \/ WriteBlock \/ store_block_artifacts
  \/ ShowHead \/ PushPart \/ Rotate \/ Commit

Opens ==
  \/ \E m \in {"normal", "replay", "force"} : Start(m)
  \/ OpenPart \/ Index \/ (\E b \in BOOLEAN : GenerateChunk(b))

\* The steps by what they do to the process: it leaves, starts, comes up,
\* appends or reads.
LEMMA StepKinds ==
  ASSUME Next
  PROVE  \/ Closed
         \/ ~Closed /\ Opens
         \/ ~Closed /\ Load
         \/ Appending
         \/ \E r \in Readers : Reading(r)
  BY DEF Next, Opens, Appending, Reading, Kill, Close, Interrupt

\* A running node keeps running while it appends and while it is read.
LEMMA StaysUp ==
  /\ Appending => Serving /\ Serving'
  /\ \A r : Reading(r) => /\ Serving /\ Serving'
                          /\ UNCHANGED <<disk, lib, base, phase, mode, process, history>>
<1>1. Appending => Serving
  BY DEF Appending, Serving, store_block_artifacts_epilogue, Irreversible, Append, CreateLogFile,
         CreateArtifacts, WriteBlock, store_block_artifacts, ShowHead, PushPart, Rotate, Commit
<1>2. Appending => Serving'
  BY DEF Appending, Serving, store_block_artifacts_epilogue, Irreversible, Append, CreateLogFile,
         CreateArtifacts, WriteBlock, store_block_artifacts, ShowHead, PushPart, Rotate, Commit
<1>3. ASSUME NEW r, Reading(r)
      PROVE  Serving /\ UNCHANGED <<disk, lib, base, phase, mode, process, history>>
  BY <1>3 DEF Reading, Ask, TakePart, LookAtHead, ReadDisk, ReadStep
<1>4. \A r : Reading(r) => Serving'
  BY <1>3 DEF Serving
<1> QED  BY <1>1, <1>2, <1>3, <1>4

\* A start that finds the parts it needs.
LEMMA StartOpens ==
  ASSUME IInv, NEW m \in {"normal", "replay", "force"}, Start(m)
  PROVE  /\ phase = "down" /\ mode' = m
         /\ UNCHANGED <<logs, hdr, head, garbage, reader>>
         /\ \/ phase' = "down" /\ UNCHANGED <<part, top>>
            \/ /\ phase' = "open"
               /\ \E t \in Part : /\ top' = t /\ Topmost(t)'
                                  /\ part' = Needed(m, t) /\ Needed(m, t)' = Needed(m, t)
                                  /\ Needed(m, t) .. t \subseteq Files'
<1> DEFINE found == IF Files = {} THEN {1} ELSE Files
           t == Max(found)
<1>0. TypeOK /\ file \in [Part -> -1 .. PartSize]
  BY TypeParts DEF IInv, DiskTypeOK
<1>1. /\ phase = "down" /\ mode' = m
      /\ UNCHANGED <<logs, hdr, head, garbage, reader>>
      /\ base' = (IF m = "force" THEN 0 ELSE base)
      /\ file' = (IF Files = {} THEN [file EXCEPT ![1] = 0] ELSE file)
      /\ IF Needed(m, t) .. t \subseteq found
         THEN phase' = "open" /\ top' = t /\ part' = Needed(m, t)
         ELSE UNCHANGED <<phase, top, part>>
  BY DEF Start
<1>2. 1 \in Part
  BY BlockLogAssumption, PartsOfBlocks
<1>3. Files' = found
  BY <1>0, <1>1, <1>2 DEF Files, NoFile
<1>4. found \subseteq Part /\ found # {}
  BY <1>2, NewestFile
<1> HIDE DEF found
<1>5. PICK u \in Part : u = t
  BY <1>4, MaxBounded, PartsOfBlocks
<1>6. u \in found /\ \A p \in found : p <= u
  BY <1>4, <1>5, MaxBounded, PartsOfBlocks
<1>7. Topmost(u)'
  BY <1>3, <1>6 DEF Topmost
<1> HIDE DEF t
<1>8. Needed(m, u)' = Needed(m, u)
  BY <1>1 DEF Needed
<1> QED  BY <1>1, <1>3, <1>5, <1>7, <1>8

\* Every step keeps DownOK and StartingOK: a start opens the parts it needs
\* upwards, one by one.
LEMMA StartingStep ==
  ASSUME IInv, Next
  PROVE  DownOK' /\ StartingOK'
<1> USE DEF IInv
<1>1. /\ TypeOK /\ top \in Part \cup {0} /\ part \in Part \cup {0}
      /\ head \in [Part -> 0 .. MaxBlock]
  BY TypeParts DEF ProcessTypeOK
<1>2. \A p \in Part : p \in Nat /\ p >= 1
  BY PartsOfBlocks
<1>3. CASE Closed
  BY <1>3 DEF Closed, DownOK, StartingOK, Starting
<1>4. CASE Appending \/ (Load /\ ~Closed) \/ \E r \in Readers : Reading(r)
  <2>1. phase' # "down" /\ ~Starting'
    <3>1. CASE Load /\ ~Closed
      BY <3>1 DEF Load, Refuse, Starting
    <3>2. CASE Appending \/ \E r \in Readers : Reading(r)
      BY <3>2, StaysUp DEF Serving, Starting
    <3> QED  BY <1>4, <3>1, <3>2
  <2> QED  BY <2>1 DEF DownOK, StartingOK
<1>5. CASE \E m \in {"normal", "replay", "force"} : Start(m)
  <2>1. PICK m \in {"normal", "replay", "force"} : Start(m)
    BY <1>5
  <2>2. DownOK /\ phase = "down" /\ UNCHANGED <<logs, garbage, reader>> /\ mode' = m
    BY <2>1, StartOpens
  <2>3. CASE phase' = "down" /\ UNCHANGED <<part, top>>
    BY <2>2, <2>3 DEF DownOK, StartingOK, Starting
  <2>4. CASE ~(phase' = "down" /\ UNCHANGED <<part, top>>)
    <3>1. phase' = "open"
      BY <2>1, <2>4, StartOpens
    <3>2. PICK t \in Part : /\ top' = t /\ Topmost(t)'
                            /\ part' = Needed(m, t) /\ Needed(m, t)' = Needed(m, t)
                            /\ Needed(m, t) .. t \subseteq Files'
      BY <2>1, <2>4, StartOpens
    <3>3. Needed(m, t) \in 1 .. t /\ t \in Nat
      BY <1>1, <1>2, NeededPart
    <3>4. logs' = {} /\ garbage' = {} /\ reader' = [r \in Readers |-> NoReader]
      BY <2>2 DEF DownOK
    <3>5. Needed(mode, top)' = Needed(m, t)
      BY <2>2, <3>2
    <3>6. Topmost(top)'
      BY <3>2
    <3>7. logs' = Needed(m, t) .. (Needed(m, t) - 1)
      BY <3>3, <3>4
    <3> QED  BY <2>2, <3>1, <3>2, <3>3, <3>4, <3>5, <3>6, <3>7 DEF DownOK, StartingOK, Starting
  <2> QED  BY <2>3, <2>4
<1>6. ASSUME Starting, UNCHANGED <<file, base, mode, top, reader, garbage>>
      PROVE  /\ Files' = Files /\ Topmost(top)' /\ Needed(mode, top)' = Needed(mode, top)
             /\ garbage' = {} /\ reader' = [r \in Readers |-> NoReader]
             /\ Needed(mode, top) .. top \subseteq Files' /\ \A p : FileHead(p)' = FileHead(p)
             /\ top \in Part /\ top \in Nat /\ Needed(mode, top) \in 1 .. top /\ part \in 1 .. top
  <2>1. Topmost(top) /\ top \in Part
    BY <1>6, NewestFile DEF StartingOK
  <2>2. Needed(mode, top) \in 1 .. top
    BY <1>1, <2>1, NeededPart
  <2>3. Files' = Files /\ Topmost(top)' /\ Needed(mode, top)' = Needed(mode, top)
    BY <1>6, <2>1 DEF Topmost, Files, Needed
  <2>4. \A p : FileHead(p)' = FileHead(p)
    BY <1>6 DEF FileHead
  <2> QED  BY <1>2, <1>6, <2>1, <2>2, <2>3, <2>4 DEF StartingOK
<1>7. CASE OpenPart /\ ~Closed
  <2>1. /\ phase = "open" /\ phase' = "index" /\ logs' = logs \cup {part}
        /\ head' = [head EXCEPT ![part] = FileHead(part)]
        /\ UNCHANGED <<file, base, mode, part, top, reader, garbage>>
    BY <1>7 DEF OpenPart, Refuse
  <2>2. Starting /\ Starting'
    BY <2>1 DEF Starting
  <2>3. logs = Needed(mode, top) .. (part - 1) /\ Needed(mode, top) <= part
        /\ \A p \in logs : head[p] = FileHead(p)
    BY <2>1, <2>2 DEF StartingOK
  <2>4. /\ Files' = Files /\ Topmost(top)' /\ Needed(mode, top)' = Needed(mode, top)
        /\ garbage' = {} /\ reader' = [r \in Readers |-> NoReader]
        /\ Needed(mode, top) .. top \subseteq Files' /\ \A p : FileHead(p)' = FileHead(p)
        /\ top \in Part /\ top \in Nat /\ Needed(mode, top) \in 1 .. top /\ part \in 1 .. top
    BY <1>6, <2>1, <2>2
  <2>5. logs' = Needed(mode, top) .. part
    BY <2>1, <2>3, <2>4
  <2>6. \A p \in logs' : head'[p] = FileHead(p)'
    <3>1. part \in Part
      BY <1>1, <1>2, <2>4
    <3>2. logs \subseteq Part
      BY TypeParts DEF ProcessTypeOK
    <3> QED  BY <1>1, <2>1, <2>3, <2>4, <3>1, <3>2
  <2> QED  BY <2>1, <2>2, <2>3, <2>4, <2>5, <2>6 DEF StartingOK, DownOK
<1>8. CASE (Index /\ ~Closed) \/ \E b \in BOOLEAN : GenerateChunk(b)
  <2>1. /\ phase \in {"index", "generate"} /\ UNCHANGED <<logs, head>>
        /\ UNCHANGED <<file, base, mode, top, reader, garbage>>
        /\ \/ phase' \in {"index", "generate"} /\ part' = part
           \/ phase' = "load" /\ part' = part /\ part = top
           \/ phase' = "open" /\ part' = part + 1 /\ part # top
    <3>1. CASE Index /\ ~Closed
      BY <3>1 DEF Index, Refuse, Abort, disk
    <3>2. CASE \E b \in BOOLEAN : GenerateChunk(b)
      BY <3>2 DEF GenerateChunk
    <3> QED  BY <1>8, <3>1, <3>2
  <2>2. Starting /\ Starting'
    BY <2>1 DEF Starting
  <2>3. logs = Needed(mode, top) .. part /\ Needed(mode, top) <= part
        /\ \A p \in logs : head[p] = FileHead(p)
    BY <2>1, <2>2 DEF StartingOK
  <2>4. /\ Files' = Files /\ Topmost(top)' /\ Needed(mode, top)' = Needed(mode, top)
        /\ garbage' = {} /\ reader' = [r \in Readers |-> NoReader]
        /\ Needed(mode, top) .. top \subseteq Files' /\ \A p : FileHead(p)' = FileHead(p)
        /\ top \in Part /\ top \in Nat /\ Needed(mode, top) \in 1 .. top /\ part \in 1 .. top
    BY <1>6, <2>1, <2>2
  <2>5. \A p \in logs' : head'[p] = FileHead(p)'
    BY <2>1, <2>3, <2>4
  <2>6. /\ part' \in 1 .. top /\ Needed(mode, top) <= part'
        /\ logs' = Needed(mode, top) .. (IF phase' = "open" THEN part' - 1 ELSE part')
    BY <2>1, <2>3, <2>4
  <2> QED  BY <2>1, <2>2, <2>4, <2>5, <2>6 DEF StartingOK, DownOK
<1> QED  BY <1>3, <1>4, <1>5, <1>7, <1>8, StepKinds DEF Opens

------------------------------------------------------------------------------
(* A running node. *)

\* What the state of a running node is, in the terms the steps need.
LEMMA ServingFacts ==
  ASSUME IInv, Serving
  PROVE  /\ top \in Part /\ top \in Nat /\ top >= 1
         /\ head[top] \in 0 .. MaxBlock /\ LogHead = head[top]
         /\ base \in Nat /\ lib \in 0 .. MaxBlock /\ First(top) \in 1 .. MaxBlock
         /\ file[top] \in -1 .. PartSize
         /\ logs \subseteq Part /\ garbage \subseteq Part
<1> USE DEF IInv
<1>1. top \in Part
  BY TypeParts DEF ProcessTypeOK, ServingOK
<1>2. 0 \notin Part
  BY PartsOfBlocks
<1>3. /\ head \in [Part -> 0 .. MaxBlock] /\ file \in [Part -> -1 .. PartSize]
      /\ base \in Nat /\ lib \in 0 .. MaxBlock
      /\ logs \subseteq Part /\ garbage \subseteq Part
  BY TypeParts DEF ProcessTypeOK, DiskTypeOK
<1>4. top \in Nat /\ top >= 1 /\ First(top) \in 1 .. MaxBlock
  BY <1>1, PartsOfBlocks
<1>5. LogHead = head[top]
  BY <1>1, <1>2 DEF LogHead
<1> QED  BY <1>1, <1>3, <1>4, <1>5

\* The next block belongs to the head part, or begins the next one.
LEMMA NextBlock ==
  ASSUME IInv, Serving, ~Writing
  PROVE  LET n == head[top] + 1
         IN  \/ /\ get_part_number_for_block(n) = top
                /\ First(top) + file[top] = n /\ file[top] >= 0
             \/ /\ get_part_number_for_block(n) = top + 1 /\ is_last_number_of_the_file(n - 1)
                /\ head[top] = First(top) + PartSize - 1 /\ file[top] = PartSize
<1> USE DEF IInv
<1>0. PartSize \in Nat \ {0}
  BY BlockLogAssumption
<1>1. /\ top \in Part /\ top \in Nat /\ top >= 1 /\ head[top] \in Nat
      /\ First(top) \in Nat /\ First(top) >= 1
      /\ file[top] \in -1 .. PartSize
  BY ServingFacts
<1>2. Topmost(top) /\ head[top] = FileHead(top) /\ (top > 1 => head[top] > 0)
  BY DEF ServingOK
<1>3. CASE head[top] = 0
  <2>1. top = 1 /\ file[top] = 0
    <3>1. ~(file[top] > 0)
      <4>1. FileHead(top) = 0
        BY <1>2, <1>3
      <4>2. file[top] > 0 => First(top) <= FileHead(top)
        BY <1>1, FileHeads
      <4> QED  BY <1>1, <4>1, <4>2
    <3>2. file[top] # -1
      BY <1>2 DEF Topmost, Files, NoFile
    <3> QED  BY <1>0, <1>1, <1>2, <1>3, <3>1, <3>2
  <2>2. First(1) = 1
    BY PartBounds
  <2>3. get_part_number_for_block(1) = 1
    BY <1>0, <2>2, PartOfBlock
  <2> QED  BY <1>3, <2>1, <2>2, <2>3
<1>4. CASE head[top] # 0
  <2>1. /\ file[top] > 0 /\ head[top] = First(top) + file[top] - 1
        /\ First(top) <= head[top] /\ head[top] < First(top) + PartSize
    BY <1>1, <1>2, <1>4, FileHeads
  <2>2. CASE head[top] + 1 < First(top) + PartSize
    <3>1. get_part_number_for_block(head[top] + 1) = top
      BY <1>1, <2>1, <2>2, PartOfBlock
    <3> QED  BY <1>1, <2>1, <3>1
  <2>3. CASE ~(head[top] + 1 < First(top) + PartSize)
    <3>1. head[top] + 1 = First(top) + PartSize /\ file[top] = PartSize
      BY <1>0, <1>1, <2>1, <2>3
    <3>2. First(top + 1) = First(top) + PartSize
      BY <1>1, PartBounds
    <3>3. get_part_number_for_block(head[top] + 1) = top + 1
      <4>1. head[top] + 1 \in Nat \ {0} /\ top + 1 \in Int
        BY <1>1
      <4>2. First(top + 1) <= head[top] + 1 /\ head[top] + 1 < First(top + 1) + PartSize
        BY <1>0, <1>1, <3>1, <3>2
      <4> QED  BY <4>1, <4>2, PartOfBlock
    <3>4. (head[top] + 1) - 1 = head[top] /\ head[top] = First(top) + PartSize - 1
      BY <1>0, <1>1, <3>1
    <3>5. is_last_number_of_the_file(head[top])
      BY <1>1, <3>4, PartOrder
    <3> QED  BY <3>1, <3>3, <3>4, <3>5
  <2> QED  BY <2>2, <2>3
<1> QED  BY <1>3, <1>4

\* Every step keeps ServingOK and WritingOK: the next block goes where the
\* file ends, in the head part or in a new one.
LEMMA RunningStep ==
  ASSUME IInv, Next
  PROVE  ServingOK' /\ WritingOK'
<1> USE DEF IInv
<1>0. PartSize \in Nat \ {0} /\ Split \in Nat \ {0} /\ MaxBlock \in Nat \ {0}
  BY BlockLogAssumption
<1>1. /\ TypeOK /\ head \in [Part -> 0 .. MaxBlock] /\ file \in [Part -> -1 .. PartSize]
      /\ part \in Part \cup {0} /\ top \in Part \cup {0} /\ lib \in 0 .. MaxBlock
      /\ base \in Nat /\ logs \subseteq Part
  BY TypeParts DEF ProcessTypeOK, DiskTypeOK
<1>2. \A p \in Part : p \in Nat /\ p >= 1 /\ First(p) \in 1 .. MaxBlock
  BY PartsOfBlocks
<1>3. CASE Closed \/ (~Closed /\ Opens)
  <2>1. ~Serving' /\ ~Writing'
    <3>1. CASE Closed
      BY <3>1 DEF Closed, Serving, Writing
    <3>2. CASE ~Closed /\ \E m \in {"normal", "replay", "force"} : Start(m)
      BY <3>2, StartOpens DEF Serving, Writing
    <3>3. CASE ~Closed /\ (OpenPart \/ Index \/ \E b \in BOOLEAN : GenerateChunk(b))
      BY <3>3 DEF OpenPart, Index, GenerateChunk, Refuse, Abort, Serving, Writing
    <3> QED  BY <1>3, <3>1, <3>2, <3>3 DEF Opens
  <2> QED  BY <2>1 DEF ServingOK, WritingOK
<1>4. CASE \E r \in Readers : Reading(r)
  <2>1. UNCHANGED <<file, lib, base, phase, part, logs, top, head, garbage, short>>
    BY <1>4, StaysUp DEF disk, process, history
  <2> QED  BY <2>1 DEF ServingOK, WritingOK, Serving, Writing, Topmost, Files, FileHead
<1>5. CASE ~Closed /\ Load
  <2> DEFINE last == IF mode = "normal" THEN base ELSE Reindexed
  <2>1. /\ phase = "load" /\ phase' = "run" /\ base' = last
        /\ base >= lib /\ lib' \in (IF last = base THEN {lib} ELSE lib .. last)
        /\ short' = (last < LogHead)
        /\ UNCHANGED <<file, part, logs, top, head, garbage>>
        /\ IF mode = "normal" THEN LogHead = base ELSE LogHead # 0 /\ base <= LogHead
    BY <1>5 DEF Load, Refuse, disk, process
  <2>2. Starting /\ Serving' /\ ~Writing /\ ~Writing'
    BY <2>1 DEF Starting, Serving, Writing
  <2>3. /\ Topmost(top) /\ part = top /\ garbage = {}
        /\ logs = Needed(mode, top) .. top /\ Needed(mode, top) .. top \subseteq Files
        /\ \A p \in logs : head[p] = FileHead(p)
    BY <2>1, <2>2 DEF StartingOK
  <2>4. top \in Part /\ top \in Nat /\ top >= 1
    BY <1>2, <2>3, NewestFile
  <2>5. /\ Needed(mode, top) \in 1 .. top
        /\ top > Split => Needed(mode, top) <= top - Split
        /\ top <= Split => Needed(mode, top) = 1
    BY <2>4, NeededPart
  <2>6. head[top] = FileHead(top) /\ LogHead = head[top] /\ head[top] \in Nat
    BY <1>1, <2>3, <2>4, <2>5 DEF LogHead
  <2>7. base <= last /\ (last = head[top] \/ last = head[top] - 1) /\ last \in Nat
        /\ (mode = "normal" => last = head[top])
    BY <1>1, <2>1, <2>6 DEF Reindexed, process_blocks
  <2>8. top > 1 => head[top] > 0
    <3> SUFFICES ASSUME top > 1, head[top] = 0 PROVE FALSE
      BY <2>6
    <3>1. base = 0
      BY <2>1, <2>6
    <3>2. file[top] > 0
      BY <2>3, <2>4, <3>1 DEF FilesOK
    <3> QED  BY <1>2, <2>4, <2>6, <3>2, FileHeads
  <2>9. \A p \in Part : top - Split <= p /\ p <= top => p \in logs
    BY <1>0, <1>2, <2>3, <2>4, <2>5
  <2>10. \A p \in logs : p < top => head[p] = First(p) + PartSize - 1
    <3> TAKE p \in logs
    <3> SUFFICES ASSUME p < top PROVE head[p] = First(p) + PartSize - 1
      OBVIOUS
    <3>1. p \in Part /\ p \in Files
      BY <1>1, <2>3
    <3>2. file[p] = PartSize
      BY <2>3, <2>4, <3>1 DEF FilesOK
    <3> QED  BY <1>0, <2>3, <3>1, <3>2, FileHeads
  <2>11. lib' <= base' + PartSize
    BY <1>0, <1>1, <2>1, <2>7
  <2>12. /\ Topmost(top)' /\ FileHead(top)' = FileHead(top) /\ Files' = Files
         /\ top' = top /\ head' = head /\ logs' = logs /\ garbage' = {}
    BY <2>1, <2>3 DEF Topmost, Files, FileHead
  <2>13. /\ short' => base' = head[top] - 1
         /\ ~short' => base' = head[top]
         /\ base' <= head[top]
    <3>1. short' <=> last < LogHead
      BY <2>1, Zenon
    <3> QED  BY <2>1, <2>6, <2>7, <3>1
  <2>14. short' => head[top] = First(top)
    <3> SUFFICES ASSUME short' PROVE head[top] = First(top)
      OBVIOUS
    <3>1. last = head[top] - 1 /\ head[top] \in Nat \ {0} /\ head[top] - 1 \in Nat
      BY <2>1, <2>6, <2>7, <2>13
    <3>2. is_last_number_of_the_file(head[top] - 1)
      BY <1>1, <2>1, <2>6, <3>1 DEF Reindexed, process_blocks
    <3>3. (head[top] - 1) + 1 = head[top]
      BY <3>1
    <3>4. First(get_part_number_for_block(head[top])) = head[top]
      BY <3>1, <3>2, <3>3, AfterLast
    <3>5. get_part_number_for_block(head[top]) = top
      BY <1>1, <2>4, <2>6, <3>1, FileHeads
    <3> QED  BY <3>4, <3>5
  <2>15. /\ head[top] <= base' \/ head[top] <= lib' \/ (short' /\ head[top] = First(top))
         /\ short' => base' = First(top) - 1 /\ base' < head[top]
    BY <2>6, <2>13, <2>14
  <2>16. logs \subseteq 1 .. top
    BY <2>3, <2>4, <2>5
  <2> HIDE DEF last
  <2>17. ServingOK'
    BY <2>1, <2>2, <2>3, <2>4, <2>6, <2>8, <2>9, <2>10, <2>11, <2>12, <2>13, <2>15, <2>16 DEF ServingOK
  <2> QED  BY <2>2, <2>17 DEF WritingOK
<1>6. CASE Appending
  <2>0. Serving /\ Serving'
    BY <1>6, StaysUp
  <2>1. /\ top \in Part /\ top \in Nat /\ top >= 1
        /\ head[top] \in 0 .. MaxBlock /\ LogHead = head[top] /\ First(top) \in 1 .. MaxBlock
        /\ file[top] \in -1 .. PartSize
    BY <2>0, ServingFacts
  <2>2. ASSUME NEW n \in Block, NEW b \in BOOLEAN, Irreversible(n, b)
        PROVE  ServingOK' /\ WritingOK'
    <3>1. /\ phase = "run" /\ lib' = n /\ n <= base + PartSize
          /\ phase' \in {"run", "append"}
          /\ UNCHANGED <<file, base, part, logs, top, head, garbage, short>>
      BY <1>1, <2>2 DEF Irreversible, disk, process, history
    <3>2. ~Writing /\ ~Writing'
      BY <3>1 DEF Writing
    <3>3. /\ head[top] <= base \/ (short /\ head[top] = First(top))
          /\ phase' # "commit" /\ phase' # "rotate"
      <4>1. CASE short
        <5>1. base = First(top) - 1 /\ base = head[top] - 1
          BY <2>0, <3>1, <4>1 DEF ServingOK
        <5> QED  BY <2>1, <3>1, <4>1, <5>1
      <4>2. CASE ~short
        BY <2>0, <2>1, <3>1, <4>2 DEF ServingOK
      <4> QED  BY <4>1, <4>2
    <3> QED  BY <2>0, <2>1, <3>1, <3>2, <3>3 DEF ServingOK, WritingOK, Topmost, Files, FileHead
  <2>3. CASE Append
    <3> DEFINE n == head[top] + 1
    <3>1. /\ phase = "append" /\ UNCHANGED <<file, lib, base, logs, top, head, garbage, short>>
          /\ phase' = (IF n > lib THEN "commit"
                       ELSE IF is_last_number_of_the_file(n - 1) /\ get_part_number_for_block(n) > top
                            THEN "create" ELSE "write")
          /\ n > lib => part' = part
          /\ n <= lib => part' = (IF is_last_number_of_the_file(n - 1) /\ get_part_number_for_block(n) > top
                                  THEN get_part_number_for_block(n) ELSE top)
      BY <1>1, <2>1, <2>3 DEF Append, disk, history
    <3>2. ~Writing
      BY <3>1 DEF Writing
    <3>4. CASE n > lib
      <4>1. phase' = "commit" /\ ~Writing'
        BY <3>1, <3>4 DEF Writing
      <4>2. lib <= head[top]
        BY <1>1, <2>1, <3>4
      <4> QED  BY <2>0, <2>1, <3>1, <3>2, <4>1, <4>2
               DEF ServingOK, WritingOK, Topmost, Files, FileHead
    <3>5. CASE ~(n > lib)
      <4>1. n <= lib /\ head[top] < lib
        BY <1>1, <2>1, <3>5
      <4>2. Writing'
        BY <3>1, <3>5 DEF Writing
      <4>3. ServingOK'
        BY <2>0, <2>1, <3>1, <3>2, <3>5, <4>2 DEF ServingOK, Files
      <4>4. Topmost(top)
        BY <2>0, <3>2 DEF ServingOK
      <4>5. get_part_number_for_block(n) \in Part
        <5>1. n \in 0 .. MaxBlock
          BY <1>0, <1>1, <2>1, <4>1
        <5> QED  BY <5>1, PartsOfBlocks
      <4>6. CASE /\ get_part_number_for_block(n) = top
                 /\ First(top) + file[top] = n /\ file[top] >= 0
        <5>1. phase' = "write" /\ part' = top
          BY <2>1, <3>1, <3>5, <4>1, <4>6
        <5>2. top # top + 1
          BY <2>1
        <5> QED  BY <3>1, <4>1, <4>3, <4>4, <4>5, <4>6, <5>1, <5>2 DEF WritingOK, Topmost, Files
      <4>7. CASE /\ get_part_number_for_block(n) = top + 1 /\ is_last_number_of_the_file(n - 1)
                 /\ head[top] = First(top) + PartSize - 1 /\ file[top] = PartSize
        <5>1. phase' = "create" /\ part' = top + 1
          BY <2>1, <3>1, <3>5, <4>1, <4>7
        <5> QED  BY <3>1, <4>1, <4>3, <4>4, <4>5, <4>7, <5>1 DEF WritingOK, Topmost, Files
      <4> QED  BY <2>0, <3>2, <4>6, <4>7, NextBlock
    <3> QED  BY <3>4, <3>5
  <2>4. CASE CreateLogFile \/ CreateArtifacts \/ WriteBlock \/ store_block_artifacts
             \/ (\E b \in BOOLEAN : store_block_artifacts_epilogue(b))
    <3>1. /\ phase \in {"create", "createArtifacts", "write", "chunk", "header"}
          /\ phase' \in {"createArtifacts", "write", "chunk", "header", "show"}
          /\ UNCHANGED <<lib, base, part, logs, top, head, garbage, short>>
      BY <2>4 DEF CreateLogFile, CreateArtifacts, WriteBlock, store_block_artifacts,
                  store_block_artifacts_epilogue, process, history
    <3>2. Writing /\ Writing'
      BY <3>1 DEF Writing
    <3>3. part \in Part /\ part \in Nat /\ First(part) \in Nat /\ file[part] \in -1 .. PartSize
      BY <1>1, <1>2, <3>2 DEF WritingOK
    <3>4. Files \subseteq Files'
      BY <1>1, <2>4, <3>3 DEF Files, NoFile, CreateLogFile, CreateArtifacts, WriteBlock,
           store_block_artifacts, store_block_artifacts_epilogue, WritingOK, Writing
    <3>5. ServingOK'
      BY <2>0, <3>1, <3>2, <3>4 DEF ServingOK
    <3>6. CASE CreateLogFile
      <4>1. phase = "create" /\ phase' = "createArtifacts" /\ file' = [file EXCEPT ![part] = 0]
        BY <3>6 DEF CreateLogFile
      <4>2. part = top + 1 /\ Topmost(top)
        BY <3>2, <4>1 DEF WritingOK
      <4>3. Files' = Files \cup {part}
        BY <1>1, <3>3, <4>1 DEF Files, NoFile
      <4>4. Topmost(part)'
        <5>1. \A p \in Files : p <= part
          BY <1>2, <2>1, <4>2, NewestFile DEF Topmost
        <5> QED  BY <3>1, <3>3, <4>3, <5>1 DEF Topmost
      <4>5. file'[part] = 0 /\ (file[top] = PartSize => file'[top] = PartSize)
        BY <1>1, <2>1, <3>3, <4>1, <4>2
      <4> QED  BY <3>1, <3>2, <3>5, <4>1, <4>2, <4>4, <4>5 DEF WritingOK
    <3>7. CASE CreateArtifacts
      <4>1. phase = "createArtifacts" /\ phase' = "write" /\ file' = file
        BY <3>7 DEF CreateArtifacts
      <4>2. part = top + 1 /\ Topmost(part) /\ file[part] = 0 /\ head[top] = First(top) + PartSize - 1
        BY <3>2, <4>1 DEF WritingOK
      <4>3. First(part) = First(top) + PartSize
        BY <2>1, <4>2, PartBounds
      <4>4. First(part) + file[part] = head[top] + 1
        BY <1>0, <2>1, <4>2, <4>3
      <4> QED  BY <3>1, <3>2, <3>5, <4>1, <4>2, <4>4 DEF WritingOK, Topmost, Files
    <3>8. CASE WriteBlock
      <4>1. phase = "write" /\ phase' = "chunk" /\ file' = [file EXCEPT ![part] = @ + 1]
        BY <3>8 DEF WriteBlock
      <4>2. Topmost(part) /\ First(part) + file[part] = head[top] + 1 /\ file[part] >= 0
            /\ (part = top + 1 => file[top] = PartSize)
        BY <3>2, <4>1 DEF WritingOK
      <4>3. file'[part] = file[part] + 1 /\ (part = top + 1 => file'[top] = PartSize)
        BY <1>1, <2>1, <3>3, <4>1, <4>2
      <4>4. Files' = Files
        BY <1>1, <3>3, <4>1, <4>2 DEF Files, NoFile
      <4>5. FileHead(part)' = head[top] + 1
        BY <2>1, <3>1, <3>3, <4>2, <4>3 DEF FileHead
      <4> QED  BY <3>1, <3>2, <3>5, <4>1, <4>2, <4>3, <4>4, <4>5 DEF WritingOK, Topmost
    <3>9. CASE store_block_artifacts \/ \E b \in BOOLEAN : store_block_artifacts_epilogue(b)
      <4>1. /\ phase \in {"chunk", "header"} /\ phase' \in {"header", "show"} /\ file' = file
        BY <3>9 DEF store_block_artifacts, store_block_artifacts_epilogue
      <4> QED  BY <3>1, <3>2, <3>5, <4>1 DEF WritingOK, Topmost, Files, FileHead
    <3> QED  BY <2>4, <3>6, <3>7, <3>8, <3>9
  <2>5. CASE ShowHead
    <3>1. /\ phase = "show" /\ head' = [head EXCEPT ![part] = FileHead(part)]
          /\ phase' = (IF part > top THEN "push" ELSE "append")
          /\ UNCHANGED <<file, lib, base, part, logs, top, garbage, short>>
      BY <2>5 DEF ShowHead, disk, history
    <3>2. Writing
      BY <3>1 DEF Writing
    <3>3. /\ part \in Part /\ part \in {top, top + 1} /\ Topmost(part) /\ head[top] < lib
          /\ FileHead(part) = head[top] + 1
      BY <3>1, <3>2 DEF WritingOK
    <3>4. Topmost(part)' /\ Files' = Files /\ \A p : FileHead(p)' = FileHead(p)
      BY <3>1, <3>3 DEF Topmost, Files, FileHead
    <3>5. head'[part] = head[top] + 1 /\ \A p \in Part : p # part => head'[p] = head[p]
      BY <1>1, <3>1, <3>3
    <3>6. base <= head[top]
      BY <2>0, <3>1 DEF ServingOK
    <3>7. CASE part = top
      <4>1. phase' = "append" /\ ~Writing'
        BY <2>1, <3>1, <3>7 DEF Writing
      <4>2. /\ head'[top] = head[top] + 1 /\ head'[top] <= lib /\ base < head'[top] /\ head'[top] > 0
        BY <1>1, <2>1, <3>3, <3>5, <3>6, <3>7
      <4> QED  BY <1>1, <1>2, <2>0, <2>1, <3>1, <3>2, <3>3, <3>4, <3>5, <3>6, <3>7, <4>1, <4>2
               DEF ServingOK, WritingOK
    <3>8. CASE part = top + 1
      <4>1. phase' = "push" /\ Writing' /\ head'[top] = head[top]
        BY <2>1, <3>1, <3>5, <3>8 DEF Writing
      <4>2. \A p \in logs : head'[p] = head[p]
        <5>1. \A p \in logs : p # part
          BY <2>0, <2>1, <3>8 DEF ServingOK
        <5> QED  BY <1>1, <3>5, <5>1
      <4>3. ServingOK'
        BY <2>0, <3>1, <3>4, <3>6, <4>1, <4>2 DEF ServingOK
      <4> QED  BY <3>1, <3>2, <3>3, <3>4, <3>5, <3>8, <4>1, <4>3 DEF WritingOK
    <3> QED  BY <3>3, <3>7, <3>8
  <2>6. CASE PushPart
    <3>1. /\ phase = "push" /\ logs' = logs \cup {part} /\ top' = part
          /\ phase' = (IF part - 1 > Split THEN "rotate" ELSE "append")
          /\ UNCHANGED <<file, lib, base, part, head, garbage, short>>
      BY <2>6 DEF PushPart, disk, history
    <3>2. Writing /\ ~Writing'
      BY <3>1 DEF Writing
    <3>3. /\ part \in Part /\ part = top + 1 /\ Topmost(part) /\ head[top] < lib
          /\ FileHead(part) = head[top] + 1 /\ head[part] = FileHead(part)
          /\ head[top] = First(top) + PartSize - 1
      BY <3>1, <3>2 DEF WritingOK
    <3>4. Topmost(part)' /\ Files' = Files /\ \A p : FileHead(p)' = FileHead(p)
      BY <3>1, <3>3 DEF Topmost, Files, FileHead
    <3>5. /\ base <= head[top] /\ logs \subseteq Files /\ logs \subseteq 1 .. top
          /\ \A p \in Part : top - Split <= p /\ p <= top => p \in logs
          /\ \A p \in logs : p < top => head[p] = First(p) + PartSize - 1
          /\ lib <= base + PartSize
          /\ short => base = First(top) - 1
      BY <2>0, <3>1 DEF ServingOK
    <3>5a. ~short
      BY <1>0, <1>1, <2>1, <3>3, <3>5
    <3>6. logs' \subseteq Files' /\ logs' \subseteq 1 .. top'
      BY <2>1, <3>1, <3>3, <3>4, <3>5 DEF Topmost
    <3>7. \A p \in Part : top' - Split <= p /\ p <= top' => p \in logs'
      BY <1>0, <1>2, <2>1, <3>1, <3>3, <3>5
    <3>8. \A p \in logs' : p < top' => head'[p] = First(p) + PartSize - 1
      BY <1>1, <1>2, <2>1, <3>1, <3>3, <3>5
    <3>9. head[part] <= lib /\ head[part] > 0 /\ base <= head[part]
      BY <1>1, <2>1, <3>3, <3>5
    <3>10. part # 0
      BY <2>1, <3>3
    <3>11. part - 1 > Split => part - 1 - Split \in logs
      <4>1. part - 1 > Split => top - Split \in Part
        BY <1>0, <2>1, <3>3, PartsOfBlocks
      <4> QED  BY <1>0, <2>1, <3>3, <3>5, <4>1
    <3>12. phase' = "rotate" => top' - 1 > Split /\ top' - 1 - Split \in logs'
      BY <3>1, <3>11
    <3>13. phase' # "run" /\ phase' # "commit"
      BY <3>1
    <3> QED  BY <3>1, <3>2, <3>3, <3>4, <3>5, <3>5a, <3>6, <3>7, <3>8, <3>9, <3>10, <3>12, <3>13
             DEF ServingOK, WritingOK
  <2>7. CASE Rotate
    <3> DEFINE old == part - 1 - Split
               free == {p \in garbage : ~InUse(p)}
    <3>1. /\ phase = "rotate" /\ logs' = logs \ {old} /\ phase' = "append"
          /\ file' = [p \in Part |-> IF p \in free THEN NoFile ELSE file[p]]
          /\ UNCHANGED <<lib, base, part, top, head, short>>
      BY <2>7 DEF Rotate, history
    <3>2. ~Writing /\ ~Writing'
      BY <3>1 DEF Writing
    <3>3. \A p \in free : p \in Files \ logs /\ p < top - 1 - Split
      BY <3>1 DEF GarbageOK
    <3> HIDE DEF free
    <3>4. part = top /\ Topmost(top) /\ head[top] = FileHead(top) /\ ~short /\ logs \subseteq Files
      BY <2>0, <3>1, <3>2 DEF ServingOK
    <3>5. Files' = Files \ free
      BY <1>1, <3>1 DEF Files, NoFile
    <3>6. top \notin free
      BY <1>0, <2>1, <3>3
    <3>7. Topmost(top)' /\ FileHead(top)' = FileHead(top)
      BY <2>1, <3>1, <3>4, <3>5, <3>6 DEF Topmost, FileHead
    <3>8. logs' \subseteq Files'
      BY <3>1, <3>3, <3>4, <3>5
    <3>9. \A p \in Part : top - Split <= p => p # old
      BY <1>0, <1>2, <2>1, <3>4
    <3> HIDE DEF old
    <3> QED  BY <2>0, <3>1, <3>2, <3>4, <3>7, <3>8, <3>9 DEF ServingOK, WritingOK
  <2>8. CASE Commit
    <3>1. /\ phase = "commit" /\ phase' = "run" /\ base' = Max({base, lib})
          /\ UNCHANGED <<file, lib, part, logs, top, head, garbage>>
          /\ short' = (short /\ base' < LogHead)
      BY <2>8 DEF Commit, disk, process
    <3>2. ~Writing /\ ~Writing'
      BY <3>1 DEF Writing
    <3>3. /\ base <= head[top] /\ lib <= head[top]
          /\ head[top] <= base \/ head[top] <= lib \/ (short /\ head[top] = First(top))
          /\ short => garbage = {} /\ base = First(top) - 1
      BY <2>0, <3>1 DEF ServingOK
    <3>4. base' = IF base >= lib THEN base ELSE lib
      BY <1>1, <3>1, MaxOfTwo
    <3>5. base' <= head[top] /\ lib <= base' + PartSize
      BY <1>0, <1>1, <2>1, <3>3, <3>4
    <3>6. short' <=> short /\ base' < head[top]
      <4>1. LogHead = head[top]
        BY <2>1
      <4> QED  BY <3>1, <4>1, Zenon
    <3>7. CASE base' = head[top]
      <4>1. ~short'
        BY <2>1, <3>6, <3>7
      <4> QED  BY <2>0, <2>1, <3>1, <3>2, <3>5, <3>7, <4>1 DEF ServingOK, WritingOK, Topmost, Files, FileHead
    <3>8. CASE base' # head[top]
      <4>1. short /\ head[top] = First(top) /\ base = First(top) - 1 /\ base' = base
        BY <1>1, <2>1, <3>3, <3>4, <3>8
      <4>2. short' /\ base' = head[top] - 1 /\ base' < head[top]
        BY <2>1, <3>6, <4>1
      <4> QED  BY <2>0, <2>1, <3>1, <3>2, <3>3, <3>5, <4>1, <4>2
               DEF ServingOK, WritingOK, Topmost, Files, FileHead
    <3> QED  BY <3>7, <3>8
  <2> QED  BY <1>6, <2>2, <2>3, <2>4, <2>5, <2>6, <2>7, <2>8 DEF Appending
<1> QED  BY <1>3, <1>4, <1>5, <1>6, StepKinds

------------------------------------------------------------------------------
(* Garbage and other old files. *)

\* A process that is down or starting has no garbage and no readers.
LEMMA NoGarbage ==
  ASSUME IInv, ~Closed, Opens \/ Load
  PROVE  /\ garbage = {} /\ garbage' = {} /\ part # top + 1 /\ phase # "rotate"
         /\ reader = [r \in Readers |-> NoReader] /\ UNCHANGED <<reader, leaked>>
<1> USE DEF IInv
<1>1. phase \in {"down", "open", "index", "generate", "load"} /\ UNCHANGED <<garbage, reader, leaked>>
  <2>1. CASE \E m \in {"normal", "replay", "force"} : Start(m)
    BY <2>1 DEF Start
  <2>2. CASE OpenPart
    BY <2>2 DEF OpenPart, Refuse, history
  <2>3. CASE Index
    BY <2>3 DEF Index, Refuse, Abort, history
  <2>4. CASE \E b \in BOOLEAN : GenerateChunk(b)
    BY <2>4 DEF GenerateChunk, history
  <2>5. CASE Load
    BY <2>5 DEF Load, Refuse, process
  <2> QED  BY <2>1, <2>2, <2>3, <2>4, <2>5 DEF Opens
<1>2. CASE phase = "down"
  BY <1>1, <1>2 DEF DownOK
<1>3. CASE phase # "down"
  <2>1. Starting
    BY <1>1, <1>3 DEF Starting
  <2>2. Topmost(top) /\ part \in 1 .. top /\ garbage = {} /\ reader = [r \in Readers |-> NoReader]
    BY <2>1 DEF StartingOK
  <2>3. top \in Nat
    BY <2>2, NewestFile, PartsOfBlocks
  <2> QED  BY <1>1, <2>2, <2>3
<1> QED  BY <1>2, <1>3

\* Every step keeps GarbageOK: a part leaves _logs only once a newer one is in.
LEMMA GarbageStep ==
  ASSUME IInv, Next
  PROVE  GarbageOK'
<1> USE DEF IInv
<1>0. Split \in Nat \ {0} /\ file \in [Part -> -1 .. PartSize] /\ \A p \in Part : p \in Nat
  BY BlockLogAssumption, TypeParts, PartsOfBlocks DEF DiskTypeOK
<1>1. CASE Closed
  BY <1>1 DEF Closed, GarbageOK
<1>2. CASE ~Closed /\ (Opens \/ Load)
  BY <1>2, NoGarbage DEF GarbageOK
<1>3. CASE \E r \in Readers : Reading(r)
  <2>1. UNCHANGED <<file, phase, logs, top, garbage>>
    BY <1>3, StaysUp DEF disk, process
  <2> QED  BY <2>1 DEF GarbageOK, Files
<1>4. CASE Appending
  <2>0. Serving /\ top \in Part /\ top \in Nat /\ logs \subseteq Part /\ garbage \subseteq Part
    BY <1>4, StaysUp, ServingFacts
  <2>1. CASE Rotate
    <3> DEFINE old == part - 1 - Split
               free == {p \in garbage : ~InUse(p)}
    <3>1. /\ phase = "rotate" /\ logs' = logs \ {old} /\ phase' = "append" /\ top' = top
          /\ garbage' = (garbage \ free) \cup {old}
          /\ file' = [p \in Part |-> IF p \in free THEN NoFile ELSE file[p]]
      BY <2>1 DEF Rotate
    <3>2. ~Writing
      BY <3>1 DEF Writing
    <3>3. part = top /\ top - 1 - Split \in logs /\ logs \subseteq Files
      BY <2>0, <3>1, <3>2 DEF ServingOK
    <3>4. old \in Files /\ old \in Part /\ old < top - Split /\ old \notin free
      BY <1>0, <2>0, <3>3 DEF GarbageOK
    <3> HIDE DEF old, free
    <3>5. Files' = Files \ free
      BY <1>0, <3>1 DEF Files, NoFile
    <3> QED  BY <3>1, <3>4, <3>5 DEF GarbageOK
  <2>2. CASE PushPart
    <3>1. /\ phase = "push" /\ logs' = logs \cup {part} /\ top' = part
          /\ UNCHANGED <<file, garbage>>
      BY <2>2 DEF PushPart, disk
    <3>2. part = top + 1
      BY <3>1 DEF WritingOK, Writing
    <3>3. \A p \in garbage : p \in Nat /\ p < top - Split
      BY <1>0, <2>0 DEF GarbageOK
    <3>4. \A p \in garbage : p < top' - Split /\ p < top' - 1 - Split /\ p # part
      BY <1>0, <2>0, <3>1, <3>2, <3>3
    <3> QED  BY <3>1, <3>4 DEF GarbageOK, Files
  <2>3. CASE CreateLogFile \/ WriteBlock
    <3>1. UNCHANGED <<logs, top, garbage>> /\ phase' # "rotate" /\ Writing
      BY <2>3 DEF CreateLogFile, WriteBlock, process, Writing
    <3>2. \A p \in Files : p \in Part /\ file'[p] # NoFile
      <4>1. part \in Part
        BY <3>1 DEF WritingOK
      <4>2. CASE CreateLogFile
        BY <1>0, <4>1, <4>2 DEF CreateLogFile, Files, NoFile
      <4>3. CASE WriteBlock
        <5>1. file[part] >= 0 /\ file' = [file EXCEPT ![part] = @ + 1]
          BY <4>3 DEF WriteBlock, WritingOK, Writing
        <5> QED  BY <1>0, <4>1, <5>1 DEF Files, NoFile
      <4> QED  BY <2>3, <4>2, <4>3
    <3> QED  BY <3>1, <3>2 DEF GarbageOK, Files
  <2>4. CASE \/ \E b \in BOOLEAN : store_block_artifacts_epilogue(b)
             \/ \E n \in Block, b \in BOOLEAN : Irreversible(n, b)
             \/ Append \/ CreateArtifacts \/ store_block_artifacts \/ ShowHead \/ Commit
    <3>1. UNCHANGED <<file, logs, top, garbage>> /\ phase' # "rotate"
      BY <2>4 DEF store_block_artifacts_epilogue, Irreversible, Append, CreateArtifacts,
                  store_block_artifacts, ShowHead, Commit, disk, process
    <3> QED  BY <3>1 DEF GarbageOK, Files
  <2> QED  BY <1>4, <2>1, <2>2, <2>3, <2>4 DEF Appending
<1> QED  BY <1>1, <1>2, <1>3, <1>4, StepKinds

\* Every step keeps StrayOK: no file of an older part is forgotten but by a kill.
LEMMA StrayStep ==
  ASSUME IInv, Next
  PROVE  StrayOK'
<1> USE DEF IInv
<1>0. /\ Split \in Nat \ {0} /\ file \in [Part -> -1 .. PartSize] /\ garbage \subseteq Part
      /\ \A p \in Part : p \in Nat /\ p >= 1
  <2>1. \A p \in Part : p \in Nat /\ p >= 1
    BY PartsOfBlocks
  <2>2. file \in [Part -> -1 .. PartSize] /\ garbage \subseteq Part
    BY TypeParts DEF DiskTypeOK, ProcessTypeOK
  <2> QED  BY <2>1, <2>2, BlockLogAssumption
<1>1. ASSUME file' = file, leaked \subseteq leaked', garbage \subseteq garbage', ~NewHead
      PROVE  StrayOK'
  BY <1>1 DEF StrayOK, Topmost, Files
<1>2. CASE Kill
  <2>1. file' = file /\ leaked' = leaked \cup {p \in Files : p < Max(Files) - Split}
    BY <1>2 DEF Kill
  <2>2. \A t \in Part : Topmost(t)' => t = Max(Files)
    BY <2>1, NewestFile DEF Topmost, Files
  <2>3. \A p \in Files' \ leaked' : p \in Files /\ p \in Nat /\ ~(p < Max(Files) - Split)
    BY <1>0, <2>1 DEF Files
  <2> QED  BY <1>0, <2>2, <2>3 DEF StrayOK
<1>3. CASE Close
  <2>1. /\ phase = "run" /\ file' = [p \in Part |-> IF p \in garbage THEN NoFile ELSE file[p]]
        /\ leaked' = leaked
    BY <1>3 DEF Close
  <2>2. Serving /\ ~Writing
    BY <2>1 DEF Serving, Writing
  <2>3. Topmost(top) /\ part = top /\ top \in Part
    BY <2>2, ServingFacts DEF ServingOK
  <2>4. Files' = Files \ garbage
    BY <1>0, <2>1 DEF Files, NoFile
  <2>5. top \notin garbage
    BY <1>0, <2>3 DEF GarbageOK
  <2>6. \A t \in Part : Topmost(t)' => t = top
    BY <1>0, <2>3, <2>4, <2>5 DEF Topmost
  <2>7. ~NewHead
    BY <1>0, <2>1, <2>3 DEF NewHead
  <2> QED  BY <2>1, <2>3, <2>4, <2>6, <2>7 DEF StrayOK
<1>4. CASE OpenPart \/ Index \/ Interrupt \/ Load \/ \E b \in BOOLEAN : GenerateChunk(b)
  <2>1. phase \in {"open", "index", "generate", "load"} /\ UNCHANGED <<file, leaked>>
    BY <1>4 DEF OpenPart, Index, Interrupt, Load, GenerateChunk, Refuse, Abort, disk, history
  <2>2. Starting
    BY <2>1 DEF Starting
  <2>3. Topmost(top) /\ part \in 1 .. top /\ garbage = {}
    BY <2>2 DEF StartingOK
  <2>4. ~NewHead
    BY <1>0, <2>1, <2>3, NewestFile DEF NewHead
  <2> QED  BY <1>1, <2>1, <2>3, <2>4
<1>5. CASE \E m \in {"normal", "replay", "force"} : Start(m)
  <2>1. /\ phase = "down" /\ UNCHANGED <<leaked, garbage>>
        /\ file' = (IF Files = {} THEN [file EXCEPT ![1] = 0] ELSE file)
    BY <1>5 DEF Start
  <2>2. ~NewHead
    BY <2>1 DEF DownOK, NewHead
  <2>3. CASE Files = {}
    <3>1. Files' \subseteq {1}
      BY <1>0, <2>1, <2>3 DEF Files, NoFile
    <3> QED  BY <1>0, <3>1 DEF StrayOK, Topmost
  <2>4. CASE Files # {}
    BY <1>1, <2>1, <2>2, <2>4
  <2> QED  BY <2>3, <2>4
<1>6. CASE \E r \in Readers : Reading(r)
  <2>1. UNCHANGED <<file, phase, part, top, garbage, leaked>>
    BY <1>6, StaysUp DEF disk, process, history
  <2> QED  BY <2>1 DEF StrayOK, Files, Topmost, NewHead
<1>7. CASE Appending
  <2>0. Serving /\ top \in Part /\ top \in Nat
    BY <1>7, StaysUp, ServingFacts
  <2>1. ASSUME UNCHANGED <<file, leaked, garbage>>, NewHead => NewHead'
        PROVE  StrayOK'
    BY <2>1 DEF StrayOK, Topmost, Files
  <2>2. CASE (\E n \in Block, b \in BOOLEAN : Irreversible(n, b)) \/ Append \/ Commit
    <3>1. phase \in {"run", "append", "commit"} /\ UNCHANGED <<file, leaked, garbage>>
      BY <2>2 DEF Irreversible, Append, Commit, disk, process, history
    <3>2. ~Writing
      BY <3>1 DEF Writing
    <3>3. ~NewHead
      BY <2>0, <3>1, <3>2 DEF ServingOK, NewHead
    <3> QED  BY <1>1, <3>1, <3>3
  <2>3. CASE CreateArtifacts \/ store_block_artifacts \/ ShowHead
             \/ (\E b \in BOOLEAN : store_block_artifacts_epilogue(b))
    <3>1. /\ phase \in {"createArtifacts", "chunk", "header", "show"} /\ phase' # "create"
          /\ UNCHANGED <<file, leaked, garbage, part, top>>
      BY <2>3 DEF CreateArtifacts, store_block_artifacts, ShowHead, store_block_artifacts_epilogue,
                  disk, process, history
    <3>2. NewHead => NewHead'
      BY <3>1 DEF NewHead
    <3> QED  BY <2>1, <3>1, <3>2
  <2>4. CASE CreateLogFile
    <3>1. /\ phase = "create" /\ phase' = "createArtifacts" /\ file' = [file EXCEPT ![part] = 0]
          /\ UNCHANGED <<leaked, garbage, part, top>>
      BY <2>4 DEF CreateLogFile, process, history
    <3>2. Topmost(top) /\ part = top + 1 /\ part \in Part
      BY <3>1 DEF WritingOK, Writing
    <3>3. ~NewHead /\ NewHead'
      BY <3>1, <3>2 DEF NewHead
    <3>4. Files' = Files \cup {part}
      BY <1>0, <3>1, <3>2 DEF Files, NoFile
    <3>5. \A t \in Part : Topmost(t)' => t = part
      BY <1>0, <2>0, <3>2, <3>4 DEF Topmost
    <3>6. \A p \in Files \ (leaked \cup garbage) : p \in Nat /\ p >= top - Split
      BY <1>0, <2>0, <3>2, <3>3 DEF StrayOK, Files
    <3>7. \A p \in Files' \ (leaked \cup garbage) : p >= part - 1 - Split
      BY <1>0, <2>0, <3>2, <3>4, <3>6
    <3> QED  BY <3>1, <3>3, <3>5, <3>7 DEF StrayOK
  <2>5. CASE WriteBlock
    <3>1. /\ phase = "write" /\ phase' = "chunk" /\ file' = [file EXCEPT ![part] = @ + 1]
          /\ UNCHANGED <<leaked, garbage, part, top>>
      BY <2>5 DEF WriteBlock, process, history
    <3>2. part \in Part /\ file[part] >= 0
      BY <3>1 DEF WritingOK, Writing
    <3>3. Files' = Files
      BY <1>0, <3>1, <3>2 DEF Files, NoFile
    <3>4. NewHead => NewHead'
      BY <3>1 DEF NewHead
    <3> QED  BY <3>1, <3>3, <3>4 DEF StrayOK, Topmost
  <2>6. CASE PushPart
    <3>1. /\ phase = "push" /\ phase' = (IF part - 1 > Split THEN "rotate" ELSE "append")
          /\ top' = part /\ UNCHANGED <<file, leaked, garbage, part>>
      BY <2>6 DEF PushPart, disk, history
    <3>2. part = top + 1 /\ Topmost(part) /\ part \in Part
      BY <3>1 DEF WritingOK, Writing
    <3>3. CASE part - 1 > Split
      BY <2>1, <3>1, <3>3 DEF NewHead
    <3>4. CASE ~(part - 1 > Split)
      <4>1. \A t \in Part : Topmost(t)' => t = part
        BY <1>0, <3>1, <3>2 DEF Topmost, Files
      <4>2. \A p \in Files' : p >= part - Split
        BY <1>0, <3>1, <3>2, <3>4 DEF Files
      <4> QED  BY <4>1, <4>2 DEF StrayOK
    <3> QED  BY <3>3, <3>4
  <2>7. CASE Rotate
    <3> DEFINE old == part - 1 - Split
               free == {p \in garbage : ~InUse(p)}
    <3>1. /\ phase = "rotate" /\ UNCHANGED <<leaked, part, top>>
          /\ garbage' = (garbage \ free) \cup {old}
          /\ file' = [p \in Part |-> IF p \in free THEN NoFile ELSE file[p]]
      BY <2>7 DEF Rotate, history
    <3>2. ~Writing
      BY <3>1 DEF Writing
    <3>3. part = top /\ Topmost(top)
      BY <2>0, <3>2 DEF ServingOK
    <3>4. top \notin free
      BY <1>0, <2>0 DEF GarbageOK
    <3> HIDE DEF free
    <3>5. Files' = Files \ free
      BY <1>0, <3>1 DEF Files, NoFile
    <3>6. \A t \in Part : Topmost(t)' => t = top
      BY <1>0, <2>0, <3>3, <3>4, <3>5 DEF Topmost
    <3>7. \A p \in Files \ (leaked \cup garbage) : p \in Nat /\ p >= top - 1 - Split
      BY <1>0, <2>0, <3>3 DEF StrayOK, Files
    <3>8. \A p \in Files' \ (leaked' \cup garbage') : p >= top - Split
      BY <1>0, <2>0, <3>1, <3>3, <3>5, <3>7
    <3> QED  BY <3>6, <3>8 DEF StrayOK
  <2> QED  BY <1>7, <2>2, <2>3, <2>4, <2>5, <2>6, <2>7 DEF Appending
<1> QED  BY <1>2, <1>3, <1>4, <1>5, <1>6, <1>7 DEF Next, Appending, Reading

------------------------------------------------------------------------------
(* Readers. *)

\* Every step keeps ReaderOK: what a reader saw of the log stays true while it
\* reads.
LEMMA ReaderStep ==
  ASSUME IInv, Next
  PROVE  ReaderOK'
<1> USE DEF IInv
<1>0. /\ PartSize \in Nat \ {0} /\ Split \in Nat \ {0} /\ MaxBlock \in Nat \ {0}
      /\ \A p \in Part : p \in Nat /\ p >= 1 /\ First(p) \in 1 .. MaxBlock
  BY BlockLogAssumption, PartsOfBlocks
<1>1. /\ head \in [Part -> 0 .. MaxBlock] /\ reader \in [Readers -> Reader]
      /\ logs \subseteq Part /\ garbage \subseteq Part
  BY TypeParts DEF ProcessTypeOK
<1>2. CASE Closed
  BY <1>2 DEF Closed, ReaderOK
<1>3. CASE ~Closed /\ (Opens \/ Load)
  BY <1>3, NoGarbage DEF ReaderOK
<1>4. ASSUME NEW r \in Readers, Reading(r)
      PROVE  ReaderOK'
  <2>1. Serving /\ UNCHANGED <<logs, top, head, garbage>>
    BY <1>4, StaysUp DEF process
  <2>2. /\ top \in Part /\ top \in Nat /\ head[top] \in 0 .. MaxBlock /\ LogHead = head[top]
    BY <2>1, ServingFacts
  <2>3. ASSUME NEW from, NEW to, ReadStep(r, from, to),
               \/ to = NoReader
               \/ /\ to.step = "asked" /\ to.part = 0
                  /\ to.num \in 1 .. head[top]
               \/ /\ to.step \in {"held", "disk"}
                  /\ to.part \in logs \cup garbage
                  /\ to.part = get_part_number_for_block(to.num)
                  /\ to.num \in 1 .. head[to.part]
                  /\ to.step = "disk" => to.num < head[to.part]
        PROVE  ReaderOK'
    <3>1. reader' = [reader EXCEPT ![r] = to]
      BY <2>3 DEF ReadStep
    <3>2. reader'[r] = to /\ \A q \in Readers : q # r => reader'[q] = reader[q]
      BY <1>1, <3>1
    <3> QED  BY <2>1, <2>3, <3>2 DEF ReaderOK
  <2>4. CASE \E n \in Block : Ask(r, n)
    <3>1. PICK n \in Block : Ask(r, n)
      BY <2>4
    <3> DEFINE to == [step |-> "asked", num |-> n, part |-> 0]
    <3>2. n \in 1 .. head[top] /\ ReadStep(r, "none", to)
      BY <2>2, <3>1 DEF Ask
    <3>3. to.step = "asked" /\ to.part = 0 /\ to.num = n
      OBVIOUS
    <3> HIDE DEF to
    <3> QED  BY <2>3, <3>2, <3>3
  <2>5. CASE TakePart(r)
    <3> DEFINE p == get_part_number_for_block(reader[r].num)
               to == IF p \in logs THEN [reader[r] EXCEPT !.step = "held", !.part = p] ELSE NoReader
    <3>1. ReadStep(r, "asked", to) /\ reader[r].step = "asked"
      BY <2>5 DEF TakePart, ReadStep
    <3>2. reader[r].num \in 1 .. head[top]
      BY <3>1 DEF ReaderOK, NoReader
    <3>3. CASE p \notin logs
      BY <2>3, <3>1, <3>3
    <3>4. CASE p \in logs
      <4>1. reader[r] \in Reader
        BY <1>1
      <4>2. to.step = "held" /\ to.part = p /\ to.num = reader[r].num
        BY <3>4, <4>1 DEF Reader
      <4>3. to.num \in Nat \ {0}
        BY <2>2, <3>2, <4>2
      <4>4. to.num < First(p) + PartSize /\ p \in Part
        BY <1>1, <3>4, <4>2, <4>3, PartOfBlock
      <4>5. to.num <= head[p]
        <5>1. CASE p = top
          BY <2>2, <3>2, <4>2, <5>1
        <5>2. CASE p # top
          <6>1. p < top /\ head[p] = First(p) + PartSize - 1
            BY <1>0, <2>1, <2>2, <3>4, <4>4, <5>2 DEF ServingOK
          <6> QED  BY <1>0, <4>3, <4>4, <6>1
        <5> QED  BY <5>1, <5>2
      <4>6. p = get_part_number_for_block(to.num)
        BY <4>2
      <4>7. head[p] \in Nat
        BY <1>1, <4>4
      <4> HIDE DEF to, p
      <4>8. to.num \in 1 .. head[to.part]
        BY <4>2, <4>3, <4>5, <4>7
      <4> QED  BY <2>3, <3>1, <3>4, <4>2, <4>6, <4>8
    <3> QED  BY <3>3, <3>4
  <2>6. CASE LookAtHead(r)
    <3> DEFINE to == IF reader[r].num >= head[reader[r].part] THEN NoReader
                     ELSE [reader[r] EXCEPT !.step = "disk"]
    <3>1. ReadStep(r, "held", to) /\ reader[r].step = "held"
      BY <2>6 DEF LookAtHead, ReadStep
    <3>2. CASE reader[r].num >= head[reader[r].part]
      BY <2>3, <3>1, <3>2
    <3>3. CASE ~(reader[r].num >= head[reader[r].part])
      <4>1. reader[r] \in Reader
        BY <1>1
      <4>2. to.step = "disk" /\ to.part = reader[r].part /\ to.num = reader[r].num
        BY <3>3, <4>1 DEF Reader
      <4>3. /\ reader[r].part \in logs \cup garbage
            /\ reader[r].part = get_part_number_for_block(reader[r].num)
            /\ reader[r].num \in 1 .. head[reader[r].part]
        BY <3>1 DEF ReaderOK, NoReader
      <4>4. reader[r].num < head[reader[r].part]
        BY <1>1, <3>3, <4>3
      <4> HIDE DEF to
      <4> QED  BY <2>3, <3>1, <4>2, <4>3, <4>4
    <3> QED  BY <3>2, <3>3
  <2>7. CASE ReadDisk(r)
    BY <2>3, <2>7 DEF ReadDisk
  <2> QED  BY <1>4, <2>4, <2>5, <2>6, <2>7 DEF Reading
<1>5. CASE Appending
  <2>0. Serving /\ Serving'
    BY <1>5, StaysUp
  <2>1. top \in Part /\ top \in Nat /\ head[top] \in 0 .. MaxBlock
    BY <2>0, ServingFacts
  <2>2. reader' = reader
    BY <1>5 DEF Appending, store_block_artifacts_epilogue, Irreversible, Append, CreateLogFile,
         CreateArtifacts, WriteBlock, store_block_artifacts, ShowHead, PushPart, Rotate, Commit
  <2>3. ASSUME head'[top'] \in Int, head'[top'] >= head[top],
               \A p \in logs \cup garbage : head'[p] \in Int /\ head'[p] >= head[p],
               \A p \in logs \cup garbage : InUse(p) => p \in logs' \cup garbage'
        PROVE  ReaderOK'
    <3>1. \A r \in Readers : reader[r].part \in logs \cup garbage => InUse(reader[r].part)
      BY DEF InUse
    <3>2. \A p \in logs \cup garbage : head[p] \in Int
      BY <1>1
    <3>3. \A r \in Readers : reader[r].num \in Int
      BY <1>0, <1>1 DEF Reader
    <3> QED  BY <2>1, <2>2, <2>3, <3>1, <3>2, <3>3 DEF ReaderOK
  <2>4. CASE ShowHead
    <3>1. /\ phase = "show" /\ head' = [head EXCEPT ![part] = FileHead(part)]
          /\ UNCHANGED <<top, logs, garbage>>
      BY <2>4 DEF ShowHead
    <3>2. part \in Part /\ part \in {top, top + 1} /\ FileHead(part) = head[top] + 1
      BY <3>1 DEF WritingOK, Writing
    <3>3. \A p \in logs \cup garbage : p <= top
      BY <1>0, <1>1, <2>0, <2>1 DEF ServingOK, GarbageOK
    <3> QED  BY <1>0, <1>1, <2>1, <2>3, <3>1, <3>2, <3>3
  <2>5. CASE PushPart
    <3>1. phase = "push" /\ logs' = logs \cup {part} /\ top' = part /\ UNCHANGED <<head, garbage>>
      BY <2>5 DEF PushPart
    <3>2. part \in Part /\ FileHead(part) = head[top] + 1 /\ head[part] = FileHead(part)
      BY <3>1 DEF WritingOK, Writing
    <3> QED  BY <1>1, <2>1, <2>3, <3>1, <3>2
  <2>6. CASE Rotate
    <3>1. /\ phase = "rotate" /\ UNCHANGED <<head, top>> /\ logs' = logs \ {part - 1 - Split}
          /\ garbage' = (garbage \ {p \in garbage : ~InUse(p)}) \cup {part - 1 - Split}
      BY <2>6 DEF Rotate
    <3> QED  BY <1>1, <2>1, <2>3, <3>1
  <2>7. CASE ~ShowHead /\ ~PushPart /\ ~Rotate
    <3>1. UNCHANGED <<head, top, logs, garbage>>
      BY <1>5, <2>7 DEF Appending, store_block_artifacts_epilogue, Irreversible, Append, CreateLogFile,
         CreateArtifacts, WriteBlock, store_block_artifacts, Commit, process
    <3> QED  BY <1>1, <2>1, <2>3, <3>1
  <2> QED  BY <2>4, <2>5, <2>6, <2>7
<1> QED  BY <1>2, <1>3, <1>4, <1>5, StepKinds

------------------------------------------------------------------------------
(* Artifacts. *)

\* The fields of the headers, and the ends of the parts' files.
LEMMA HeaderFacts ==
  ASSUME IInv
  PROVE  /\ art \in [Part -> Header] /\ hdr \in [Part -> Header]
         /\ \A p \in Part :
              /\ art[p].head \in Int /\ art[p].head >= -1 /\ art[p].tail \in Nat /\ art[p].at \in Nat
              /\ hdr[p].head \in Nat /\ hdr[p].tail \in Nat /\ hdr[p].at \in Nat
              /\ p \in Nat /\ p >= 1 /\ First(p) \in Nat /\ First(p) >= 1 /\ First(p) <= MaxBlock
              /\ FileHead(p) \in Nat
              /\ FileHead(p) > 0 => First(p) <= FileHead(p) /\ FileHead(p) < First(p) + PartSize
<1> USE DEF IInv
<1>0. MaxBlock \in Nat \ {0}
  BY BlockLogAssumption
<1>1. art \in [Part -> Header] /\ hdr \in [Part -> Header]
  BY TypeParts DEF DiskTypeOK, ProcessTypeOK
<1>2. ASSUME NEW p \in Part
      PROVE  /\ art[p].head \in Int /\ art[p].head >= -1 /\ art[p].tail \in Nat /\ art[p].at \in Nat
             /\ hdr[p].head \in Nat /\ hdr[p].tail \in Nat /\ hdr[p].at \in Nat
  <2>1. art[p] \in Header /\ hdr[p] \in Header /\ hdr[p].head >= 0
    BY <1>1 DEF HeadersOK
  <2> QED  BY <1>0, <2>1 DEF Header
<1>3. ASSUME NEW p \in Part
      PROVE  p \in Nat /\ p >= 1 /\ First(p) \in Nat /\ First(p) >= 1 /\ First(p) <= MaxBlock
  BY <1>0, PartsOfBlocks
<1>4. ASSUME NEW p \in Part
      PROVE  /\ FileHead(p) \in Nat
             /\ FileHead(p) > 0 => First(p) <= FileHead(p) /\ FileHead(p) < First(p) + PartSize
  <2>1. CASE file[p] > 0
    BY <2>1, FileHeads
  <2>2. CASE ~(file[p] > 0)
    BY <2>2, FileHeads
  <2> QED  BY <2>1, <2>2
<1> QED  BY <1>1, <1>2, <1>3, <1>4

\* Artifacts files that stay as they are while files and chunks are added.
LEMMA ArtifactsKept ==
  ASSUME IInv, art' = art, chunk \subseteq chunk', cut \subseteq cut', Files \subseteq Files',
         \A p \in Part : FileHead(p)' \in Int /\ FileHead(p) <= FileHead(p)',
         phase # "generate"
  PROVE  ArtifactsOK'
<1> USE DEF IInv
<1> SUFFICES ASSUME NEW p \in Part
             PROVE  /\ WellFormed(art[p], p)'
                    /\ p \notin Files' => art'[p] = NoArt
                    /\ Complete(art[p], p)'
  BY DEF ArtifactsOK
<1>1. WellFormed(art[p], p) /\ (p \notin Files => art[p] = NoArt) /\ Complete(art[p], p)
  BY DEF ArtifactsOK
<1>2. art[p].head \in Int /\ FileHead(p) \in Int
  BY HeaderFacts
<1> QED  BY <1>1, <1>2 DEF WellFormed, Complete

\* The part a generation works on is in _logs.
LEMMA PartOpen ==
  ASSUME IInv, phase \in {"index", "generate", "load"}
  PROVE  /\ part \in logs /\ part \in Part /\ art[part] = hdr[part]
         /\ head[part] = FileHead(part) /\ Starting /\ garbage = {}
         /\ logs \subseteq Part /\ \A p \in logs : art[p] = hdr[p] /\ head[p] = FileHead(p)
<1> USE DEF IInv
<1>1. Starting
  BY DEF Starting
<1>2. /\ logs = Needed(mode, top) .. part /\ Needed(mode, top) <= part /\ part \in 1 .. top
      /\ Topmost(top) /\ garbage = {} /\ \A p \in logs : head[p] = FileHead(p)
  BY <1>1 DEF StartingOK
<1>3. top \in Part /\ TypeOK
  BY <1>2, NewestFile
<1>4. Needed(mode, top) \in Nat
  BY <1>3, NeededPart
<1>5. part \in logs
  BY <1>2, <1>4
<1>6. logs \subseteq Part
  BY TypeParts DEF ProcessTypeOK
<1> QED  BY <1>1, <1>2, <1>5, <1>6 DEF HeadersOK

\* A start that is refused leaves the artifacts files as they are.
LEMMA RefuseKeeps ==
  ASSUME IInv, Refuse, phase \in {"open", "index", "load"}
  PROVE  ArtifactsOK'
<1> USE DEF IInv
<1>1. Starting
  BY DEF Starting
<1>2. /\ UNCHANGED <<file, chunk, cut>> /\ art' = Flushed(hdr)
  BY DEF Refuse
<1>3. garbage = {} /\ \A p \in logs : art[p] = hdr[p]
  BY <1>1 DEF StartingOK, HeadersOK
<1>4. art \in [Part -> Header]
  BY HeaderFacts
<1>5. art' = art
  BY <1>2, <1>3, <1>4 DEF Flushed
<1>6. Files' = Files /\ \A p \in Part : FileHead(p)' = FileHead(p) /\ FileHead(p) \in Int
  BY <1>2, HeaderFacts DEF Files, FileHead
<1>7. \A p \in Part : FileHead(p)' \in Int /\ FileHead(p) <= FileHead(p)'
  BY <1>6
<1> QED  BY <1>2, <1>5, <1>6, <1>7, ArtifactsKept

\* Chunks of other parts do not matter to a part.
LEMMA ChunksApart ==
  ASSUME IInv, NEW p \in Part, NEW h, h.head \in Int, WellFormed(h, p), Complete(h, p),
         NEW gone, p \notin gone, cut' = cut,
         chunk' = {n \in chunk : get_part_number_for_block(n) \notin gone}
  PROVE  Complete(h, p)'
<1> USE DEF IInv
<1> SUFFICES ASSUME NEW n \in First(p) .. h.head, n \in chunk
             PROVE  n \in chunk'
  BY DEF Complete
<1>1. /\ FileHead(p) \in Nat /\ p \in Int /\ First(p) \in Nat /\ First(p) >= 1
      /\ FileHead(p) > 0 => First(p) <= FileHead(p) /\ FileHead(p) < First(p) + PartSize
  BY HeaderFacts
<1>2. h.head <= FileHead(p) /\ PartSize \in Nat
  BY BlockLogAssumption DEF WellFormed
<1>3. n \in Nat \ {0} /\ First(p) <= n /\ n < First(p) + PartSize
  BY <1>1, <1>2
<1>4. get_part_number_for_block(n) = p
  BY <1>1, <1>3, PartOfBlock
<1> QED  BY <1>4

\* What the files say does not change when the files do not.
LEMMA SameFiles ==
  ASSUME file' = file
  PROVE  /\ Files' = Files
         /\ \A p \in Part : FileHead(p)' = FileHead(p)
  BY DEF Files, FileHead

\* A process that is not there has no headers in memory.
LEMMA ClosedHeaders == Closed => HeadersOK' /\ GeneratingOK'
<1> SUFFICES ASSUME Closed PROVE HeadersOK' /\ GeneratingOK'
  OBVIOUS
<1>1. phase' = "down" /\ hdr' = [p \in Part |-> NoHeader]
  BY DEF Closed
<1>2. ~Starting' /\ ~Serving'
  BY <1>1 DEF Starting, Serving
<1>3. \A p \in Part : hdr'[p].head >= 0
  BY <1>1 DEF NoHeader
<1> QED  BY <1>1, <1>2, <1>3 DEF HeadersOK, GeneratingOK

\* A kill: what a generation had not reached is noted in cut.
LEMMA KillArtifacts == ASSUME IInv, Kill PROVE ArtifactsOK'
<1> USE DEF IInv
<1>1. UNCHANGED <<file, art, chunk>>
  BY DEF Kill
<1>2. Files' = Files /\ \A p \in Part : FileHead(p)' = FileHead(p) /\ FileHead(p) \in Int
  BY <1>1, SameFiles, HeaderFacts
<1>3. cut' = IF phase = "generate" /\ art[part].at = 0
             THEN cut \cup ((hdr[part].tail .. gen) \ chunk) ELSE cut
  BY DEF Kill
<1>4. cut \subseteq cut'
  BY <1>3
<1>5. CASE phase # "generate"
  <2>1. \A p \in Part : FileHead(p)' \in Int /\ FileHead(p) <= FileHead(p)'
    BY <1>2
  <2> QED  BY <1>1, <1>2, <1>4, <1>5, <2>1, ArtifactsKept
<1>6. CASE phase = "generate"
  <2>1. part \in Part /\ art[part] = hdr[part]
    BY <1>6, PartOpen
  <2> SUFFICES ASSUME NEW p \in Part
               PROVE  /\ WellFormed(art[p], p)'
                      /\ p \notin Files' => art'[p] = NoArt
                      /\ Complete(art[p], p)'
    BY DEF ArtifactsOK
  <2>2. WellFormed(art[p], p)' /\ (p \notin Files' => art'[p] = NoArt)
    BY <1>1, <1>2 DEF ArtifactsOK, WellFormed
  <2>3. CASE p # part
    <3>1. Complete(art[p], p)
      BY <2>3 DEF ArtifactsOK
    <3>2. Complete(art[p], p)'
      BY <1>1, <1>4, <3>1 DEF Complete
    <3> QED  BY <2>2, <3>2
  <2>4. CASE p = part
    <3> DEFINE h == hdr[part]
    <3>0. /\ h.head \in Nat /\ h.tail \in Nat /\ h.at \in Nat /\ First(p) \in Nat /\ gen \in Nat
      BY <2>1, <2>4, HeaderFacts, TypeParts, BlockLogAssumption DEF ProcessTypeOK
    <3>1. /\ h.at = 0 \/ gen < h.at
          /\ \A n \in First(p) .. h.head : n < h.tail \/ n > gen => n \in chunk \cup cut
      BY <1>6, <2>4 DEF GeneratingOK
    <3>2. art'[p] = h
      BY <1>1, <2>1, <2>4
    <3>3. h.at = 0 => cut' = cut \cup ((h.tail .. gen) \ chunk)
      BY <1>3, <1>6, <2>1
    <3> HIDE DEF h
    <3>4. ASSUME NEW n \in First(p) .. h.head,
                 h.at = 0 \/ n < h.tail \/ (n >= h.at /\ h.at # h.head)
          PROVE  n \in chunk' \cup cut'
      <4>1. CASE n < h.tail \/ n > gen
        BY <1>1, <1>4, <3>1, <4>1
      <4>2. CASE ~(n < h.tail \/ n > gen)
        <5>1. n \in h.tail .. gen /\ h.at = 0
          BY <3>0, <3>1, <3>4, <4>2
        <5> QED  BY <1>1, <3>3, <5>1
      <4> QED  BY <4>1, <4>2
    <3>5. Complete(art[p], p)'
      BY <3>2, <3>4 DEF Complete
    <3> QED  BY <2>2, <3>5
  <2> QED  BY <2>3, <2>4
<1> QED  BY <1>5, <1>6

\* An interrupted generation notes how far it came.
LEMMA InterruptArtifacts == ASSUME IInv, Interrupt PROVE ArtifactsOK'
<1> USE DEF IInv
<1> DEFINE h == hdr[part]
           m == Min({gen + 1, hdr[part].head})
           hh == [hdr EXCEPT ![part].at = m]
<1>1. UNCHANGED <<file, chunk, cut>> /\ phase = "generate" /\ art' = Flushed(hh)
  BY DEF Interrupt
<1>2. /\ part \in logs /\ part \in Part /\ art[part] = h /\ garbage = {}
      /\ \A p \in logs : art[p] = hdr[p]
  BY <1>1, PartOpen
<1>3. Files' = Files /\ \A p \in Part : FileHead(p)' = FileHead(p)
  BY <1>1, SameFiles
<1>4. /\ h.head \in Nat /\ h.tail \in Nat /\ h.at \in Nat /\ First(part) \in Nat /\ gen \in Nat
      /\ hdr \in [Part -> Header] /\ FileHead(part) \in Nat
  BY <1>2, HeaderFacts, TypeParts, BlockLogAssumption DEF ProcessTypeOK
<1>5. m = IF gen + 1 <= h.head THEN gen + 1 ELSE h.head
  BY <1>4, MinOfTwo
<1> HIDE DEF m
<1>6. /\ First(part) <= h.tail /\ h.tail < h.head /\ h.tail <= gen /\ gen <= h.head
      /\ \A n \in First(part) .. h.head : n < h.tail \/ n > gen => n \in chunk \cup cut
  BY <1>1 DEF GeneratingOK
<1>7. h.tail < m /\ m <= h.head /\ m \in Nat /\ m # 0 /\ (m # h.head => m = gen + 1)
  BY <1>4, <1>5, <1>6
<1> SUFFICES ASSUME NEW p \in Part
             PROVE  /\ WellFormed(art[p], p)'
                    /\ p \notin Files' => art'[p] = NoArt
                    /\ Complete(art[p], p)'
  BY DEF ArtifactsOK
<1>8. CASE p # part
  <2>1. hh[p] = hdr[p]
    BY <1>4, <1>8
  <2>2. art'[p] = art[p]
    BY <1>1, <1>2, <2>1 DEF Flushed
  <2>3. WellFormed(art[p], p) /\ (p \notin Files => art[p] = NoArt) /\ Complete(art[p], p)
    BY <1>8 DEF ArtifactsOK
  <2> QED  BY <1>1, <1>3, <2>2, <2>3 DEF WellFormed, Complete
<1>9. CASE p = part
  <2>1. hh[part] = [h EXCEPT !.at = m]
    BY <1>2, <1>4
  <2>2. art'[p] = [h EXCEPT !.at = m]
    BY <1>1, <1>2, <1>9, <2>1 DEF Flushed
  <2>3. h \in Header
    BY <1>2, <1>4
  <2>4. art'[p].head = h.head /\ art'[p].tail = h.tail /\ art'[p].at = m
    BY <2>2, <2>3 DEF Header
  <2>5. WellFormed(h, p) /\ (p \notin Files => art[p] = NoArt)
    BY <1>2, <1>9 DEF ArtifactsOK
  <2> HIDE DEF h
  <2>6. WellFormed(art[p], p)'
    BY <1>3, <1>4, <1>6, <1>7, <1>9, <2>4, <2>5 DEF WellFormed
  <2>7. p \in Files
    <3>1. h # NoArt
      BY <1>4 DEF NoArt
    <3> QED  BY <1>2, <1>9, <2>5, <3>1
  <2>8. Complete(art[p], p)'
    BY <1>1, <1>4, <1>6, <1>7, <1>9, <2>4 DEF Complete
  <2> QED  BY <1>3, <2>6, <2>7, <2>8
<1> QED  BY <1>8, <1>9

\* An orderly close writes the headers of the parts it has and removes the
\* files of the garbage.
LEMMA CloseArtifacts == ASSUME IInv, Close PROVE ArtifactsOK'
<1> USE DEF IInv
<1>1. /\ art' = [p \in Part |-> IF p \in garbage THEN NoArt ELSE Flushed(hdr)[p]]
      /\ file' = [p \in Part |-> IF p \in garbage THEN NoFile ELSE file[p]]
      /\ chunk' = {n \in chunk : get_part_number_for_block(n) \notin garbage}
      /\ cut' = cut /\ phase = "run"
  BY DEF Close
<1>2. Serving
  BY <1>1 DEF Serving
<1> SUFFICES ASSUME NEW p \in Part
             PROVE  /\ WellFormed(art[p], p)'
                    /\ p \notin Files' => art'[p] = NoArt
                    /\ Complete(art[p], p)'
  BY DEF ArtifactsOK
<1>0. First(p) \in Nat /\ First(p) >= 1 /\ FileHead(p) \in Nat
  BY HeaderFacts
<1>3. CASE p \in garbage
  <2>1. art'[p] = NoArt /\ file'[p] = NoFile
    BY <1>1, <1>3
  <2>2. FileHead(p)' = 0
    BY <2>1 DEF FileHead, NoFile
  <2>3. First(p) .. -1 = {}
    BY <1>0
  <2> QED  BY <2>1, <2>2, <2>3 DEF WellFormed, Complete, NoArt
<1>4. CASE p \notin garbage
  <2>1. file'[p] = file[p] /\ (p \in Files' <=> p \in Files) /\ FileHead(p)' = FileHead(p)
    BY <1>1, <1>4 DEF Files, FileHead
  <2>2. PICK h : h = art'[p]
    OBVIOUS
  <2>3. h = IF p \in logs THEN hdr[p] ELSE art[p]
    BY <1>1, <1>4, <2>2 DEF Flushed
  <2>4. WellFormed(h, p) /\ Complete(h, p)
    <3>1. CASE p \in logs
      BY <1>2, <2>3, <3>1 DEF HeadersOK, Kept
    <3>2. CASE p \notin logs
      BY <1>1, <2>3, <3>2 DEF ArtifactsOK
    <3> QED  BY <3>1, <3>2
  <2>5. h.head \in Int
    BY <2>3, HeaderFacts
  <2>6. Complete(h, p)'
    BY <1>1, <1>4, <2>4, <2>5, ChunksApart
  <2>7. WellFormed(h, p)'
    BY <2>1, <2>4 DEF WellFormed
  <2>8. p \notin Files' => h = NoArt
    <3>1. p \in logs => p \in Files
      BY <1>2 DEF ServingOK
    <3> QED  BY <2>1, <2>3, <3>1 DEF ArtifactsOK
  <2> QED  BY <2>2, <2>6, <2>7, <2>8 DEF WellFormed, Complete
<1> QED  BY <1>3, <1>4

\* A start finds the artifacts files as they were left.
LEMMA StartArtifacts ==
  ASSUME IInv, NEW m \in {"normal", "replay", "force"}, Start(m)
  PROVE  ArtifactsOK' /\ HeadersOK' /\ GeneratingOK'
<1> USE DEF IInv
<1>1. /\ phase = "down" /\ phase' \in {"down", "open"}
      /\ UNCHANGED <<art, chunk, cut, logs, hdr>>
      /\ file' = IF Files = {} THEN [file EXCEPT ![1] = 0] ELSE file
  BY DEF Start
<1>2. logs = {}
  BY <1>1 DEF DownOK
<1>3. file \in [Part -> -1 .. PartSize] /\ 1 \in Part
  BY TypeParts, PartsOfBlocks DEF DiskTypeOK
<1>4. /\ Files \subseteq Files'
      /\ \A p \in Part : FileHead(p)' = FileHead(p) /\ FileHead(p) \in Int
  <2>1. CASE Files = {}
    <3>1. \A p \in Part : file[p] = NoFile /\ FileHead(p) = 0
      BY <2>1 DEF Files, FileHead, NoFile
    <3>2. \A p \in Part : FileHead(p)' = 0
      BY <1>1, <1>3, <2>1, <3>1 DEF FileHead, NoFile
    <3> QED  BY <2>1, <3>1, <3>2
  <2>2. CASE Files # {}
    BY <1>1, <2>2, SameFiles, HeaderFacts
  <2> QED  BY <2>1, <2>2
<1>5. \A p \in Part : FileHead(p)' \in Int /\ FileHead(p) <= FileHead(p)'
  BY <1>4
<1>6. ArtifactsOK'
  BY <1>1, <1>4, <1>5, ArtifactsKept
<1>7. ~Serving' /\ phase' \notin {"header", "show", "push", "generate"}
  BY <1>1 DEF Serving
<1>8. HeadersOK' /\ GeneratingOK'
  BY <1>1, <1>2, <1>7 DEF HeadersOK, GeneratingOK
<1> QED  BY <1>6, <1>8

\* A new header h of one part q that the step works on.
LEMMA OneHeader ==
  ASSUME IInv, NEW q \in Part, NEW h, art' = [art EXCEPT ![q] = h], file' = file, q \in Files,
         chunk \subseteq chunk', cut \subseteq cut', part = q, WellFormed(h, q),
         Complete(h, q)' \/ (phase' = "generate" /\ part' = q)
  PROVE  ArtifactsOK'
<1> USE DEF IInv
<1>1. art \in [Part -> Header]
  BY HeaderFacts
<1>2. Files' = Files /\ \A p \in Part : FileHead(p)' = FileHead(p)
  BY SameFiles
<1> SUFFICES ASSUME NEW p \in Part
             PROVE  /\ WellFormed(art[p], p)'
                    /\ p \notin Files' => art'[p] = NoArt
                    /\ Complete(art[p], p)' \/ (phase' = "generate" /\ p = part')
  BY DEF ArtifactsOK
<1>3. CASE p = q
  <2>1. art'[p] = h
    BY <1>1, <1>3
  <2>2. WellFormed(art[p], p)'
    BY <1>2, <1>3, <2>1 DEF WellFormed
  <2>3. Complete(art[p], p)' \/ (phase' = "generate" /\ p = part')
    BY <1>3, <2>1 DEF Complete
  <2> QED  BY <1>2, <1>3, <2>2, <2>3
<1>4. CASE p # q
  <2>1. art'[p] = art[p]
    BY <1>1, <1>4
  <2>2. WellFormed(art[p], p) /\ (p \notin Files => art[p] = NoArt) /\ Complete(art[p], p)
    BY <1>4 DEF ArtifactsOK
  <2> QED  BY <1>2, <2>1, <2>2 DEF WellFormed, Complete
<1> QED  BY <1>3, <1>4

\* A part that is opened has a file; the empty header stands for nothing.
LEMMA OpenArtifacts ==
  ASSUME IInv, OpenPart, ~Closed
  PROVE  ArtifactsOK' /\ HeadersOK' /\ GeneratingOK'
<1> USE DEF IInv
<1> DEFINE a == IF art[part] = NoArt THEN NoHeader ELSE art[part]
<1>1. /\ phase = "open" /\ phase' = "index" /\ logs' = logs \cup {part}
      /\ hdr' = [hdr EXCEPT ![part] = a] /\ art' = [art EXCEPT ![part] = a]
      /\ head' = [head EXCEPT ![part] = FileHead(part)]
      /\ UNCHANGED <<file, chunk, cut, part, garbage>>
  BY DEF OpenPart, Refuse, history
<1>2. /\ Starting /\ ~Serving'
  BY <1>1 DEF Starting, Serving
<1>3. /\ Topmost(top) /\ part \in 1 .. top /\ Needed(mode, top) .. top \subseteq Files
      /\ Needed(mode, top) <= part /\ logs = Needed(mode, top) .. (part - 1)
  BY <1>1, <1>2 DEF StartingOK
<1>4. top \in Part
  BY <1>3, NewestFile
<1>5. Needed(mode, top) \in Nat /\ top \in Nat
  BY <1>4, NeededPart, PartsOfBlocks
<1>6. part \in Files /\ part \notin logs
  BY <1>3, <1>5
<1>7. PICK q \in Part : q = part
  BY <1>6, NewestFile
<1>8. PICK h : h = a
  OBVIOUS
<1>9. /\ art \in [Part -> Header] /\ hdr \in [Part -> Header]
      /\ First(q) \in Nat /\ First(q) >= 1 /\ FileHead(q) \in Nat /\ art[q].head \in Int
      /\ art[q].head >= -1
  BY HeaderFacts
<1>10. WellFormed(art[q], q) /\ Complete(art[q], q)
  BY <1>1 DEF ArtifactsOK
<1>11. WellFormed(h, q) /\ Complete(h, q) /\ h.head \in Nat
  <2>1. CASE art[q] = NoArt
    <3>1. h = NoHeader
      BY <1>7, <1>8, <2>1
    <3>2. First(q) .. 0 = {}
      BY <1>9
    <3> QED  BY <1>9, <3>1, <3>2 DEF WellFormed, Complete, NoHeader
  <2>2. CASE art[q] # NoArt
    BY <1>7, <1>8, <1>9, <1>10, <2>2 DEF WellFormed
  <2> QED  BY <2>1, <2>2
<1>12. Complete(h, q)'
  BY <1>1, <1>11 DEF Complete
<1>13. ArtifactsOK'
  BY <1>1, <1>6, <1>7, <1>8, <1>11, <1>12, OneHeader
<1>14. \A p \in Part : hdr'[p].head >= 0
  BY <1>1, <1>7, <1>8, <1>9, <1>11 DEF HeadersOK
<1>15. ASSUME NEW p \in logs'
       PROVE  art'[p] = hdr'[p] /\ (p # part' => hdr'[p].at = 0 /\ head'[p] <= hdr'[p].head)
  <2>0. logs \subseteq Part /\ head \in [Part -> 0 .. MaxBlock]
    BY TypeParts DEF ProcessTypeOK
  <2>1. CASE p = part
    BY <1>1, <1>7, <1>9, <2>1
  <2>2. CASE p # part
    <3>1. p \in logs /\ p \in Part
      BY <1>1, <2>0, <2>2
    <3>2. art'[p] = art[p] /\ hdr'[p] = hdr[p] /\ head'[p] = head[p]
      BY <1>1, <1>9, <2>0, <2>2, <3>1
    <3> QED  BY <1>2, <2>2, <3>1, <3>2 DEF HeadersOK
  <2> QED  BY <2>1, <2>2
<1>16. phase' \notin {"header", "show", "push", "load", "generate"}
  BY <1>1
<1> QED  BY <1>2, <1>13, <1>14, <1>15, <1>16 DEF HeadersOK, GeneratingOK

\* Headers while a start works on the artifacts of one part that is open.
LEMMA StartingHeaders ==
  ASSUME IInv, phase \in {"index", "generate"}, phase' \in {"index", "generate"},
         UNCHANGED <<logs, part, head>>, NEW h \in Header, h.head >= 0,
         hdr' = [hdr EXCEPT ![part] = h], art' = [art EXCEPT ![part] = h]
  PROVE  HeadersOK'
<1> USE DEF IInv
<1>1. /\ part \in logs /\ part \in Part /\ Starting /\ logs \subseteq Part
  BY PartOpen
<1>2. art \in [Part -> Header] /\ hdr \in [Part -> Header] /\ ~Serving'
  BY HeaderFacts DEF Serving
<1>3. \A p \in Part : hdr'[p].head >= 0
  BY <1>1, <1>2 DEF HeadersOK
<1>4. ASSUME NEW p \in logs'
      PROVE  art'[p] = hdr'[p] /\ (p # part' => hdr'[p].at = 0 /\ head'[p] <= hdr'[p].head)
  <2>1. p \in logs /\ p \in Part
    BY <1>1
  <2>2. CASE p = part
    BY <1>1, <1>2, <2>2
  <2>3. CASE p # part
    BY <1>1, <1>2, <2>1, <2>3 DEF HeadersOK
  <2> QED  BY <2>2, <2>3
<1>5. phase' \notin {"header", "show", "push", "load"}
  OBVIOUS
<1> QED  BY <1>2, <1>3, <1>4, <1>5 DEF HeadersOK

\* Facts about the header of the part that is open.
LEMMA OpenHeader ==
  ASSUME IInv, phase \in {"index", "generate"}, NEW q \in Part, q = part, NEW h, h = hdr[q]
  PROVE  /\ q \in Files /\ art[q] = h /\ h \in Header /\ WellFormed(h, q)
         /\ phase = "index" => Complete(h, q)
         /\ h.head \in 0 .. MaxBlock /\ h.tail \in 0 .. MaxBlock /\ h.at \in 0 .. MaxBlock
         /\ First(q) \in 1 .. MaxBlock /\ FileHead(q) \in 0 .. MaxBlock /\ MaxBlock \in Nat
         /\ FileHead(q) > 0 => First(q) <= FileHead(q)
<1> USE DEF IInv
<1>0. MaxBlock \in Nat
  BY BlockLogAssumption
<1>1. art[q] = h
  BY PartOpen
<1>2. h \in Header /\ h.head \in Nat
  BY HeaderFacts
<1>3. h.head \in 0 .. MaxBlock /\ h.tail \in 0 .. MaxBlock /\ h.at \in 0 .. MaxBlock
  BY <1>0, <1>2 DEF Header
<1>4. WellFormed(h, q) /\ (phase = "index" => Complete(h, q))
  BY <1>1 DEF ArtifactsOK
<1>5. q \in Files
  <2>1. h # NoArt
    BY <1>2 DEF NoArt
  <2> QED  BY <1>1, <2>1 DEF ArtifactsOK
<1>6. First(q) \in 1 .. MaxBlock /\ FileHead(q) \in 0 .. MaxBlock
  BY FileHeads, PartsOfBlocks
<1>7. FileHead(q) > 0 => First(q) <= FileHead(q)
  BY HeaderFacts
<1> QED  BY <1>0, <1>1, <1>2, <1>3, <1>4, <1>5, <1>6, <1>7

\* An artifacts file that is to be continued or extended.
LEMMA IndexArtifacts ==
  ASSUME IInv, Index
  PROVE  ArtifactsOK' /\ HeadersOK' /\ GeneratingOK'
<1> USE DEF IInv
<1>0. phase = "index"
  BY DEF Index
<1>1. PICK q \in Part : q = part
  BY <1>0, PartOpen
<1>2. PICK h : h = hdr[q]
  OBVIOUS
<1>3. /\ q \in Files /\ art[q] = h /\ h \in Header /\ WellFormed(h, q) /\ Complete(h, q)
      /\ h.head \in 0 .. MaxBlock /\ h.tail \in 0 .. MaxBlock /\ h.at \in 0 .. MaxBlock
      /\ First(q) \in 1 .. MaxBlock /\ FileHead(q) \in 0 .. MaxBlock /\ MaxBlock \in Nat
      /\ FileHead(q) > 0 => First(q) <= FileHead(q)
  BY <1>0, <1>1, <1>2, OpenHeader
<1>4. art \in [Part -> Header] /\ hdr \in [Part -> Header]
  BY HeaderFacts
<1>5. PICK l : l = [head |-> FileHead(q), at |-> 0,
                    tail |-> IF h.head # 0 THEN h.head ELSE First(q)]
  OBVIOUS
<1>6. /\ l \in Header /\ l.head = FileHead(q) /\ l.at = 0
      /\ l.tail = IF h.head # 0 THEN h.head ELSE First(q)
  BY <1>3, <1>5 DEF Header
<1>7. \/ h.at # 0 /\ Refuse
      \/ /\ h.at # 0 /\ h.at # h.head
         /\ hdr' = [hdr EXCEPT ![q] = h] /\ art' = [art EXCEPT ![q] = h] /\ gen' = h.at - 1
         /\ phase' = "generate" /\ UNCHANGED <<file, chunk, part, logs, head, cut>>
      \/ /\ h.at = 0 /\ FileHead(q) > h.head /\ l.tail < l.head
         /\ hdr' = [hdr EXCEPT ![q] = l] /\ art' = [art EXCEPT ![q] = l] /\ gen' = l.head
         /\ phase' = "generate" /\ UNCHANGED <<file, chunk, part, logs, head, cut>>
      \/ /\ h.at = 0 /\ FileHead(q) > h.head /\ ~(l.tail < l.head)
         /\ Closed /\ art' = [art EXCEPT ![q] = l] /\ cut' = cut \cup ({l.head} \ chunk)
         /\ UNCHANGED <<file, chunk>>
      \/ /\ h.at = 0 /\ FileHead(q) <= h.head
         /\ \/ part = top /\ phase' = "load" /\ UNCHANGED part
            \/ part # top /\ phase' = "open" /\ part' = part + 1
         /\ UNCHANGED <<file, art, chunk, logs, hdr, head, cut>>
  BY <1>1, <1>2, <1>5 DEF Index, Abort, disk, history
<1>8. CASE h.at # 0 /\ Refuse
  <2>1. ArtifactsOK'
    BY <1>0, <1>8, RefuseKeeps
  <2> QED  BY <1>8, <2>1, ClosedHeaders DEF Refuse
<1>9. CASE /\ h.at # 0 /\ h.at # h.head
           /\ hdr' = [hdr EXCEPT ![q] = h] /\ art' = [art EXCEPT ![q] = h] /\ gen' = h.at - 1
           /\ phase' = "generate" /\ UNCHANGED <<file, chunk, part, logs, head, cut>>
  <2>1. Complete(h, q)'
    BY <1>3, <1>9 DEF Complete
  <2>2. ArtifactsOK'
    BY <1>1, <1>3, <1>9, <2>1, OneHeader
  <2>3. HeadersOK'
    <3>1. h.head >= 0
      BY <1>3
    <3> QED  BY <1>0, <1>1, <1>3, <1>9, <3>1, StartingHeaders
  <2>4. hdr'[part'] = h /\ part' = q
    BY <1>1, <1>4, <1>9
  <2>5. First(q) <= h.tail /\ h.tail < h.at /\ h.at <= h.head
    BY <1>3, <1>9 DEF WellFormed
  <2>6. \A n \in First(q) .. h.head : n < h.tail \/ n > gen' => n \in chunk' \cup cut'
    BY <1>3, <1>9, <2>5 DEF Complete
  <2>7. h.tail <= gen' /\ gen' <= h.head /\ gen' < h.at /\ h.tail < h.head
    BY <1>3, <1>9, <2>5
  <2>8. GeneratingOK'
    BY <1>3, <2>4, <2>5, <2>6, <2>7 DEF GeneratingOK
  <2> QED  BY <2>2, <2>3, <2>8
<1>10. CASE /\ h.at = 0 /\ FileHead(q) > h.head /\ l.tail < l.head
            /\ hdr' = [hdr EXCEPT ![q] = l] /\ art' = [art EXCEPT ![q] = l] /\ gen' = l.head
            /\ phase' = "generate" /\ UNCHANGED <<file, chunk, part, logs, head, cut>>
  <2>0. l.head >= 0 /\ First(q) <= l.tail
    BY <1>3, <1>6 DEF WellFormed
  <2>1. WellFormed(l, q)
    BY <1>3, <1>6, <1>10 DEF WellFormed
  <2>2. ArtifactsOK'
    BY <1>1, <1>3, <1>10, <2>1, OneHeader
  <2>3. HeadersOK'
    BY <1>0, <1>1, <1>6, <1>10, <2>0, StartingHeaders
  <2>4. hdr'[part'] = l /\ part' = q
    BY <1>1, <1>4, <1>10
  <2>5. \A n \in First(q) .. l.head : n < l.tail \/ n > gen' => n \in chunk' \cup cut'
    BY <1>3, <1>6, <1>10 DEF Complete
  <2>6. l.tail <= gen' /\ gen' <= l.head /\ l.tail < l.head
    BY <1>3, <1>6, <1>10
  <2>7. GeneratingOK'
    BY <1>6, <2>0, <2>4, <2>5, <2>6 DEF GeneratingOK
  <2> QED  BY <2>2, <2>3, <2>7
<1>11. CASE /\ h.at = 0 /\ FileHead(q) > h.head /\ ~(l.tail < l.head)
            /\ Closed /\ art' = [art EXCEPT ![q] = l] /\ cut' = cut \cup ({l.head} \ chunk)
            /\ UNCHANGED <<file, chunk>>
  <2>1. h.head = 0 /\ l.head = First(q)
    BY <1>3, <1>6, <1>11
  <2>2. WellFormed(l, q)
    BY <1>3, <1>6, <2>1 DEF WellFormed
  <2>3. Complete(l, q)'
    <3>1. \A n \in First(q) .. l.head : n = l.head
      BY <1>3, <2>1
    <3> QED  BY <1>11, <3>1 DEF Complete
  <2>4. ArtifactsOK'
    BY <1>1, <1>3, <1>11, <2>2, <2>3, OneHeader
  <2> QED  BY <1>11, <2>4, ClosedHeaders
<1>12. CASE /\ h.at = 0 /\ FileHead(q) <= h.head
            /\ \/ part = top /\ phase' = "load" /\ UNCHANGED part
               \/ part # top /\ phase' = "open" /\ part' = part + 1
            /\ UNCHANGED <<file, art, chunk, logs, hdr, head, cut>>
  <2>1. Files' = Files /\ \A p \in Part : FileHead(p)' = FileHead(p) /\ FileHead(p) \in Int
    BY <1>12, SameFiles, HeaderFacts
  <2>2. \A p \in Part : FileHead(p)' \in Int /\ FileHead(p) <= FileHead(p)'
    BY <2>1
  <2>3. ArtifactsOK'
    BY <1>0, <1>12, <2>1, <2>2, ArtifactsKept
  <2>4. phase' \in {"open", "load"} /\ ~Serving'
    BY <1>12 DEF Serving
  <2>5. \A p \in logs : art[p] = hdr[p] /\ hdr[p].at = 0 /\ head[p] <= hdr[p].head
    <3>1. Starting /\ \A p \in logs : art[p] = hdr[p] /\ head[p] = FileHead(p)
      BY <1>0, PartOpen
    <3>2. \A p \in logs : p # part => hdr[p].at = 0 /\ head[p] <= hdr[p].head
      BY <3>1 DEF HeadersOK
    <3> QED  BY <1>1, <1>2, <1>12, <3>1, <3>2
  <2>6. HeadersOK'
    BY <1>12, <2>4, <2>5 DEF HeadersOK
  <2> QED  BY <2>3, <2>4, <2>6 DEF GeneratingOK
<1> QED  BY <1>7, <1>8, <1>9, <1>10, <1>11, <1>12

\* The artifacts writer stores a chunk.
LEMMA ChunkArtifacts ==
  ASSUME IInv, NEW note \in BOOLEAN, GenerateChunk(note)
  PROVE  ArtifactsOK' /\ HeadersOK' /\ GeneratingOK'
<1> USE DEF IInv
<1>0. phase = "generate"
  BY DEF GenerateChunk
<1>1. PICK q \in Part : q = part
  BY <1>0, PartOpen
<1>2. PICK h : h = hdr[q]
  OBVIOUS
<1>3. /\ q \in Files /\ art[q] = h /\ h \in Header /\ WellFormed(h, q)
      /\ h.head \in 0 .. MaxBlock /\ h.tail \in 0 .. MaxBlock /\ h.at \in 0 .. MaxBlock
      /\ First(q) \in 1 .. MaxBlock /\ FileHead(q) \in 0 .. MaxBlock /\ MaxBlock \in Nat
  BY <1>0, <1>1, <1>2, OpenHeader
<1>4. art \in [Part -> Header] /\ hdr \in [Part -> Header] /\ gen \in Nat
  BY HeaderFacts, TypeParts, <1>3 DEF ProcessTypeOK
<1>5. /\ First(q) <= h.tail /\ h.tail < h.head /\ h.tail <= gen /\ gen <= h.head
      /\ h.at = 0 \/ gen < h.at
      /\ \A n \in First(q) .. h.head : n < h.tail \/ n > gen => n \in chunk \cup cut
  BY <1>0, <1>1, <1>2 DEF GeneratingOK
<1>6. PICK k : k = [h EXCEPT !.at = IF gen = h.tail THEN 0 ELSE IF note THEN gen ELSE @,
                             !.tail = IF gen = h.tail THEN First(q) ELSE @]
  OBVIOUS
<1>7. /\ k.head = h.head
      /\ k.at = IF gen = h.tail THEN 0 ELSE IF note THEN gen ELSE h.at
      /\ k.tail = IF gen = h.tail THEN First(q) ELSE h.tail
  BY <1>3, <1>6 DEF Header
<1>8. k \in Header
  <2>1. k = [head |-> k.head, tail |-> k.tail, at |-> k.at]
    BY <1>3, <1>6 DEF Header
  <2>2. k.head \in -1 .. MaxBlock /\ k.tail \in 0 .. MaxBlock /\ k.at \in 0 .. MaxBlock
    BY <1>3, <1>4, <1>5, <1>7
  <2> QED  BY <2>1, <2>2 DEF Header
<1>9. /\ chunk' = chunk \cup {gen} /\ hdr' = [hdr EXCEPT ![q] = k]
      /\ gen' = IF gen = h.tail THEN 0 ELSE gen - 1
      /\ phase' = IF gen = h.tail THEN "index" ELSE "generate"
      /\ UNCHANGED <<file, part, logs, head, cut>>
  BY <1>1, <1>2, <1>6 DEF GenerateChunk, history
<1>10. art' = [art EXCEPT ![q] = k]
  <2>1. CASE gen = h.tail \/ note
    BY <1>1, <1>2, <1>6, <2>1 DEF GenerateChunk
  <2>2. CASE ~(gen = h.tail \/ note)
    <3>1. k = h
      BY <1>3, <1>6, <2>2 DEF Header
    <3>2. art' = art
      BY <1>1, <1>2, <2>2 DEF GenerateChunk
    <3> QED  BY <1>3, <1>4, <3>1, <3>2
  <2> QED  BY <2>1, <2>2
<1>11. WellFormed(k, q)
  BY <1>3, <1>4, <1>5, <1>7 DEF WellFormed
<1>12. k.head >= 0
  BY <1>3, <1>7
<1>13. HeadersOK'
  BY <1>0, <1>1, <1>8, <1>9, <1>10, <1>12, StartingHeaders
<1>14. hdr'[part'] = k /\ part' = q
  BY <1>1, <1>4, <1>9
<1>15. CASE gen = h.tail
  <2>1. Complete(k, q)'
    <3> SUFFICES ASSUME NEW n \in First(q) .. k.head PROVE n \in chunk' \cup cut'
      BY DEF Complete
    <3> QED  BY <1>3, <1>4, <1>5, <1>7, <1>9, <1>15
  <2>2. ArtifactsOK'
    BY <1>1, <1>3, <1>9, <1>10, <1>11, <2>1, OneHeader
  <2>3. GeneratingOK'
    BY <1>9, <1>15 DEF GeneratingOK
  <2> QED  BY <1>13, <2>2, <2>3
<1>16. CASE gen # h.tail
  <2>1. ArtifactsOK'
    BY <1>1, <1>3, <1>9, <1>10, <1>11, <1>16, OneHeader
  <2>2. \A n \in First(q) .. k.head : n < k.tail \/ n > gen' => n \in chunk' \cup cut'
    BY <1>3, <1>4, <1>5, <1>7, <1>9, <1>16
  <2>3. /\ First(q) <= k.tail /\ k.tail < k.head /\ k.tail <= gen' /\ gen' <= k.head
        /\ k.at = 0 \/ gen' < k.at
    BY <1>3, <1>4, <1>5, <1>7, <1>9, <1>16
  <2>4. GeneratingOK'
    BY <1>14, <2>2, <2>3 DEF GeneratingOK
  <2> QED  BY <1>13, <2>1, <2>4
<1> QED  BY <1>15, <1>16

\* A node that comes up keeps the headers it has read.
LEMMA LoadArtifacts ==
  ASSUME IInv, Load, ~Closed
  PROVE  ArtifactsOK' /\ HeadersOK' /\ GeneratingOK'
<1> USE DEF IInv
<1>1. /\ phase = "load" /\ phase' = "run"
      /\ UNCHANGED <<file, art, chunk, cut, logs, hdr, head, garbage, part, top>>
  BY DEF Load, Refuse, disk, process
<1>2. /\ garbage = {} /\ part = top /\ Topmost(top)
  BY <1>1 DEF StartingOK, Starting
<1>3. /\ Starting /\ logs \subseteq Part
      /\ \A p \in logs : art[p] = hdr[p] /\ hdr[p].at = 0 /\ head[p] <= hdr[p].head
  BY <1>1, PartOpen DEF HeadersOK
<1>4. Files' = Files /\ \A p \in Part : FileHead(p)' = FileHead(p) /\ FileHead(p) \in Int
  BY <1>1, SameFiles, HeaderFacts
<1>5. \A p \in Part : FileHead(p)' \in Int /\ FileHead(p) <= FileHead(p)'
  BY <1>4
<1>6. ArtifactsOK'
  BY <1>1, <1>4, <1>5, ArtifactsKept
<1>7. Serving' /\ ~Starting'
  BY <1>1 DEF Serving, Starting
<1>8. Kept' = logs
  BY <1>1, <1>2 DEF Kept
<1>9. ASSUME NEW p \in logs
      PROVE  WellFormed(hdr[p], p)' /\ Complete(hdr[p], p)'
  <2>1. WellFormed(art[p], p)' /\ Complete(art[p], p)'
    BY <1>1, <1>3, <1>6 DEF ArtifactsOK
  <2>2. art'[p] = hdr'[p]
    BY <1>1, <1>3
  <2> QED  BY <2>1, <2>2 DEF WellFormed, Complete
<1>10. \A p \in Part : hdr'[p].head >= 0
  BY <1>1 DEF HeadersOK
<1>11. HeadersOK'
  BY <1>1, <1>2, <1>3, <1>7, <1>8, <1>9, <1>10 DEF HeadersOK
<1> QED  BY <1>1, <1>6, <1>11 DEF GeneratingOK

\* The parts of a running node and their headers.
LEMMA KeptFacts ==
  ASSUME IInv, Serving
  PROVE  /\ Kept \subseteq Part /\ logs \cup garbage \subseteq Kept
         /\ phase # "generate" /\ ~Starting
         /\ \A p \in logs \cup garbage : p <= top
<1> USE DEF IInv
<1>1. logs \subseteq Part /\ garbage \subseteq Part
  BY ServingFacts
<1>2. phase \in {"write", "chunk", "header", "show", "push"} => part \in Part
  BY DEF WritingOK, Writing
<1>3. \A p \in logs : p <= top
  BY ServingFacts DEF ServingOK
<1>4. \A p \in garbage : p <= top
  <2>1. Split \in Nat /\ top \in Nat /\ \A p \in Part : p \in Nat
    BY BlockLogAssumption, ServingFacts, PartsOfBlocks
  <2>2. \A p \in garbage : p < top - Split
    BY DEF GarbageOK
  <2> QED  BY <1>1, <2>1, <2>2
<1> QED  BY <1>1, <1>2, <1>3, <1>4 DEF Kept, Serving, Starting

\* Headers a step of a running node does not touch.
LEMMA ServingHeaders ==
  ASSUME IInv, Serving, Serving', hdr' = hdr, chunk \subseteq chunk', cut' = cut,
         \A p \in Part : FileHead(p)' \in Int /\ FileHead(p) <= FileHead(p)',
         Kept' \subseteq Kept, \A p \in logs' \cup garbage' : head'[p] <= hdr[p].head,
         phase' = "header" => FileHead(part)' \in chunk',
         phase' \in {"show", "push"} => hdr'[part'].head = FileHead(part)'
  PROVE  HeadersOK' /\ GeneratingOK'
<1> USE DEF IInv
<1>1. ~Starting' /\ phase' # "generate"
  BY DEF Serving, Starting
<1>2. \A p \in Part : hdr'[p].head >= 0
  BY DEF HeadersOK
<1>3. ASSUME NEW p \in Kept'
      PROVE  /\ hdr'[p].at = 0 /\ WellFormed(hdr[p], p)'
             /\ p \in logs' \cup garbage' => head'[p] <= hdr'[p].head
             /\ Complete(hdr[p], p)'
  <2>1. p \in Kept /\ p \in Part
    BY KeptFacts
  <2>2. hdr[p].at = 0 /\ WellFormed(hdr[p], p) /\ Complete(hdr[p], p)
    BY <2>1 DEF HeadersOK
  <2>3. hdr[p].head \in Int /\ FileHead(p) \in Int
    BY <2>1, HeaderFacts
  <2>4. WellFormed(hdr[p], p)'
    BY <2>1, <2>2, <2>3 DEF WellFormed
  <2>5. Complete(hdr[p], p)'
    BY <2>2 DEF Complete
  <2> QED  BY <2>2, <2>4, <2>5
<1>4. HeadersOK'
  BY <1>1, <1>2, <1>3 DEF HeadersOK
<1> QED  BY <1>1, <1>4 DEF GeneratingOK

\* Steps that neither touch the files nor the headers.
LEMMA IdleArtifacts ==
  ASSUME IInv, Serving, Serving',
         UNCHANGED <<file, art, chunk, cut, hdr, logs, garbage, head>>,
         \/ phase' = phase /\ part' = part /\ top' = top
         \/ phase' \in {"run", "append", "commit", "create"}
         \/ phase' = "write" /\ part' = top' /\ top \in Nat /\ top' = top
  PROVE  ArtifactsOK' /\ HeadersOK' /\ GeneratingOK'
<1> USE DEF IInv
<1>1. Files' = Files /\ \A p \in Part : FileHead(p)' = FileHead(p) /\ FileHead(p) \in Int
  BY SameFiles, HeaderFacts
<1>2. \A p \in Part : FileHead(p)' \in Int /\ FileHead(p) <= FileHead(p)'
  BY <1>1
<1>3. phase # "generate"
  BY KeptFacts
<1>4. ArtifactsOK'
  BY <1>1, <1>2, <1>3, ArtifactsKept
<1>5. Kept' \subseteq Kept
  BY DEF Kept
<1>6. phase' = "header" => FileHead(part)' \in chunk'
  BY DEF HeadersOK, FileHead
<1>7. phase' \in {"show", "push"} => hdr'[part'].head = FileHead(part)'
  BY DEF HeadersOK, FileHead
<1>8. \A p \in logs' \cup garbage' : head'[p] <= hdr[p].head
  BY KeptFacts DEF HeadersOK
<1>9. HeadersOK' /\ GeneratingOK'
  BY <1>2, <1>5, <1>6, <1>7, <1>8, ServingHeaders
<1> QED  BY <1>4, <1>9

\* Files that grow: a new part, and a block.
LEMMA FileArtifacts ==
  ASSUME IInv, Serving', CreateLogFile \/ WriteBlock
  PROVE  ArtifactsOK' /\ HeadersOK' /\ GeneratingOK'
<1> USE DEF IInv
<1>1. /\ UNCHANGED <<art, chunk, cut, hdr, logs, garbage, head, part, top>>
      /\ \/ phase = "create" /\ phase' = "createArtifacts"
         \/ phase = "write" /\ phase' = "chunk"
  BY DEF CreateLogFile, WriteBlock, process, history
<1>2. Serving /\ Writing
  BY <1>1 DEF Serving, Writing
<1>3. PICK q \in Part : q = part
  BY <1>2 DEF WritingOK
<1>4. \E v \in 0 .. PartSize + 1 : file' = [file EXCEPT ![q] = v] /\ file[q] <= v
  <2>0. file[q] \in -1 .. PartSize /\ PartSize \in Nat
    BY TypeParts, BlockLogAssumption DEF DiskTypeOK
  <2>1. CASE CreateLogFile
    <3>1. Topmost(top) /\ part = top + 1 /\ top \in Nat
      BY <1>2, <2>1, ServingFacts DEF WritingOK, CreateLogFile
    <3>2. file[q] = NoFile
      BY <1>3, <3>1 DEF Topmost, Files
    <3>3. file' = [file EXCEPT ![q] = 0]
      BY <1>3, <2>1 DEF CreateLogFile
    <3>4. file[q] <= 0 /\ 0 \in 0 .. PartSize + 1
      BY <2>0, <3>2 DEF NoFile
    <3> QED  BY <3>3, <3>4
  <2>2. CASE WriteBlock
    <3>1. file[part] >= 0
      BY <1>2, <2>2 DEF WritingOK, WriteBlock
    <3>2. file' = [file EXCEPT ![q] = file[q] + 1]
      BY <1>3, <2>2 DEF WriteBlock
    <3>3. file[q] <= file[q] + 1 /\ file[q] + 1 \in 0 .. PartSize + 1
      BY <1>3, <2>0, <3>1
    <3> QED  BY <3>2, <3>3
  <2> QED  BY <2>1, <2>2
<1>5. PICK v \in 0 .. PartSize + 1 : file' = [file EXCEPT ![q] = v] /\ file[q] <= v
  BY <1>4
<1>6. file \in [Part -> -1 .. PartSize] /\ PartSize \in Nat
  BY TypeParts, BlockLogAssumption DEF DiskTypeOK
<1>7. Files \subseteq Files'
  BY <1>5, <1>6 DEF Files, NoFile
<1>8. \A p \in Part : FileHead(p)' \in Int /\ FileHead(p) <= FileHead(p)'
  <2> TAKE p \in Part
  <2>1. First(p) \in Nat /\ First(p) >= 1 /\ file[p] \in -1 .. PartSize
    BY <1>6, HeaderFacts
  <2>2. file'[p] = IF p = q THEN v ELSE file[p]
    BY <1>5, <1>6
  <2> QED  BY <1>5, <1>6, <2>1, <2>2 DEF FileHead
<1>9. ArtifactsOK'
  BY <1>1, <1>7, <1>8, ArtifactsKept
<1>10. Kept' \subseteq Kept
  BY <1>1 DEF Kept
<1>11. \A p \in logs' \cup garbage' : head'[p] <= hdr[p].head
  BY <1>1, <1>2, KeptFacts DEF HeadersOK
<1>12. HeadersOK' /\ GeneratingOK'
  BY <1>1, <1>2, <1>8, <1>10, <1>11, ServingHeaders
<1> QED  BY <1>9, <1>12

\* The empty header of a new artifacts file.
LEMMA CreateArtifactsStep ==
  ASSUME IInv, CreateArtifacts, Serving'
  PROVE  ArtifactsOK' /\ HeadersOK' /\ GeneratingOK'
<1> USE DEF IInv
<1>1. /\ phase = "createArtifacts" /\ phase' = "write"
      /\ UNCHANGED <<file, chunk, cut, logs, garbage, head, part, top>>
  BY DEF CreateArtifacts, history
<1>2. Serving /\ Writing
  BY <1>1 DEF Serving, Writing
<1>3. PICK q \in Part : q = part
  BY <1>2 DEF WritingOK
<1>4. q \in Files /\ q = top + 1 /\ file[q] = 0
  BY <1>1, <1>2, <1>3 DEF WritingOK, Topmost
<1>5. /\ art' = [art EXCEPT ![q] = NoHeader] /\ hdr' = [hdr EXCEPT ![q] = NoHeader]
  BY <1>3 DEF CreateArtifacts
<1>6. First(q) \in Nat /\ First(q) >= 1 /\ FileHead(q) \in Nat /\ hdr \in [Part -> Header]
  BY HeaderFacts
<1>7. First(q) .. 0 = {}
  BY <1>6
<1>8. WellFormed(NoHeader, q) /\ Complete(NoHeader, q) /\ Complete(NoHeader, q)'
  BY <1>6, <1>7 DEF WellFormed, Complete, NoHeader
<1>9. PICK h : h = NoHeader
  OBVIOUS
<1>10. ArtifactsOK'
  BY <1>1, <1>3, <1>4, <1>5, <1>8, <1>9, OneHeader DEF NoHeader
<1>11. ~Starting' /\ phase' \notin {"header", "show", "push", "generate"}
  BY <1>1 DEF Starting
<1>12. \A p \in Part : hdr'[p].head >= 0
  BY <1>5, <1>6 DEF HeadersOK, NoHeader
<1>13. Kept' \subseteq logs \cup garbage \cup {q}
  BY <1>1, <1>3 DEF Kept
<1>14. Files' = Files /\ \A p \in Part : FileHead(p)' = FileHead(p)
  BY <1>1, SameFiles
<1>15. q \notin logs \cup garbage
  <2>1. \A p \in logs \cup garbage : p <= top
    BY <1>2, KeptFacts
  <2> QED  BY <1>2, <1>4, <2>1, ServingFacts
<1>16. ASSUME NEW p \in Kept'
       PROVE  /\ hdr'[p].at = 0 /\ WellFormed(hdr[p], p)'
              /\ p \in logs' \cup garbage' => head'[p] <= hdr'[p].head
              /\ Complete(hdr[p], p)'
  <2>1. CASE p = q
    <3>1. hdr'[p] = NoHeader
      BY <1>5, <1>6, <2>1
    <3>2. WellFormed(hdr[p], p)'
      BY <1>8, <1>14, <2>1, <3>1 DEF WellFormed
    <3>3. Complete(hdr[p], p)'
      BY <1>8, <2>1, <3>1 DEF Complete
    <3> QED  BY <1>1, <1>15, <2>1, <3>1, <3>2, <3>3 DEF NoHeader
  <2>2. CASE p # q
    <3>1. p \in logs \cup garbage /\ p \in Part /\ p \in Kept
      BY <1>2, <1>13, <2>2, KeptFacts
    <3>2. hdr'[p] = hdr[p] /\ FileHead(p)' = FileHead(p)
      BY <1>5, <1>6, <1>14, <2>2, <3>1
    <3>3. /\ hdr[p].at = 0 /\ WellFormed(hdr[p], p) /\ head[p] <= hdr[p].head
          /\ Complete(hdr[p], p)
      BY <1>2, <3>1 DEF HeadersOK
    <3> QED  BY <1>1, <3>2, <3>3 DEF WellFormed, Complete
  <2> QED  BY <2>1, <2>2
<1>17. HeadersOK'
  BY <1>11, <1>12, <1>16 DEF HeadersOK
<1> QED  BY <1>10, <1>11, <1>17 DEF GeneratingOK

\* The part that gets a block is one of those whose headers are kept.
LEMMA WritingPart ==
  ASSUME IInv, phase \in {"chunk", "header", "show", "push"}
  PROVE  /\ Serving /\ Writing /\ part \in Part /\ part \in Kept /\ part \in Files
         /\ FileHead(part) = head[top] + 1
         /\ hdr[part] \in Header /\ hdr[part].at = 0 /\ WellFormed(hdr[part], part)
         /\ Complete(hdr[part], part)
         /\ (part = top /\ head[part] <= hdr[part].head) \/ FileHead(part) = First(part)
         /\ part \in logs \cup garbage => part = top
<1> USE DEF IInv
<1>1. Serving /\ Writing
  BY DEF Serving, Writing
<1>2. /\ part \in Part /\ part \in {top, top + 1} /\ FileHead(part) = head[top] + 1
      /\ Topmost(part)
      /\ part = top + 1 => head[top] = First(top) + PartSize - 1
  BY <1>1 DEF WritingOK
<1>3. top \in Nat /\ top >= 1 /\ head[top] \in Nat /\ top \in Part /\ First(top) \in Nat
  BY <1>1, ServingFacts
<1>4. part = top => part \in logs
  BY <1>1, <1>3, BlockLogAssumption DEF ServingOK
<1>5. part \in Kept
  BY <1>2, <1>4 DEF Kept
<1>6. hdr[part] \in Header
  BY <1>2, HeaderFacts
<1>7. /\ hdr[part].at = 0 /\ WellFormed(hdr[part], part) /\ Complete(hdr[part], part)
      /\ part \in logs => head[part] <= hdr[part].head
  BY <1>1, <1>5 DEF HeadersOK
<1>8. part = top + 1 => FileHead(part) = First(part)
  <2>1. First(top + 1) = First(top) + PartSize /\ PartSize \in Nat
    BY <1>3, PartBounds, BlockLogAssumption
  <2> QED  BY <1>2, <1>3, <2>1
<1>9. part \in logs \cup garbage => part = top
  <2>1. \A p \in logs \cup garbage : p <= top
    BY <1>1, KeptFacts
  <2> QED  BY <1>2, <1>3, <2>1
<1> QED  BY <1>1, <1>2, <1>4, <1>5, <1>6, <1>7, <1>8, <1>9 DEF Topmost

\* Headers when one of them, of part q, becomes h.
LEMMA OneKept ==
  ASSUME IInv, Serving, Serving', NEW q \in Part, NEW h, hdr' = [hdr EXCEPT ![q] = h],
         h.head >= 0, h.at = 0, WellFormed(h, q), Complete(h, q)',
         q \in logs \cup garbage => head[q] <= h.head,
         UNCHANGED <<file, cut, logs, garbage, head, part, top>>, chunk \subseteq chunk',
         phase \in {"chunk", "header", "show"}, phase' \in {"header", "show", "push"},
         phase' = "header" => FileHead(part)' \in chunk',
         phase' \in {"show", "push"} => hdr'[part'].head = FileHead(part)'
  PROVE  HeadersOK' /\ GeneratingOK'
<1> USE DEF IInv
<1>1. ~Starting' /\ phase' # "generate"
  BY DEF Starting
<1>2. hdr \in [Part -> Header]
  BY HeaderFacts
<1>3. \A p \in Part : hdr'[p].head >= 0
  BY <1>2 DEF HeadersOK
<1>4. Kept' = Kept
  BY DEF Kept
<1>5. \A p \in Part : FileHead(p)' = FileHead(p)
  BY SameFiles
<1>6. ASSUME NEW p \in Kept'
       PROVE  /\ hdr'[p].at = 0 /\ WellFormed(hdr[p], p)'
              /\ p \in logs' \cup garbage' => head'[p] <= hdr'[p].head
              /\ Complete(hdr[p], p)'
  <2>0. p \in Kept /\ p \in Part
    BY <1>4, KeptFacts
  <2>1. CASE p = q
    <3>1. hdr'[p] = h
      BY <1>2, <2>1
    <3>2. WellFormed(hdr[p], p)'
      BY <1>5, <2>1, <3>1 DEF WellFormed
    <3>3. Complete(hdr[p], p)'
      BY <2>1, <3>1 DEF Complete
    <3> QED  BY <2>1, <3>1, <3>2, <3>3
  <2>2. CASE p # q
    <3>2. hdr'[p] = hdr[p] /\ FileHead(p)' = FileHead(p)
      BY <1>2, <1>5, <2>0, <2>2
    <3>3. /\ hdr[p].at = 0 /\ WellFormed(hdr[p], p)
          /\ p \in logs \cup garbage => head[p] <= hdr[p].head
          /\ Complete(hdr[p], p)
      BY <2>0 DEF HeadersOK
    <3> QED  BY <3>2, <3>3 DEF WellFormed, Complete
  <2> QED  BY <2>1, <2>2
<1>7. HeadersOK'
  BY <1>1, <1>3, <1>6 DEF HeadersOK
<1> QED  BY <1>1, <1>7 DEF GeneratingOK

\* The chunk of a new block.
LEMMA StoreArtifacts ==
  ASSUME IInv, store_block_artifacts, Serving'
  PROVE  ArtifactsOK' /\ HeadersOK' /\ GeneratingOK'
<1> USE DEF IInv
<1>1. /\ phase = "chunk" /\ phase' = "header" /\ chunk' = chunk \cup {FileHead(part)}
      /\ UNCHANGED <<file, art, cut, logs, garbage, head, part, top>>
  BY DEF store_block_artifacts, history
<1>2. PICK q \in Part : q = part
  BY <1>1, WritingPart
<1>3. PICK k : k = hdr[q]
  OBVIOUS
<1>4. PICK h : h = [k EXCEPT !.tail = IF @ = 0 THEN First(q) ELSE @]
  OBVIOUS
<1>5. /\ k \in Header /\ k.at = 0 /\ WellFormed(k, q) /\ Complete(k, q) /\ Serving
      /\ hdr \in [Part -> Header] /\ k.head \in Nat
  BY <1>1, <1>2, <1>3, WritingPart, HeaderFacts
<1>6. hdr' = [hdr EXCEPT ![q] = h]
  BY <1>2, <1>3, <1>4, <1>5 DEF store_block_artifacts
<1>7. h.head = k.head /\ h.at = 0
  BY <1>4, <1>5 DEF Header
<1>8. WellFormed(h, q) /\ Complete(h, q)' /\ h.head >= 0
  BY <1>1, <1>5, <1>7 DEF WellFormed, Complete
<1>9. q \in logs \cup garbage => head[q] <= h.head
  <2>1. q \in Kept
    BY <1>1, <1>2, WritingPart
  <2> QED  BY <1>3, <1>5, <1>7, <2>1 DEF HeadersOK
<1>10. FileHead(part)' \in chunk'
  BY <1>1 DEF FileHead
<1>11. HeadersOK' /\ GeneratingOK'
  BY <1>1, <1>5, <1>6, <1>7, <1>8, <1>9, <1>10, OneKept
<1>12. Files' = Files /\ \A p \in Part : FileHead(p)' = FileHead(p) /\ FileHead(p) \in Int
  BY <1>1, SameFiles, HeaderFacts
<1>13. \A p \in Part : FileHead(p)' \in Int /\ FileHead(p) <= FileHead(p)'
  BY <1>12
<1>14. ArtifactsOK'
  BY <1>1, <1>12, <1>13, ArtifactsKept
<1> QED  BY <1>11, <1>14

\* The header takes the new head.
LEMMA EpilogueArtifacts ==
  ASSUME IInv, NEW live \in BOOLEAN, store_block_artifacts_epilogue(live), Serving'
  PROVE  ArtifactsOK' /\ HeadersOK' /\ GeneratingOK'
<1> USE DEF IInv
<1>1. /\ phase = "header" /\ phase' = "show"
      /\ art' = IF live THEN [art EXCEPT ![part] = hdr'[part]] ELSE art
      /\ UNCHANGED <<file, chunk, cut, logs, garbage, head, part, top>>
  BY DEF store_block_artifacts_epilogue, history
<1>2. PICK q \in Part : q = part
  BY <1>1, WritingPart
<1>3. PICK k : k = hdr[q]
  OBVIOUS
<1>4. PICK h : h = [k EXCEPT !.head = FileHead(q)]
  OBVIOUS
<1>5. /\ k \in Header /\ k.at = 0 /\ WellFormed(k, q) /\ Complete(k, q) /\ Serving
      /\ hdr \in [Part -> Header] /\ k.head \in Nat /\ q \in Files
  BY <1>1, <1>2, <1>3, WritingPart, HeaderFacts
<1>6. hdr' = [hdr EXCEPT ![q] = h]
  BY <1>2, <1>3, <1>4, <1>5 DEF store_block_artifacts_epilogue
<1>7. h.head = FileHead(q) /\ h.at = 0
  BY <1>4, <1>5 DEF Header
<1>8. /\ FileHead(q) = head[top] + 1 /\ head[top] \in Nat
      /\ (q = top /\ head[q] <= k.head) \/ FileHead(q) = First(q)
      /\ q \in logs \cup garbage => q = top
      /\ First(q) \in Nat
  BY <1>1, <1>2, <1>3, WritingPart, ServingFacts, HeaderFacts
<1>9. First(q) <= FileHead(q)
  BY <1>8, HeaderFacts
<1>10. WellFormed(h, q) /\ h.head >= 0
  BY <1>7, <1>8, <1>9 DEF WellFormed
<1>11. Complete(h, q)'
  <2> SUFFICES ASSUME NEW n \in First(q) .. h.head PROVE n \in chunk' \cup cut'
    BY DEF Complete
  <2>1. FileHead(q) \in chunk
    BY <1>1, <1>2 DEF HeadersOK
  <2>2. CASE n = FileHead(q)
    BY <1>1, <2>1, <2>2
  <2>3. CASE n # FileHead(q)
    <3>1. n \in First(q) .. k.head
      BY <1>5, <1>7, <1>8, <2>3
    <3> QED  BY <1>1, <1>5, <3>1 DEF Complete
  <2> QED  BY <2>2, <2>3
<1>12. q \in logs \cup garbage => head[q] <= h.head
  BY <1>7, <1>8
<1>13. hdr'[part'].head = FileHead(part)'
  <2>1. part' = q /\ hdr'[q] = h
    BY <1>1, <1>2, <1>5, <1>6
  <2> QED  BY <1>1, <1>2, <1>7, <2>1 DEF FileHead
<1>14. HeadersOK' /\ GeneratingOK'
  BY <1>1, <1>5, <1>6, <1>7, <1>10, <1>11, <1>12, <1>13, OneKept
<1>15. ArtifactsOK'
  <2>1. CASE live
    <3>1. art' = [art EXCEPT ![q] = h]
      BY <1>1, <1>2, <1>5, <1>6, <2>1
    <3> QED  BY <1>1, <1>2, <1>5, <1>10, <1>11, <3>1, OneHeader
  <2>2. CASE ~live
    <3>1. Files' = Files /\ \A p \in Part : FileHead(p)' = FileHead(p) /\ FileHead(p) \in Int
      BY <1>1, SameFiles, HeaderFacts
    <3>2. \A p \in Part : FileHead(p)' \in Int /\ FileHead(p) <= FileHead(p)'
      BY <3>1
    <3> QED  BY <1>1, <2>2, <3>1, <3>2, ArtifactsKept
  <2> QED  BY <2>1, <2>2
<1> QED  BY <1>14, <1>15

\* The head that readers see, and the new part.
LEMMA ShowArtifacts ==
  ASSUME IInv, ShowHead \/ PushPart, Serving'
  PROVE  ArtifactsOK' /\ HeadersOK' /\ GeneratingOK'
<1> USE DEF IInv
<1>1. /\ phase \in {"show", "push"} /\ UNCHANGED <<file, art, chunk, cut, garbage, hdr, part>>
  BY DEF ShowHead, PushPart, disk, history
<1>2. Files' = Files /\ \A p \in Part : FileHead(p)' = FileHead(p) /\ FileHead(p) \in Int
  BY <1>1, SameFiles, HeaderFacts
<1>3. \A p \in Part : FileHead(p)' \in Int /\ FileHead(p) <= FileHead(p)'
  BY <1>2
<1>4. ArtifactsOK'
  BY <1>1, <1>2, <1>3, ArtifactsKept
<1>5. /\ Serving /\ part \in Part /\ part \in Kept /\ hdr[part].head = FileHead(part)
      /\ hdr[part].head \in Int
  BY <1>1, WritingPart, HeaderFacts DEF HeadersOK
<1>6. \A p \in logs \cup garbage : p \in Kept /\ head[p] <= hdr[p].head
  BY <1>5, KeptFacts DEF HeadersOK
<1>7. phase' # "header" /\ (phase' \in {"show", "push"} => hdr'[part'].head = FileHead(part)')
  BY <1>1, <1>5 DEF ShowHead, PushPart, FileHead
<1>8. Kept' \subseteq Kept /\ \A p \in logs' \cup garbage' : head'[p] <= hdr[p].head
  <2>1. CASE ShowHead
    <3>1. logs' = logs /\ head' = [head EXCEPT ![part] = FileHead(part)] /\ phase = "show"
          /\ top' = top
      BY <2>1 DEF ShowHead
    <3>2. head \in [Part -> 0 .. MaxBlock] /\ logs \subseteq Part /\ garbage \subseteq Part
      BY TypeParts DEF ProcessTypeOK
    <3>3. Kept' \subseteq Kept
      BY <1>1, <3>1 DEF Kept
    <3>4. \A p \in logs \cup garbage : head'[p] <= hdr[p].head
      <4> TAKE p \in logs \cup garbage
      <4>1. CASE p = part
        BY <1>5, <3>1, <3>2, <4>1
      <4>2. CASE p # part
        BY <1>6, <3>1, <3>2, <4>2
      <4> QED  BY <4>1, <4>2
    <3> QED  BY <1>1, <3>1, <3>3, <3>4
  <2>2. CASE PushPart
    <3>1. /\ logs' = logs \cup {part} /\ head' = head /\ phase = "push"
          /\ phase' \in {"rotate", "append"}
      BY <2>2 DEF PushPart
    <3>2. head[part] = FileHead(part)
      BY <3>1 DEF WritingOK, Writing
    <3>3. head[part] <= hdr[part].head
      BY <1>5, <3>2
    <3>4. Kept' \subseteq Kept
      BY <1>1, <1>5, <1>6, <3>1 DEF Kept
    <3> QED  BY <1>1, <1>6, <3>1, <3>3, <3>4
  <2> QED  BY <2>1, <2>2
<1>9. HeadersOK' /\ GeneratingOK'
  BY <1>1, <1>3, <1>5, <1>7, <1>8, ServingHeaders
<1> QED  BY <1>4, <1>9

\* Garbage that nobody uses is removed.
LEMMA RotateArtifacts ==
  ASSUME IInv, Rotate, Serving'
  PROVE  ArtifactsOK' /\ HeadersOK' /\ GeneratingOK'
<1> USE DEF IInv
<1>1. PICK free : free = {p \in garbage : ~InUse(p)}
  OBVIOUS
<1>2. /\ phase = "rotate" /\ phase' = "append" /\ UNCHANGED <<hdr, head, cut>>
      /\ logs' = logs \ {part - 1 - Split}
      /\ garbage' = (garbage \ free) \cup {part - 1 - Split}
      /\ file' = [p \in Part |-> IF p \in free THEN NoFile ELSE file[p]]
      /\ art' = [p \in Part |-> IF p \in free THEN NoArt ELSE art[p]]
      /\ chunk' = {n \in chunk : get_part_number_for_block(n) \notin free}
  BY <1>1 DEF Rotate, history
<1>3. Serving /\ ~Writing /\ ~Starting'
  BY <1>2 DEF Serving, Writing, Starting
<1>4. part = top /\ top - 1 - Split \in logs
  BY <1>2, <1>3 DEF ServingOK
<1>5. \A p \in garbage : p \notin logs
  BY DEF GarbageOK
<1>6. ASSUME NEW p \in Part, p \notin free
      PROVE  FileHead(p)' = FileHead(p) /\ (p \in Files' <=> p \in Files)
  BY <1>2, <1>6 DEF FileHead, Files
<1>7. ASSUME NEW p \in Part
      PROVE  /\ WellFormed(art[p], p)'
             /\ p \notin Files' => art'[p] = NoArt
             /\ Complete(art[p], p)'
  <2>0. First(p) \in Nat /\ First(p) >= 1
    BY HeaderFacts
  <2>1. CASE p \in free
    <3>1. art'[p] = NoArt /\ file'[p] = NoFile
      BY <1>2, <2>1
    <3>2. FileHead(p)' = 0
      BY <3>1 DEF FileHead, NoFile
    <3>3. First(p) .. -1 = {}
      BY <2>0
    <3> QED  BY <3>1, <3>2, <3>3 DEF WellFormed, Complete, NoArt
  <2>2. CASE p \notin free
    <3>1. PICK h : h = art[p]
      OBVIOUS
    <3>2. art'[p] = h
      BY <1>2, <2>2, <3>1
    <3>3. WellFormed(h, p) /\ Complete(h, p) /\ h.head \in Int
      BY <1>2, <3>1, HeaderFacts DEF ArtifactsOK
    <3>4. Complete(h, p)'
      BY <1>2, <2>2, <3>3, ChunksApart
    <3>5. WellFormed(h, p)'
      BY <1>6, <2>2, <3>3 DEF WellFormed
    <3>6. p \notin Files' => h = NoArt
      BY <1>6, <2>2, <3>1 DEF ArtifactsOK
    <3> QED  BY <3>2, <3>4, <3>5, <3>6 DEF WellFormed, Complete
  <2> QED  BY <2>1, <2>2
<1>8. ArtifactsOK'
  BY <1>7 DEF ArtifactsOK
<1>9. ASSUME NEW p \in Kept'
      PROVE  /\ hdr'[p].at = 0 /\ WellFormed(hdr[p], p)'
             /\ p \in logs' \cup garbage' => head'[p] <= hdr'[p].head
             /\ Complete(hdr[p], p)'
  <2>1. p \in logs' \cup garbage'
    BY <1>2 DEF Kept
  <2>2. p \in logs \cup garbage /\ p \notin free
    BY <1>1, <1>2, <1>4, <1>5, <2>1
  <2>3. p \in Part /\ p \in Kept
    BY <1>3, <2>2, KeptFacts
  <2>4. PICK h : h = hdr[p]
    OBVIOUS
  <2>5. /\ h.at = 0 /\ WellFormed(h, p) /\ head[p] <= h.head /\ Complete(h, p) /\ h.head \in Int
    BY <1>3, <2>2, <2>3, <2>4, HeaderFacts DEF HeadersOK
  <2>6. Complete(h, p)'
    BY <1>2, <2>2, <2>3, <2>5, ChunksApart
  <2>7. WellFormed(h, p)'
    BY <1>6, <2>2, <2>3, <2>5 DEF WellFormed
  <2>8. hdr'[p] = h /\ head'[p] = head[p]
    BY <1>2, <2>4
  <2> QED  BY <2>5, <2>6, <2>7, <2>8 DEF WellFormed, Complete
<1>10. \A p \in Part : hdr'[p].head >= 0
  BY <1>2 DEF HeadersOK
<1>11. HeadersOK'
  BY <1>2, <1>3, <1>9, <1>10 DEF HeadersOK
<1> QED  BY <1>2, <1>8, <1>11 DEF GeneratingOK

\* Every step keeps the artifacts files, and the headers in memory, true to
\* the part files.
LEMMA ArtifactsStep ==
  ASSUME IInv, Next
  PROVE  ArtifactsOK' /\ HeadersOK' /\ GeneratingOK'
<1>1. ASSUME Kill \/ Close \/ Interrupt
      PROVE  ArtifactsOK' /\ HeadersOK' /\ GeneratingOK'
  <2>1. Closed
    BY <1>1 DEF Kill, Close, Interrupt
  <2> QED  BY <1>1, <2>1, ClosedHeaders, KillArtifacts, CloseArtifacts, InterruptArtifacts
<1>2. ASSUME OpenPart \/ Load
      PROVE  ArtifactsOK' /\ HeadersOK' /\ GeneratingOK'
  <2>1. CASE Closed
    <3>1. Refuse /\ phase \in {"open", "load"}
      BY <1>2, <2>1 DEF OpenPart, Load, Closed
    <3> QED  BY <2>1, <3>1, RefuseKeeps, ClosedHeaders
  <2>2. CASE ~Closed
    BY <1>2, <2>2, OpenArtifacts, LoadArtifacts
  <2> QED  BY <2>1, <2>2
<1>3. ASSUME NEW m \in {"normal", "replay", "force"}, Start(m)
      PROVE  ArtifactsOK' /\ HeadersOK' /\ GeneratingOK'
  BY <1>3, StartArtifacts
<1>4. ASSUME Index
      PROVE  ArtifactsOK' /\ HeadersOK' /\ GeneratingOK'
  BY <1>4, IndexArtifacts
<1>5. ASSUME NEW b \in BOOLEAN, GenerateChunk(b)
      PROVE  ArtifactsOK' /\ HeadersOK' /\ GeneratingOK'
  BY <1>5, ChunkArtifacts
<1>6. ASSUME Appending
      PROVE  ArtifactsOK' /\ HeadersOK' /\ GeneratingOK'
  <2>1. Serving /\ Serving'
    BY <1>6, StaysUp
  <2>2. CASE \E n \in Block, b \in BOOLEAN : Irreversible(n, b)
    <3>1. /\ UNCHANGED <<file, art, chunk, cut, hdr, logs, garbage, head>>
          /\ phase' \in {"run", "append"}
      BY <2>2 DEF Irreversible, disk, process, history
    <3> QED  BY <2>1, <3>1, IdleArtifacts
  <2>3. CASE Append
    <3>1. /\ UNCHANGED <<file, art, chunk, cut, hdr, logs, garbage, head, top>>
          /\ \/ phase' \in {"create", "commit"}
             \/ phase' = "write" /\ part' = top
      BY <2>3 DEF Append, disk, history
    <3>2. top \in Nat
      BY <2>1, ServingFacts
    <3> QED  BY <2>1, <3>1, <3>2, IdleArtifacts
  <2>4. CASE Commit
    <3>1. /\ UNCHANGED <<file, art, chunk, cut, hdr, logs, garbage, head>> /\ phase' = "run"
      BY <2>4 DEF Commit, disk, process, history
    <3> QED  BY <2>1, <3>1, IdleArtifacts
  <2>5. CASE \E b \in BOOLEAN : store_block_artifacts_epilogue(b)
    BY <2>1, <2>5, EpilogueArtifacts
  <2>6. CASE CreateLogFile \/ WriteBlock
    BY <2>1, <2>6, FileArtifacts
  <2>7. CASE CreateArtifacts
    BY <2>1, <2>7, CreateArtifactsStep
  <2>8. CASE store_block_artifacts
    BY <2>1, <2>8, StoreArtifacts
  <2>9. CASE ShowHead \/ PushPart
    BY <2>1, <2>9, ShowArtifacts
  <2>10. CASE Rotate
    BY <2>1, <2>10, RotateArtifacts
  <2> QED  BY <1>6, <2>2, <2>3, <2>4, <2>5, <2>6, <2>7, <2>8, <2>9, <2>10 DEF Appending
<1>7. ASSUME NEW r \in Readers, Reading(r)
      PROVE  ArtifactsOK' /\ HeadersOK' /\ GeneratingOK'
  <2>1. /\ Serving /\ Serving'
        /\ UNCHANGED <<file, art, chunk, cut, hdr, logs, garbage, head, phase, part, top>>
    BY <1>7, StaysUp DEF disk, process, history
  <2> QED  BY <2>1, IdleArtifacts
<1> QED  BY <1>1, <1>2, <1>3, <1>4, <1>5, <1>6, <1>7 DEF Next, Appending, Reading

------------------------------------------------------------------------------
(* Types. *)

\* The Boolean flags stay Boolean.
LEMMA FlagsStep == ASSUME FlagsOK, Next PROVE FlagsOK'
<1>0. torn \in BOOLEAN /\ refused \in BOOLEAN /\ orderly \in BOOLEAN /\ short \in BOOLEAN
  BY Zenon DEF FlagsOK
<1>1. ASSUME Kill PROVE FlagsOK'
  <2>1. torn' \in BOOLEAN
    BY <1>0, <1>1, Zenon DEF Kill
  <2> QED  BY <1>0, <1>1, <2>1, Zenon DEF Kill, FlagsOK
<1>2. ASSUME Close PROVE FlagsOK'
  <2>1. orderly' \in BOOLEAN
    BY <1>2, Zenon DEF Close
  <2> QED  BY <1>0, <1>2, <2>1, Zenon DEF Close, FlagsOK
<1>3. ASSUME Refuse PROVE FlagsOK'
  BY <1>0, <1>3, Zenon DEF Refuse, FlagsOK
<1>4. ASSUME UNCHANGED <<torn, history>> PROVE FlagsOK'
  BY <1>0, <1>4, Zenon DEF FlagsOK, history
<1>5. ASSUME OpenPart PROVE FlagsOK'
  BY <1>3, <1>4, <1>5, Zenon DEF OpenPart
<1>6. ASSUME Index PROVE FlagsOK'
  <2>1. ASSUME NEW h, Abort(h) PROVE FlagsOK'
    BY <1>0, <2>1, Zenon DEF Abort, FlagsOK
  <2> QED  BY <1>3, <1>4, <1>6, <2>1, Zenon DEF Index, disk
<1>7. ASSUME Interrupt PROVE FlagsOK'
  BY <1>0, <1>7, Zenon DEF Interrupt, FlagsOK
<1>8. ASSUME Load PROVE FlagsOK'
  <2>1. CASE Refuse
    BY <1>3, <2>1
  <2>2. CASE ~Refuse
    <3>1. /\ \E x : short' = (x < LogHead)
          /\ refused' = FALSE /\ UNCHANGED <<disk, orderly>>
      BY <1>8, <2>2, Zenon DEF Load
    <3>2. \A x, y : (x < y) \in BOOLEAN
      OBVIOUS
    <3>3. short' \in BOOLEAN
      BY <3>1, <3>2, Zenon
    <3> QED  BY <1>0, <3>1, <3>3, Zenon DEF FlagsOK, disk
  <2> QED  BY <2>1, <2>2
<1>9. ASSUME NEW m, Start(m) PROVE FlagsOK'
  <2>1. orderly' \in BOOLEAN /\ refused' \in BOOLEAN
    BY <1>0, <1>9, Zenon DEF Start
  <2> QED  BY <1>0, <1>9, <2>1, Zenon DEF Start, FlagsOK
<1>10. ASSUME NEW b, GenerateChunk(b) PROVE FlagsOK'
  BY <1>4, <1>10, Zenon DEF GenerateChunk
<1>11. ASSUME Appending PROVE FlagsOK'
  <2>1. CASE Commit
    <3>1. short' \in BOOLEAN
      BY <2>1, Zenon DEF Commit
    <3> QED  BY <1>0, <2>1, <3>1, Zenon DEF Commit, FlagsOK, disk
  <2>2. CASE ~Commit
    <3>1. UNCHANGED <<torn, history>>
      BY <1>11, <2>2, Zenon DEF Appending, store_block_artifacts_epilogue, Irreversible, Append,
         CreateLogFile, CreateArtifacts, WriteBlock, store_block_artifacts, ShowHead, PushPart,
         Rotate, disk
    <3> QED  BY <1>4, <3>1
  <2> QED  BY <2>1, <2>2
<1>12. ASSUME NEW r, Reading(r) PROVE FlagsOK'
  <2>1. UNCHANGED <<torn, history>>
    BY <1>12, StaysUp, Zenon DEF disk
  <2> QED  BY <1>4, <2>1
<1> QED  BY <1>1, <1>2, <1>5, <1>6, <1>7, <1>8, <1>9, <1>10, <1>11, <1>12
         DEF Next, Appending, Reading

\* The head of a log is a block number, and a replay ends at it or one below.
LEMMA ReplayEnd ==
  ASSUME IInv, phase = "load"
  PROVE  /\ LogHead \in 0 .. MaxBlock
         /\ base <= LogHead => Reindexed \in base .. LogHead
<1> USE DEF IInv
<1>0. MaxBlock \in Nat /\ base \in Nat
  BY BlockLogAssumption, TypeParts DEF DiskTypeOK
<1>1. LogHead \in 0 .. MaxBlock
  <2>1. Topmost(top)
    BY DEF StartingOK, Starting
  <2>2. top \in Part /\ head \in [Part -> 0 .. MaxBlock]
    BY <2>1, NewestFile, TypeParts DEF ProcessTypeOK
  <2> QED  BY <1>0, <2>2 DEF LogHead
<1>2. base <= LogHead => Reindexed \in base .. LogHead
  BY <1>0, <1>1 DEF Reindexed, process_blocks
<1> QED  BY <1>1, <1>2

\* What Flushed writes are headers.
LEMMA FlushedType ==
  ASSUME IInv, NEW h, h \in [Part -> Header]
  PROVE  Flushed(h) \in [Part -> Header]
  BY HeaderFacts DEF Flushed

\* A process that is not there has the type it should.
LEMMA ClosedType == ASSUME ProcessTypeOK, Closed, mode' = mode PROVE ProcessTypeOK'
<1>0. MaxBlock \in Nat
  BY BlockLogAssumption
<1> QED  BY <1>0, Constants DEF Closed, ProcessTypeOK, Phases

\* A refused start changes no type.
LEMMA RefuseType == ASSUME IInv, Refuse PROVE DiskTypeOK' /\ ProcessTypeOK'
<1>1. DiskTypeOK /\ ProcessTypeOK
  BY TypeParts DEF IInv
<1>2. art' \in [Part -> Header] /\ mode' = mode
  BY FlushedType, HeaderFacts DEF Refuse
<1> QED  BY <1>1, <1>2, ClosedType DEF Refuse, DiskTypeOK

\* The types of what is on disk and of what the process knows, when the node
\* leaves.
LEMMA LeavingType ==
  ASSUME IInv, Kill \/ Close \/ Interrupt
  PROVE  DiskTypeOK' /\ ProcessTypeOK'
<1> USE DEF IInv
<1>0. MaxBlock \in Nat /\ DiskTypeOK /\ ProcessTypeOK
  BY BlockLogAssumption, TypeParts
<1>1. ProcessTypeOK'
  BY <1>0, ClosedType DEF Kill, Close, Interrupt
<1>2. CASE Kill
  <2>1. UNCHANGED <<file, art, chunk, lib, base>>
    BY <1>2 DEF Kill
  <2>2. kills' \in 0 .. MaxKills
    BY <1>0, <1>2, BlockLogAssumption DEF Kill, DiskTypeOK
  <2>3. leaked' \subseteq Part
    BY <1>0, <1>2 DEF Kill, DiskTypeOK, Files
  <2>4. cut' \subseteq Block
    <3>1. CASE phase = "generate"
      <4>1. PICK q \in Part : q = part
        BY <3>1, PartOpen
      <4>2. First(q) <= hdr[q].tail /\ gen <= hdr[q].head
        BY <3>1, <4>1 DEF GeneratingOK
      <4>3. /\ hdr[q].head \in 0 .. MaxBlock /\ hdr[q].tail \in 0 .. MaxBlock
            /\ First(q) \in 1 .. MaxBlock /\ gen \in Nat
        BY <1>0, <3>1, <4>1, OpenHeader DEF ProcessTypeOK
      <4>4. hdr[q].tail .. gen \subseteq Block
        BY <1>0, <4>2, <4>3 DEF Block
      <4> QED  BY <1>0, <1>2, <4>1, <4>4 DEF Kill, DiskTypeOK
    <3>2. CASE phase # "generate"
      BY <1>0, <1>2, <3>2 DEF Kill, DiskTypeOK
    <3> QED  BY <3>1, <3>2
  <2> QED  BY <1>0, <1>1, <2>1, <2>2, <2>3, <2>4 DEF DiskTypeOK
<1>3. CASE Close
  <2>1. UNCHANGED <<lib, base, kills, leaked, cut>> /\ chunk' \subseteq chunk
    BY <1>3 DEF Close
  <2>2. file' \in [Part -> -1 .. PartSize]
    BY <1>0, <1>3, Constants DEF Close, DiskTypeOK
  <2>3. art' \in [Part -> Header]
    <3>1. Flushed(hdr) \in [Part -> Header]
      BY FlushedType, HeaderFacts
    <3> QED  BY <1>3, <3>1, Constants DEF Close
  <2> QED  BY <1>0, <1>1, <2>1, <2>2, <2>3 DEF DiskTypeOK
<1>4. CASE Interrupt
  <2> DEFINE m == Min({gen + 1, hdr[part].head})
             h == [hdr EXCEPT ![part].at = m]
  <2>1. UNCHANGED <<file, chunk, lib, base, kills, leaked, cut>> /\ art' = Flushed(h)
        /\ phase = "generate"
    BY <1>4 DEF Interrupt
  <2>2. PICK q \in Part : q = part
    BY <2>1, PartOpen
  <2>3. hdr[q].head \in 0 .. MaxBlock /\ gen \in Nat /\ hdr[q] \in Header
    BY <1>0, <2>1, <2>2, OpenHeader DEF ProcessTypeOK
  <2>4. m \in 0 .. MaxBlock
    BY <1>0, <2>2, <2>3, MinOfTwo
  <2> HIDE DEF m
  <2>5. [hdr[q] EXCEPT !.at = m] \in Header
    BY <2>3, <2>4 DEF Header
  <2>6. h = [hdr EXCEPT ![q] = [hdr[q] EXCEPT !.at = m]]
    BY <2>2, HeaderFacts
  <2>7. h \in [Part -> Header]
    BY <2>5, <2>6, HeaderFacts
  <2> HIDE DEF h
  <2>8. art' \in [Part -> Header]
    BY <2>1, <2>7, FlushedType
  <2> QED  BY <1>0, <1>1, <2>1, <2>8 DEF DiskTypeOK
<1> QED  BY <1>2, <1>3, <1>4

\* The types when the node starts.
LEMMA OpensType ==
  ASSUME IInv, Opens
  PROVE  DiskTypeOK' /\ ProcessTypeOK'
<1> USE DEF IInv
<1>0. MaxBlock \in Nat /\ PartSize \in Nat /\ DiskTypeOK /\ ProcessTypeOK
  BY BlockLogAssumption, TypeParts
<1>1. ASSUME NEW m \in {"normal", "replay", "force"}, Start(m)
      PROVE  DiskTypeOK' /\ ProcessTypeOK'
  <2>1. /\ UNCHANGED <<art, chunk, kills, leaked, cut, gen>>
        /\ lib' \in {0, lib} /\ base' \in {0, base}
        /\ file' \in {file, [file EXCEPT ![1] = 0]}
    BY <1>1 DEF Start
  <2>2. file' \in [Part -> -1 .. PartSize]
    BY <1>0, <2>1 DEF DiskTypeOK
  <2>3. DiskTypeOK'
    BY <1>0, <2>1, <2>2 DEF DiskTypeOK
  <2>4. /\ mode' = m /\ UNCHANGED <<logs, hdr, head, garbage, reader>>
        /\ \/ phase' = "down" /\ UNCHANGED <<part, top>>
           \/ /\ phase' = "open"
              /\ \E t \in Part : top' = t /\ part' = Needed(m, t)
    BY <1>1, StartOpens
  <2>5. \A t \in Part : Needed(m, t) \in Part
    <3> TAKE t \in Part
    <3>1. Needed(m, t) \in 1 .. t
      BY NeededPart
    <3> QED  BY <3>1, PartsOfBlocks
  <2>6. phase' \in Phases /\ part' \in Part \cup {0} /\ top' \in Part \cup {0}
    BY <1>0, <2>4, <2>5 DEF ProcessTypeOK, Phases
  <2>7. ProcessTypeOK'
    BY <1>0, <2>1, <2>4, <2>6 DEF ProcessTypeOK
  <2> QED  BY <2>3, <2>7
<1>2. ASSUME OpenPart
      PROVE  DiskTypeOK' /\ ProcessTypeOK'
  <2>1. CASE Refuse
    BY <2>1, RefuseType
  <2>2. CASE ~Refuse
    <3> DEFINE a == IF art[part] = NoArt THEN NoHeader ELSE art[part]
    <3>1. /\ phase = "open" /\ phase' = "index" /\ logs' = logs \cup {part}
          /\ hdr' = [hdr EXCEPT ![part] = a] /\ art' = [art EXCEPT ![part] = a]
          /\ head' = [head EXCEPT ![part] = FileHead(part)]
          /\ UNCHANGED <<file, chunk, lib, base, kills, leaked, cut, mode, part, top, gen,
                         garbage, reader>>
      BY <1>2, <2>2 DEF OpenPart, history
    <3>2. part \in 1 .. top /\ Topmost(top)
      BY <3>1 DEF StartingOK, Starting
    <3>3. PICK q \in Part : q = part
      <4>1. top \in Part
        BY <3>2, NewestFile
      <4> QED  BY <3>2, <4>1, PartsOfBlocks
    <3>4. a \in Header /\ FileHead(q) \in 0 .. MaxBlock
      BY <3>3, HeaderFacts, FileHeads, Constants
    <3> HIDE DEF a
    <3>5. DiskTypeOK'
      BY <1>0, <3>1, <3>4 DEF DiskTypeOK
    <3>6. hdr' \in [Part -> Header] /\ head' \in [Part -> 0 .. MaxBlock] /\ logs' \subseteq Part
      BY <1>0, <3>1, <3>3, <3>4 DEF ProcessTypeOK
    <3>7. ProcessTypeOK'
      BY <1>0, <3>1, <3>6 DEF ProcessTypeOK, Phases
    <3> QED  BY <3>5, <3>7
  <2> QED  BY <2>1, <2>2
<1>3. ASSUME Index
      PROVE  DiskTypeOK' /\ ProcessTypeOK'
  <2>0. phase = "index"
    BY <1>3 DEF Index
  <2>1. PICK q \in Part : q = part
    BY <2>0, PartOpen
  <2>2. PICK h : h = hdr[q]
    OBVIOUS
  <2>3. /\ h \in Header /\ h.head \in 0 .. MaxBlock /\ h.at \in 0 .. MaxBlock
        /\ First(q) \in 1 .. MaxBlock /\ FileHead(q) \in 0 .. MaxBlock
    BY <2>0, <2>1, <2>2, OpenHeader
  <2>4. PICK l : l = [head |-> FileHead(q), at |-> 0,
                      tail |-> IF h.head # 0 THEN h.head ELSE First(q)]
    OBVIOUS
  <2>5. l \in Header /\ l.head = FileHead(q)
    BY <1>0, <2>3, <2>4 DEF Header
  <2>6. \/ Refuse
        \/ /\ \E hh \in {h, l} : hdr' = [hdr EXCEPT ![q] = hh] /\ art' = [art EXCEPT ![q] = hh]
           /\ (gen' = h.at - 1 /\ h.at # 0) \/ gen' = l.head
           /\ phase' = "generate"
           /\ UNCHANGED <<file, chunk, lib, base, kills, leaked, cut, mode, part, logs, top,
                          head, garbage, reader>>
        \/ /\ Closed /\ mode' = mode /\ art' = [art EXCEPT ![q] = l]
           /\ cut' = cut \cup ({l.head} \ chunk) /\ FileHead(q) > h.head
           /\ UNCHANGED <<file, chunk, lib, base, kills, leaked>>
        \/ /\ \/ phase' = "load" /\ UNCHANGED part
              \/ part # top /\ phase' = "open" /\ part' = part + 1
           /\ UNCHANGED <<file, art, chunk, lib, base, kills, leaked, cut, mode, logs, top,
                          hdr, head, gen, garbage, reader>>
    BY <1>3, <2>1, <2>2, <2>4 DEF Index, Abort, disk, history
  <2>7. CASE Refuse
    BY <2>7, RefuseType
  <2>8. CASE /\ \E hh \in {h, l} : hdr' = [hdr EXCEPT ![q] = hh] /\ art' = [art EXCEPT ![q] = hh]
             /\ (gen' = h.at - 1 /\ h.at # 0) \/ gen' = l.head
             /\ phase' = "generate"
             /\ UNCHANGED <<file, chunk, lib, base, kills, leaked, cut, mode, part, logs, top,
                            head, garbage, reader>>
    <3>1. hdr' \in [Part -> Header] /\ art' \in [Part -> Header]
      BY <2>3, <2>5, <2>8, HeaderFacts
    <3>2. gen' \in 0 .. MaxBlock
      BY <1>0, <2>3, <2>5, <2>8
    <3> QED  BY <1>0, <2>8, <3>1, <3>2 DEF DiskTypeOK, ProcessTypeOK, Phases
  <2>9. CASE /\ Closed /\ mode' = mode /\ art' = [art EXCEPT ![q] = l]
             /\ cut' = cut \cup ({l.head} \ chunk) /\ FileHead(q) > h.head
             /\ UNCHANGED <<file, chunk, lib, base, kills, leaked>>
    <3>1. ProcessTypeOK'
      BY <1>0, <2>9, ClosedType
    <3>2. art' \in [Part -> Header]
      BY <2>5, <2>9, HeaderFacts
    <3>3. l.head \in Block
      BY <1>0, <2>3, <2>5, <2>9 DEF Block
    <3> QED  BY <1>0, <2>9, <3>1, <3>2, <3>3 DEF DiskTypeOK
  <2>10. CASE /\ \/ phase' = "load" /\ UNCHANGED part
                 \/ part # top /\ phase' = "open" /\ part' = part + 1
              /\ UNCHANGED <<file, art, chunk, lib, base, kills, leaked, cut, mode, logs, top,
                             hdr, head, gen, garbage, reader>>
    <3>1. part \in 1 .. top /\ Topmost(top)
      BY <2>0 DEF StartingOK, Starting
    <3>2. top \in Part
      BY <3>1, NewestFile
    <3>3. part # top => part + 1 \in Part
      BY <3>1, <3>2, PartsOfBlocks
    <3> QED  BY <1>0, <2>10, <3>3 DEF DiskTypeOK, ProcessTypeOK, Phases
  <2> QED  BY <2>6, <2>7, <2>8, <2>9, <2>10
<1>4. ASSUME NEW note \in BOOLEAN, GenerateChunk(note)
      PROVE  DiskTypeOK' /\ ProcessTypeOK'
  <2>0. phase = "generate"
    BY <1>4 DEF GenerateChunk
  <2>1. PICK q \in Part : q = part
    BY <2>0, PartOpen
  <2>2. PICK h : h = hdr[q]
    OBVIOUS
  <2>3. /\ h \in Header /\ h.head \in 0 .. MaxBlock /\ h.tail \in 0 .. MaxBlock
        /\ h.at \in 0 .. MaxBlock /\ First(q) \in 1 .. MaxBlock
    BY <2>0, <2>1, <2>2, OpenHeader
  <2>4. First(q) <= h.tail /\ h.tail <= gen /\ gen <= h.head /\ gen \in Nat
    BY <1>0, <2>0, <2>1, <2>2 DEF GeneratingOK, ProcessTypeOK
  <2>5. PICK k : k = [h EXCEPT !.at = IF gen = h.tail THEN 0 ELSE IF note THEN gen ELSE @,
                               !.tail = IF gen = h.tail THEN First(q) ELSE @]
    OBVIOUS
  <2>6. /\ hdr' = [hdr EXCEPT ![q] = k] /\ art' \in {art, [art EXCEPT ![q] = k]}
        /\ gen' = IF gen = h.tail THEN 0 ELSE gen - 1
        /\ phase' \in {"index", "generate"} /\ chunk' = chunk \cup {gen}
        /\ UNCHANGED <<file, lib, base, kills, leaked, cut, mode, part, logs, top, head,
                       garbage, reader>>
    BY <1>4, <2>1, <2>2, <2>5 DEF GenerateChunk, history
  <2>7. k \in Header
    <3>1. /\ k = [head |-> k.head, tail |-> k.tail, at |-> k.at] /\ k.head = h.head
          /\ k.at = IF gen = h.tail THEN 0 ELSE IF note THEN gen ELSE h.at
          /\ k.tail = IF gen = h.tail THEN First(q) ELSE h.tail
      BY <2>3, <2>5 DEF Header
    <3>2. k.head \in -1 .. MaxBlock /\ k.tail \in 0 .. MaxBlock /\ k.at \in 0 .. MaxBlock
      BY <1>0, <2>3, <2>4, <3>1
    <3> QED  BY <3>1, <3>2 DEF Header
  <2>8. gen \in Block /\ gen' \in 0 .. MaxBlock
    BY <1>0, <2>3, <2>4, <2>6 DEF Block
  <2>9. hdr' \in [Part -> Header] /\ art' \in [Part -> Header]
    BY <2>6, <2>7, HeaderFacts
  <2> QED  BY <1>0, <2>6, <2>8, <2>9 DEF DiskTypeOK, ProcessTypeOK, Phases
<1> QED  BY <1>1, <1>2, <1>3, <1>4 DEF Opens

\* The types when the node comes up.
LEMMA LoadType ==
  ASSUME IInv, Load
  PROVE  DiskTypeOK' /\ ProcessTypeOK'
<1> USE DEF IInv
<1>0. MaxBlock \in Nat /\ DiskTypeOK /\ ProcessTypeOK
  BY BlockLogAssumption, TypeParts
<1>1. CASE Refuse
  BY <1>1, RefuseType
<1>2. CASE ~Refuse
  <2> DEFINE last == IF mode = "normal" THEN base ELSE Reindexed
  <2>1. /\ phase = "load" /\ base' = last /\ lib' \in IF last = base THEN {lib} ELSE lib .. last
        /\ mode = "normal" \/ base <= LogHead
        /\ phase' = "run"
        /\ UNCHANGED <<disk, mode, process, reader, kills, leaked, cut>>
    BY <1>2 DEF Load
  <2>2. LogHead \in 0 .. MaxBlock /\ (base <= LogHead => Reindexed \in base .. LogHead)
    BY <2>1, ReplayEnd
  <2>3. last \in 0 .. MaxBlock
    BY <1>0, <2>1, <2>2 DEF DiskTypeOK
  <2> HIDE DEF last
  <2>4. lib' \in 0 .. MaxBlock
    BY <1>0, <2>1, <2>3 DEF DiskTypeOK
  <2>5. DiskTypeOK'
    BY <1>0, <2>1, <2>3, <2>4 DEF DiskTypeOK, disk
  <2>6. ProcessTypeOK'
    BY <1>0, <2>1 DEF ProcessTypeOK, process, Phases
  <2> QED  BY <2>5, <2>6
<1> QED  BY <1>1, <1>2

\* The types when blocks are appended.
LEMMA AppendingType ==
  ASSUME IInv, Appending
  PROVE  DiskTypeOK' /\ ProcessTypeOK'
<1> USE DEF IInv
<1>0. /\ MaxBlock \in Nat /\ PartSize \in Nat \ {0} /\ Split \in Nat
      /\ DiskTypeOK /\ ProcessTypeOK /\ Serving
  BY BlockLogAssumption, TypeParts, StaysUp
<1>1. /\ top \in Part /\ top \in Nat /\ head[top] \in 0 .. MaxBlock /\ LogHead = head[top]
      /\ lib \in 0 .. MaxBlock
  BY <1>0, ServingFacts
<1>2. ASSUME NEW n \in Block, NEW b \in BOOLEAN, Irreversible(n, b)
      PROVE  DiskTypeOK' /\ ProcessTypeOK'
  <2>1. /\ UNCHANGED <<disk, base, mode, process, reader, history>> /\ lib' = n
        /\ phase' \in {"run", "append"}
    BY <1>2 DEF Irreversible
  <2>2. n \in 0 .. MaxBlock
    BY <1>0 DEF Block
  <2> QED  BY <1>0, <2>1, <2>2 DEF DiskTypeOK, ProcessTypeOK, Phases, disk, process, history
<1>3. ASSUME Append
      PROVE  DiskTypeOK' /\ ProcessTypeOK'
  <2> DEFINE n == LogHead + 1
  <2>1. /\ phase' \in {"commit", "create", "write"}
        /\ part' \in {part, top} \/ (n <= lib /\ part' = get_part_number_for_block(n))
        /\ UNCHANGED <<disk, lib, base, mode, logs, top, hdr, head, gen, garbage, reader, history>>
    BY <1>1, <1>3 DEF Append
  <2>2. n <= lib => n \in 0 .. MaxBlock
    BY <1>0, <1>1
  <2> HIDE DEF n
  <2>3. n <= lib => get_part_number_for_block(n) \in Part
    BY <2>2, PartsOfBlocks
  <2> QED  BY <1>0, <1>1, <2>1, <2>3 DEF DiskTypeOK, ProcessTypeOK, Phases, disk, history
<1>4. ASSUME Commit
      PROVE  DiskTypeOK' /\ ProcessTypeOK'
  <2>1. base' \in {base, lib}
    BY <1>0, <1>4, MaxOfTwo DEF Commit, DiskTypeOK
  <2>2. phase' = "run" /\ UNCHANGED <<disk, lib, mode, process, reader, kills, leaked, cut>>
    BY <1>4 DEF Commit
  <2> QED  BY <1>0, <2>1, <2>2 DEF DiskTypeOK, ProcessTypeOK, Phases, disk, process
<1>5. ASSUME Rotate
      PROVE  DiskTypeOK' /\ ProcessTypeOK'
  <2>1. phase = "rotate" /\ ~Writing
    BY <1>5 DEF Rotate, Writing
  <2>2. part - 1 - Split \in Part
    BY <1>0, <2>1 DEF ServingOK, ProcessTypeOK
  <2>3. file' \in [Part -> -1 .. PartSize] /\ art' \in [Part -> Header]
    BY <1>0, <1>5, Constants DEF Rotate, DiskTypeOK
  <2>4. /\ chunk' \subseteq chunk /\ logs' \subseteq logs /\ phase' = "append"
        /\ garbage' \subseteq garbage \cup {part - 1 - Split}
        /\ UNCHANGED <<lib, base, mode, part, top, hdr, head, gen, reader, history>>
    BY <1>5 DEF Rotate
  <2> QED  BY <1>0, <2>2, <2>3, <2>4 DEF DiskTypeOK, ProcessTypeOK, Phases, history
<1>6. ASSUME CreateLogFile \/ CreateArtifacts \/ WriteBlock \/ store_block_artifacts
             \/ ShowHead \/ PushPart \/ \E b \in BOOLEAN : store_block_artifacts_epilogue(b)
      PROVE  DiskTypeOK' /\ ProcessTypeOK'
  <2>1. Writing
    BY <1>6 DEF CreateLogFile, CreateArtifacts, WriteBlock, store_block_artifacts, ShowHead,
       PushPart, store_block_artifacts_epilogue, Writing
  <2>2. PICK q \in Part : q = part
    BY <2>1 DEF WritingOK
  <2>3. /\ FileHead(q) \in 0 .. MaxBlock /\ file[q] \in -1 .. PartSize
        /\ First(q) \in 1 .. MaxBlock /\ hdr[q] \in Header
    BY FileHeads, PartsOfBlocks, HeaderFacts
  <2>4. CASE CreateLogFile
    <3>0. 0 \in -1 .. PartSize
      BY <1>0
    <3>1. file' \in [Part -> -1 .. PartSize]
      BY <1>0, <2>4, <3>0 DEF CreateLogFile, DiskTypeOK
    <3> QED  BY <1>0, <2>4, <3>1 DEF CreateLogFile, DiskTypeOK, ProcessTypeOK, Phases, process, history
  <2>5. CASE WriteBlock
    <3>1. file[q] + 1 \in -1 .. PartSize
      <4>1. /\ First(q) + file[q] = head[top] + 1 /\ file[q] >= 0
            /\ q = get_part_number_for_block(head[top] + 1)
        BY <2>1, <2>2, <2>5 DEF WritingOK, WriteBlock
      <4>2. head[top] + 1 < First(q) + PartSize
        BY <1>1, <4>1, PartOfBlock
      <4> QED  BY <1>0, <2>3, <4>1, <4>2
    <3>2. file' \in [Part -> -1 .. PartSize]
      BY <1>0, <2>2, <2>5, <3>1 DEF WriteBlock, DiskTypeOK
    <3> QED  BY <1>0, <2>5, <3>2 DEF WriteBlock, DiskTypeOK, ProcessTypeOK, Phases, process, history
  <2>6. CASE CreateArtifacts
    <3>1. art' \in [Part -> Header] /\ hdr' \in [Part -> Header]
      BY <2>6, HeaderFacts, Constants DEF CreateArtifacts
    <3> QED  BY <1>0, <2>6, <3>1 DEF CreateArtifacts, DiskTypeOK, ProcessTypeOK, Phases, history
  <2>7. CASE store_block_artifacts
    <3>0. phase = "chunk"
      BY <2>7 DEF store_block_artifacts
    <3>1. hdr' = [hdr EXCEPT ![q] = [hdr[q] EXCEPT !.tail = IF @ = 0 THEN First(q) ELSE @]]
      BY <2>2, <2>7, HeaderFacts DEF store_block_artifacts
    <3>2. [hdr[q] EXCEPT !.tail = IF @ = 0 THEN First(q) ELSE @] \in Header
      BY <1>0, <2>3 DEF Header
    <3>3. hdr' \in [Part -> Header]
      BY <3>1, <3>2, HeaderFacts
    <3>4. FileHead(q) \in Block
      <4>1. FileHead(q) = head[top] + 1
        BY <2>2, <3>0, WritingPart
      <4> QED  BY <1>0, <1>1, <2>3, <4>1 DEF Block
    <3> QED  BY <1>0, <2>2, <2>7, <3>3, <3>4
             DEF store_block_artifacts, DiskTypeOK, ProcessTypeOK, Phases, history
  <2>8. CASE \E b \in BOOLEAN : store_block_artifacts_epilogue(b)
    <3>1. hdr' = [hdr EXCEPT ![q] = [hdr[q] EXCEPT !.head = FileHead(q)]]
      BY <2>2, <2>8, HeaderFacts DEF store_block_artifacts_epilogue
    <3>2. [hdr[q] EXCEPT !.head = FileHead(q)] \in Header
      BY <1>0, <2>3 DEF Header
    <3>3. hdr' \in [Part -> Header]
      BY <3>1, <3>2, HeaderFacts
    <3>4. art' \in [Part -> Header]
      BY <2>2, <2>8, <3>3, HeaderFacts DEF store_block_artifacts_epilogue
    <3> QED  BY <1>0, <2>8, <3>3, <3>4
             DEF store_block_artifacts_epilogue, DiskTypeOK, ProcessTypeOK, Phases, history
  <2>9. CASE ShowHead
    <3>1. head' \in [Part -> 0 .. MaxBlock]
      BY <1>0, <2>2, <2>3, <2>9 DEF ShowHead, ProcessTypeOK
    <3> QED  BY <1>0, <2>9, <3>1 DEF ShowHead, DiskTypeOK, ProcessTypeOK, Phases, disk, history
  <2>10. CASE PushPart
    BY <1>0, <2>2, <2>10 DEF PushPart, DiskTypeOK, ProcessTypeOK, Phases, disk, history
  <2> QED  BY <1>6, <2>4, <2>5, <2>6, <2>7, <2>8, <2>9, <2>10
<1> QED  BY <1>2, <1>3, <1>4, <1>5, <1>6 DEF Appending

\* The types when blocks are read.
LEMMA ReadingType ==
  ASSUME IInv, NEW r \in Readers, Reading(r)
  PROVE  DiskTypeOK' /\ ProcessTypeOK'
<1> USE DEF IInv
<1>0. MaxBlock \in Nat /\ DiskTypeOK /\ ProcessTypeOK
  BY BlockLogAssumption, TypeParts
<1>1. UNCHANGED <<disk, lib, base, phase, mode, process, history>>
  BY StaysUp
<1>2. \E x \in Reader : reader' = [reader EXCEPT ![r] = x]
  <2>0. reader[r] \in Reader /\ NoReader \in Reader
    BY <1>0, Constants DEF ProcessTypeOK
  <2>1. ASSUME NEW n \in Block, Ask(r, n)
        PROVE  \E x \in Reader : reader' = [reader EXCEPT ![r] = x]
    <3>1. [step |-> "asked", num |-> n, part |-> 0] \in Reader
      BY <1>0 DEF Reader, Block
    <3> QED  BY <2>1, <3>1 DEF Ask, ReadStep
  <2>2. CASE TakePart(r)
    <3> DEFINE p == get_part_number_for_block(reader[r].num)
    <3>1. reader' = [reader EXCEPT ![r] = IF p \in logs
                       THEN [reader[r] EXCEPT !.step = "held", !.part = p] ELSE NoReader]
      BY <2>2 DEF TakePart, ReadStep
    <3>2. ASSUME p \in logs PROVE [reader[r] EXCEPT !.step = "held", !.part = p] \in Reader
      <4>1. p \in Part
        BY <1>0, <3>2 DEF ProcessTypeOK
      <4> QED  BY <2>0, <4>1 DEF Reader
    <3> HIDE DEF p
    <3> QED  BY <2>0, <3>1, <3>2
  <2>3. CASE LookAtHead(r)
    <3>1. reader' = [reader EXCEPT ![r] = IF reader[r].num >= head[reader[r].part] THEN NoReader
                      ELSE [reader[r] EXCEPT !.step = "disk"]]
      BY <2>3 DEF LookAtHead, ReadStep
    <3>2. [reader[r] EXCEPT !.step = "disk"] \in Reader
      BY <2>0 DEF Reader
    <3> QED  BY <2>0, <3>1, <3>2
  <2>4. CASE ReadDisk(r)
    BY <2>0, <2>4 DEF ReadDisk, ReadStep
  <2> QED  BY <2>1, <2>2, <2>3, <2>4 DEF Reading
<1>3. reader' \in [Readers -> Reader]
  BY <1>0, <1>2 DEF ProcessTypeOK
<1> QED  BY <1>0, <1>1, <1>3 DEF DiskTypeOK, ProcessTypeOK, disk, process, history

\* Every step keeps the types.
LEMMA TypeStep == ASSUME IInv, Next PROVE TypeOK'
<1>1. FlagsOK'
  BY FlagsStep, TypeParts DEF IInv
<1>2. DiskTypeOK' /\ ProcessTypeOK'
  BY LeavingType, OpensType, LoadType, AppendingType, ReadingType
     DEF Next, Opens, Appending, Reading
<1> QED  BY <1>1, <1>2, TypeParts, PTL

------------------------------------------------------------------------------
(* Theorems. *)

\* IInv holds in every state: one fact per component of the block log, each
\* kept by every step of the node, of its readers and of a kill.
THEOREM BlockLogInvariant == Spec => []IInv
<1>1. Init => IInv
  BY InitInv
<1>2. IInv /\ [Next]_vars => IInv'
  <2> SUFFICES ASSUME IInv, [Next]_vars PROVE IInv'
    OBVIOUS
  <2>1. CASE Next
    <3>1. TypeOK' /\ FilesOK'
      BY <2>1, TypeStep, FilesStep
    <3>2. DownOK' /\ StartingOK' /\ ServingOK' /\ WritingOK'
      BY <2>1, StartingStep, RunningStep
    <3>3. GarbageOK' /\ StrayOK' /\ ReaderOK'
      BY <2>1, GarbageStep, StrayStep, ReaderStep
    <3>4. ArtifactsOK' /\ HeadersOK' /\ GeneratingOK'
      BY <2>1, ArtifactsStep
    <3> QED  BY <3>1, <3>2, <3>3, <3>4 DEF IInv
  <2>2. CASE UNCHANGED vars
    <3>1. UNCHANGED <<file, torn, art, chunk, lib, base, phase, mode, part, logs, top, hdr,
                      head, gen, garbage, reader, kills, refused, orderly, leaked, cut, short>>
      BY <2>2, Zenon DEF vars, disk, process, history
    <3>2. TypeOK'
      BY <3>1, SMTT(60) DEF TypeOK, IInv
    <3>3. /\ Files' = Files /\ Starting' = Starting /\ Serving' = Serving /\ Writing' = Writing
          /\ NewHead' = NewHead /\ Kept' = Kept
      BY <3>1, Zenon DEF Files, Starting, Serving, Writing, NewHead, Kept
    <3>4. FilesOK' /\ DownOK' /\ GarbageOK'
      BY <3>1, <3>3, Zenon DEF IInv, FilesOK, DownOK, GarbageOK, Topmost
    <3>5. StartingOK'
      BY <3>1, <3>3 DEF IInv, StartingOK, Topmost, FileHead, Needed
    <3>6. ServingOK' /\ WritingOK'
      BY <3>1, <3>3, SMTT(60) DEF IInv, ServingOK, WritingOK, Topmost, FileHead
    <3>7. StrayOK' /\ ReaderOK' /\ ArtifactsOK' /\ HeadersOK' /\ GeneratingOK'
      BY <3>1, <3>3, Zenon DEF IInv, StrayOK, ReaderOK, ArtifactsOK, HeadersOK, GeneratingOK,
         Topmost, FileHead, WellFormed, Complete
    <3> QED  BY <3>2, <3>4, <3>5, <3>6, <3>7 DEF IInv
  <2> QED  BY <2>1, <2>2
<1> QED  BY <1>1, <1>2, PTL DEF Spec

\* TypeOK: the files, the process and the threads are always in a state the
\* code can be in; a part file never outgrows its part.
THEOREM TypeCorrect == Spec => []TypeOK
<1>1. IInv => TypeOK
  BY DEF IInv
<1> QED  BY <1>1, BlockLogInvariant, PTL

\* CommittedStored: whenever the process is killed, the files hold every block
\* of the committed state in the parts the configuration keeps (store_block
\* before commit, a part let go only after the new one has a block).
THEOREM StoredTheorem == Spec => []CommittedStored
<1>1. IInv => CommittedStored
  <2> SUFFICES ASSUME IInv, NEW n \in 1 .. base,
                      get_part_number_for_block(n) >= get_part_number_for_block(base) - Split
               PROVE  file[get_part_number_for_block(n)]
                        >= n - First(get_part_number_for_block(n)) + 1
    BY DEF CommittedStored
  <2> USE DEF IInv
  <2>0. base \in 0 .. MaxBlock /\ MaxBlock \in Nat /\ PartSize \in Nat /\ Split \in Nat
    BY TypeParts, BlockLogAssumption DEF DiskTypeOK
  <2>1. n \in Nat \ {0} /\ base \in Nat \ {0} /\ n <= base /\ n \in 0 .. MaxBlock
    BY <2>0
  <2>2. Files # {}
    BY <2>1 DEF FilesOK
  <2>3. PICK t \in Part : Topmost(t)
    BY <2>2, NewestFile
  <2>4. PICK p \in Part : p = get_part_number_for_block(n)
    BY <2>1, PartsOfBlocks
  <2>5. PICK b \in Part : b = get_part_number_for_block(base)
    BY <2>0, PartsOfBlocks
  <2>6. p \in Nat /\ b \in Nat /\ t \in Nat /\ First(p) \in Nat /\ First(b) \in Nat
    BY PartsOfBlocks, SMTT(60)
  <2>7. p <= b /\ First(p) <= n /\ n < First(p) + PartSize
    BY <2>1, <2>4, <2>5, PartOrder, PartOfBlock
  <2>8. /\ b <= t /\ file[b] >= base - First(b) + 1 /\ (b - Split <= p /\ p <= t => p \in Files)
        /\ p \in Files /\ p < t => file[p] = PartSize
    BY <2>1, <2>3, <2>5 DEF FilesOK
  <2>9. p \in Files
    BY <2>0, <2>4, <2>5, <2>6, <2>7, <2>8
  <2>10. file[b] \in Int
    BY FileHeads
  <2>11. CASE p < t
    BY <2>0, <2>1, <2>4, <2>6, <2>7, <2>8, <2>9, <2>11
  <2>12. CASE ~(p < t)
    <3>1. p = b
      BY <2>6, <2>7, <2>8, <2>12
    <3> QED  BY <2>1, <2>4, <2>6, <2>8, <2>10, <3>1
  <2> QED  BY <2>11, <2>12
<1> QED  BY <1>1, BlockLogInvariant, PTL

\* ServesWhole: a running node has every part the configuration asks for, all
\* but the last full, and between requests its state stands at the head of the
\* log.
THEOREM WholeTheorem == Spec => []ServesWhole
<1>1. IInv => ServesWhole
  <2> SUFFICES ASSUME IInv, Serving
               PROVE  /\ \A p \in Max({1, top - Split}) .. top :
                           p \in logs
                           /\ (p < top => head[p] = get_number_of_last_block_in_part(p))
                      /\ phase = "run" => base = LogHead \/ (short /\ base = LogHead - 1)
    BY DEF ServesWhole
  <2> USE DEF IInv
  <2>1. /\ top \in Part /\ top \in Nat /\ LogHead = head[top] /\ Split \in Nat
    BY ServingFacts, BlockLogAssumption
  <2>2. Max({1, top - Split}) = IF 1 >= top - Split THEN 1 ELSE top - Split
    BY <2>1, MaxOfTwo
  <2>3. ASSUME NEW p \in Max({1, top - Split}) .. top
        PROVE  p \in logs /\ (p < top => head[p] = get_number_of_last_block_in_part(p))
    <3>1. p \in Int /\ 1 <= p /\ top - Split <= p /\ p <= top
      BY <2>1, <2>2
    <3>2. p \in Part
      BY <2>1, <3>1, PartsOfBlocks
    <3>3. get_number_of_last_block_in_part(p) = First(p) + PartSize - 1
      BY <3>1, PartBounds
    <3> QED  BY <3>1, <3>2, <3>3 DEF ServingOK
  <2>4. phase = "run" => base = LogHead \/ (short /\ base = LogHead - 1)
    BY <2>1 DEF ServingOK
  <2> QED  BY <2>3, <2>4
<1> QED  BY <1>1, BlockLogInvariant, PTL

\* NoStrayFiles: an orderly close leaves only the parts the node needs, besides
\* what a killed process had not removed (dispose_garbage).
THEOREM StrayTheorem == Spec => []NoStrayFiles
<1>1. IInv => NoStrayFiles
  <2> SUFFICES ASSUME IInv, phase = "down", NEW p \in Files \ leaked
               PROVE  p >= Max(Files) - Split
    BY DEF NoStrayFiles
  <2>1. garbage = {} /\ ~NewHead
    BY DEF IInv, DownOK, NewHead
  <2>2. PICK t \in Part : Topmost(t) /\ t = Max(Files)
    BY NewestFile
  <2> QED  BY <2>1, <2>2 DEF IInv, StrayOK
<1> QED  BY <1>1, BlockLogInvariant, PTL

\* ReadServed: a reader that holds a part finds the block it was asked for,
\* whatever the write thread appends, rotates or removes meanwhile
\* (read_block_by_num against append_raw, store_block_artifacts and
\* dispose_garbage).
THEOREM ReadTheorem == Spec => []ReadServed
<1>1. IInv => ReadServed
  <2> SUFFICES ASSUME IInv, NEW r \in Readers, reader[r].part # 0
               PROVE  LET n == reader[r].num  p == reader[r].part
                      IN  /\ file[p] # NoFile
                          /\ n <= head[p]
                          /\ reader[r].step = "disk" =>
                               hdr[p].head # n /\ {n, n + 1} \subseteq chunk \cup cut
    BY DEF ReadServed
  <2> USE DEF IInv
  <2>1. PICK p : p = reader[r].part
    OBVIOUS
  <2>2. PICK n : n = reader[r].num
    OBVIOUS
  <2>3. /\ p \in logs \cup garbage /\ p = get_part_number_for_block(n) /\ n \in 1 .. head[p]
        /\ reader[r].step = "disk" => n < head[p]
    BY <2>1, <2>2 DEF ReaderOK, NoReader
  <2>4. Serving
    <3>1. reader # [s \in Readers |-> NoReader]
      BY DEF NoReader
    <3>2. phase # "down" /\ ~Starting
      BY <3>1 DEF DownOK, StartingOK
    <3> QED  BY <3>2 DEF Serving, Starting
  <2>5. p \in Part /\ p \in Kept /\ p \in Files
    BY <2>3, <2>4, KeptFacts DEF ServingOK, GarbageOK
  <2>6. /\ hdr[p].at = 0 /\ head[p] <= hdr[p].head /\ Complete(hdr[p], p)
        /\ hdr[p].head \in Nat /\ head[p] \in Nat
    BY <2>3, <2>4, <2>5, HeaderFacts, TypeParts, BlockLogAssumption
       DEF HeadersOK, ProcessTypeOK
  <2>7. First(p) <= n /\ First(p) \in Nat /\ n \in Nat /\ n <= head[p]
    <3>1. n \in Nat \ {0} /\ n <= head[p]
      BY <2>3, <2>6
    <3> QED  BY <2>3, <2>5, <3>1, PartOfBlock, PartsOfBlocks
  <2>8. ASSUME n < head[p] PROVE hdr[p].head # n /\ {n, n + 1} \subseteq chunk \cup cut
    <3>1. n \in First(p) .. hdr[p].head /\ n + 1 \in First(p) .. hdr[p].head
      BY <2>6, <2>7, <2>8
    <3>2. n \in chunk \cup cut /\ n + 1 \in chunk \cup cut
      BY <2>6, <3>1 DEF Complete
    <3> QED  BY <2>6, <2>7, <2>8, <3>2
  <2>9. file[p] # NoFile
    BY <2>5 DEF Files
  <2> QED  BY <2>1, <2>2, <2>3, <2>7, <2>8, <2>9
<1> QED  BY <1>1, BlockLogInvariant, PTL

------------------------------------------------------------------------------
(* A plain start after an orderly close. *)

\* A file that ends with a piece of a block is never opened.
TornOK ==
  /\ Serving => ~torn
  /\ Starting /\ top \in logs => ~torn

\* A stored block, not the first of its part, has no chunk.
Missing(n) == n \notin chunk /\ \E p \in Part : First(p) < n /\ n <= FileHead(p)

\* Such a block was being written when the process was killed, so the state is
\* behind it and cannot be loaded, or it is wiped.  A running node lacks no
\* chunk but that of the block it is writing.
MissingOK ==
  /\ \A n \in Block : Missing(n) => base < n /\ (lib > base \/ base = 0)
  /\ Serving => \A n \in Block : Missing(n) => phase = "chunk" /\ n = FileHead(part)

\* The newest part t ends at the committed block, and the artifacts of the
\* parts a start opens are complete.
Settled(t) ==
  /\ FileHead(t) = base
  /\ \A p \in Part : t - Split <= p /\ p <= t =>
       art[p].at = 0 /\ (FileHead(p) = 0 \/ FileHead(p) <= art[p].head)

OrderlyOK ==
  orderly /\ ~Serving =>
    /\ ~torn /\ lib <= base /\ phase # "generate"
    /\ phase = "down" \/ mode # "force"
    /\ \A t \in Part : Topmost(t) => Settled(t)

RInv == IInv /\ TornOK /\ MissingOK /\ OrderlyOK

\* Nothing is stored, torn or missing at first.
LEMMA RestartInit == Init => TornOK /\ MissingOK /\ OrderlyOK
<1> SUFFICES ASSUME Init PROVE TornOK /\ MissingOK /\ OrderlyOK
  OBVIOUS
<1>1. phase = "down" /\ lib = 0 /\ base = 0 /\ file = [p \in Part |-> NoFile]
  BY DEF Init
<1>2. ~torn
  BY Zenon DEF Init
<1>3. ~Serving /\ ~Starting
  BY <1>1 DEF Serving, Starting
<1>4. Files = {} /\ \A p \in Part : FileHead(p) = 0 /\ First(p) >= 1 /\ First(p) \in Nat
  BY <1>1, PartsOfBlocks DEF Files, FileHead, NoFile
<1>5. \A n \in Block : ~Missing(n)
  BY <1>4 DEF Missing, Block
<1>6. \A t \in Part : ~Topmost(t)
  BY <1>4 DEF Topmost
<1> QED  BY <1>1, <1>2, <1>3, <1>5, <1>6 DEF TornOK, MissingOK, OrderlyOK

\* A torn file stops the start that meets it.
LEMMA TornStep == ASSUME RInv, Next PROVE TornOK'
<1> USE DEF RInv
<1>1. CASE Closed
  BY <1>1 DEF Closed, TornOK, Serving, Starting
<1>2. ASSUME NEW m, Start(m) PROVE TornOK'
  <2>1. logs' = {} /\ phase' \in {"down", "open"}
    BY <1>2 DEF Start, IInv, DownOK
  <2> QED  BY <2>1 DEF TornOK, Serving
<1>3. ASSUME OpenPart, ~Closed PROVE TornOK'
  <2>1. /\ phase = "open" /\ phase' = "index" /\ top' = top /\ logs' = logs \cup {part}
    BY <1>3 DEF OpenPart, Refuse
  <2>2. torn' = torn /\ (part = top => ~torn)
    BY <1>3, Zenon DEF OpenPart, Refuse
  <2>3. top' \in logs' => ~torn'
    <3>1. top \in logs => ~torn
      BY <2>1 DEF TornOK, Starting
    <3>2. top' \in logs' => top \in logs \/ part = top
      BY <2>1
    <3> QED  BY <2>2, <3>1, <3>2, Zenon
  <2>4. ~Serving'
    BY <2>1 DEF Serving
  <2> QED  BY <2>3, <2>4, Zenon DEF TornOK
<1>4. ASSUME Index \/ (\E b \in BOOLEAN : GenerateChunk(b)), ~Closed PROVE TornOK'
  <2>1. /\ phase \in {"index", "generate"} /\ phase' \in {"open", "index", "generate", "load"}
        /\ UNCHANGED <<logs, top>>
    BY <1>4 DEF Index, GenerateChunk, Refuse, Abort
  <2>2. torn' = torn
    BY <1>4, Zenon DEF Index, GenerateChunk, Refuse, Abort, disk
  <2>3. Starting /\ ~Serving'
    BY <2>1 DEF Starting, Serving
  <2>4. top' \in logs' => ~torn'
    BY <2>1, <2>2, <2>3, Zenon DEF TornOK
  <2> QED  BY <2>3, <2>4, Zenon DEF TornOK
<1>5. ASSUME Load, ~Closed PROVE TornOK'
  <2>1. phase = "load" /\ phase' = "run"
    BY <1>5 DEF Load, Refuse
  <2>2. torn' = torn
    BY <1>5, Zenon DEF Load, Refuse, disk
  <2>3. Starting /\ top \in logs
    BY <2>1, PartOpen DEF StartingOK, IInv
  <2>4. ~Starting' /\ ~torn
    BY <2>1, <2>3 DEF TornOK, Starting
  <2> QED  BY <2>2, <2>4, Zenon DEF TornOK
<1>6. ASSUME Serving, Serving', torn' = torn PROVE TornOK'
  <2>1. ~Starting'
    BY <1>6 DEF Serving, Starting
  <2> QED  BY <1>6, <2>1, Zenon DEF TornOK
<1>7. ASSUME Appending PROVE TornOK'
  <2>1. torn' = torn
    BY <1>7, Zenon DEF Appending, store_block_artifacts_epilogue, Irreversible, Append,
       CreateLogFile, CreateArtifacts, WriteBlock, store_block_artifacts, ShowHead, PushPart,
       Rotate, Commit, disk
  <2> QED  BY <1>6, <1>7, <2>1, StaysUp
<1>8. ASSUME NEW r \in Readers, Reading(r) PROVE TornOK'
  <2>1. torn' = torn /\ Serving /\ Serving'
    BY <1>8, StaysUp, Zenon DEF disk
  <2> QED  BY <1>6, <2>1
<1> QED  BY <1>1, <1>2, <1>3, <1>4, <1>5, <1>7, <1>8, StepKinds DEF Opens

\* Steps that remove neither a chunk nor a file make no chunk missing.
LEMMA ChunksKept ==
  ASSUME file' = file, chunk \subseteq chunk', NEW n, Missing(n)'
  PROVE  Missing(n)
  BY SameFiles DEF Missing

\* Nor do steps that remove the files of whole parts.
LEMMA PartsRemoved ==
  ASSUME IInv, NEW gone, file' = [p \in Part |-> IF p \in gone THEN NoFile ELSE file[p]],
         chunk' = {n \in chunk : get_part_number_for_block(n) \notin gone},
         NEW n \in Block, Missing(n)'
  PROVE  Missing(n)
<1>1. PICK p \in Part : First(p) < n /\ n <= FileHead(p)'
  BY DEF Missing
<1>2. n \in Nat \ {0} /\ PartSize \in Nat \ {0} /\ First(p) \in Nat /\ p \in Int
  BY BlockLogAssumption, HeaderFacts DEF Block
<1>3. p \notin gone
  BY <1>1, <1>2 DEF FileHead, NoFile
<1>4. FileHead(p)' = FileHead(p)
  BY <1>3 DEF FileHead
<1>5. FileHead(p) \in Nat /\ (FileHead(p) > 0 => FileHead(p) < First(p) + PartSize)
  BY HeaderFacts
<1>6. get_part_number_for_block(n) = p
  <2>1. First(p) <= n /\ n < First(p) + PartSize
    BY <1>1, <1>2, <1>4, <1>5
  <2> QED  BY <1>2, <2>1, PartOfBlock
<1>7. n \notin chunk
  BY <1>3, <1>6 DEF Missing
<1> QED  BY <1>1, <1>4, <1>7 DEF Missing

\* A node comes up only when no chunk is missing: its state is not ahead of the
\* log, or a replay has read every block.
LEMMA LoadComplete ==
  ASSUME RInv, Load, ~Closed, NEW n \in Block, Missing(n)
  PROVE  FALSE
<1> USE DEF RInv, IInv
<1>0. /\ MaxBlock \in Nat /\ PartSize \in Nat \ {0} /\ base \in Nat /\ lib \in Nat
      /\ n \in Nat \ {0}
  BY BlockLogAssumption, TypeParts DEF DiskTypeOK, Block
<1>1. /\ phase = "load" /\ base >= lib
      /\ \/ mode = "normal" /\ LogHead = base
         \/ LogHead # 0 /\ \A k \in (base + 1) .. Reindexed : Readable(k)
  BY DEF Load, Refuse
<1>2. base = 0
  BY <1>0, <1>1 DEF MissingOK
<1>3. PICK p \in Part : First(p) < n /\ n <= FileHead(p)
  BY DEF Missing
<1>4. Topmost(top) /\ top \in logs /\ \A q \in logs : head[q] = FileHead(q)
  BY <1>1, PartOpen DEF StartingOK, Starting
<1>5. top \in Part /\ top \in Nat /\ top >= 1 /\ p \in Nat /\ p >= 1
  BY <1>4, NewestFile, HeaderFacts
<1>6. LogHead = FileHead(top)
  BY <1>4, <1>5 DEF LogHead
<1>7. /\ First(p) \in Nat /\ First(p) >= 1 /\ FileHead(p) \in Nat /\ FileHead(top) \in Nat
      /\ FileHead(p) < First(p) + PartSize
      /\ First(top) \in Nat /\ (FileHead(top) > 0 => First(top) <= FileHead(top))
  BY <1>0, <1>3, <1>5, HeaderFacts
<1>8. file[p] > 0 /\ p \in Files /\ p <= top
  <2>1. file[p] > 0
    BY <1>0, <1>3, <1>7 DEF FileHead
  <2>2. p \in Files
    BY <2>1 DEF Files, NoFile
  <2> QED  BY <1>4, <2>1, <2>2 DEF Topmost
<1>9. CASE mode = "normal" /\ LogHead = base
  <2>1. FileHead(top) = 0
    BY <1>2, <1>6, <1>9
  <2>2. top > 1 => file[top] > 0
    BY <1>2, <1>4, <1>5 DEF FilesOK
  <2>3. file[top] > 0 => FileHead(top) > 0
    <3>1. file[top] \in -1 .. PartSize /\ First(top) \in Nat /\ First(top) >= 1
      BY <1>5, FileHeads, HeaderFacts
    <3> QED  BY <1>0, <3>1 DEF FileHead
  <2>4. top = 1
    BY <1>5, <2>1, <2>2, <2>3
  <2>5. p = top
    BY <1>5, <1>8, <2>4
  <2> QED  BY <1>0, <1>3, <2>1, <2>5
<1>10. CASE LogHead # 0 /\ \A k \in (base + 1) .. Reindexed : Readable(k)
  <2>1. Reindexed \in Nat /\ Reindexed >= LogHead - 1
    BY <1>0, <1>2, <1>6, <1>7, <1>10 DEF Reindexed, process_blocks
  <2>2. FileHead(p) <= FileHead(top)
    <3>1. CASE p = top
      BY <1>7, <3>1
    <3>2. CASE p # top
      <4>1. p < top
        BY <1>5, <1>8, <3>2
      <4>2. First(p) + PartSize <= First(top)
        BY <1>5, <4>1, PartBounds
      <4> QED  BY <1>0, <1>6, <1>7, <1>10, <4>2
    <3> QED  BY <3>1, <3>2
  <2>3. n - 1 \in (base + 1) .. Reindexed /\ n - 1 \in Nat \ {0}
    BY <1>0, <1>2, <1>3, <1>6, <1>7, <2>1, <2>2
  <2>4. get_part_number_for_block(n - 1) = p
    <3>1. First(p) <= n - 1 /\ n - 1 < First(p) + PartSize
      BY <1>0, <1>3, <1>7
    <3>2. PICK k \in Nat \ {0} : k = n - 1
      BY <2>3
    <3>3. First(p) <= k /\ k < First(p) + PartSize /\ p \in Int
      BY <1>5, <3>1, <3>2
    <3>4. get_part_number_for_block(k) = p
      BY <3>3, PartOfBlock
    <3> QED  BY <3>2, <3>4
  <2>5. /\ p \in logs
        /\ n - 1 = head[p] \/ {n - 1, n - 1 + 1} \subseteq chunk
    BY <1>10, <2>3, <2>4 DEF Readable
  <2>6. n - 1 # head[p]
    BY <1>0, <1>3, <1>4, <1>7, <2>5
  <2>7. n - 1 + 1 = n
    BY <1>0
  <2> QED  BY <2>5, <2>6, <2>7 DEF Missing
<1> QED  BY <1>1, <1>9, <1>10

\* Every step keeps MissingOK.
LEMMA MissingStep == ASSUME RInv, Next PROVE MissingOK'
<1> USE DEF RInv
<1>0. /\ MaxBlock \in Nat /\ base \in Nat /\ lib \in Nat
      /\ \A n \in Block : n \in Nat /\ n # 0
  BY BlockLogAssumption, TypeParts DEF DiskTypeOK, Block, IInv
<1>1. ASSUME ~Serving', UNCHANGED <<lib, base>>, \A n \in Block : Missing(n)' => Missing(n)
      PROVE  MissingOK'
  BY <1>1 DEF MissingOK
<1>2. ASSUME Serving', \A n \in Block : ~Missing(n)'
      PROVE  MissingOK'
  BY <1>2 DEF MissingOK
<1>3. ASSUME Kill \/ Interrupt PROVE MissingOK'
  <2>1. ~Serving' /\ UNCHANGED <<file, chunk, lib, base>>
    BY <1>3 DEF Kill, Interrupt, Closed, Serving
  <2> QED  BY <1>1, <2>1, ChunksKept
<1>4. ASSUME Close PROVE MissingOK'
  <2>1. PICK gone : gone = garbage
    OBVIOUS
  <2>2. /\ ~Serving' /\ UNCHANGED <<lib, base>>
        /\ file' = [p \in Part |-> IF p \in gone THEN NoFile ELSE file[p]]
        /\ chunk' = {n \in chunk : get_part_number_for_block(n) \notin gone}
    BY <1>4, <2>1 DEF Close, Closed, Serving
  <2> QED  BY <1>1, <2>2, PartsRemoved
<1>5. ASSUME Refuse \/ OpenPart \/ Index \/ (\E b \in BOOLEAN : GenerateChunk(b)) PROVE MissingOK'
  <2>1. ~Serving' /\ UNCHANGED <<file, lib, base>> /\ chunk \subseteq chunk'
    BY <1>5 DEF Refuse, OpenPart, Index, GenerateChunk, Abort, Closed, Serving, disk
  <2> QED  BY <1>1, <2>1, ChunksKept
<1>6. ASSUME NEW m \in {"normal", "replay", "force"}, Start(m) PROVE MissingOK'
  <2>1. /\ ~Serving' /\ chunk' = chunk
        /\ \/ lib' = 0 /\ base' = 0
           \/ lib' = lib /\ base' = base
        /\ file' = IF Files = {} THEN [file EXCEPT ![1] = 0] ELSE file
    BY <1>6 DEF Start, Serving
  <2>2. ASSUME NEW n \in Block, Missing(n)' PROVE Missing(n)
    <3>1. CASE Files = {}
      <4>1. PICK p \in Part : First(p) < n /\ n <= FileHead(p)'
        BY <2>2 DEF Missing
      <4>2. file[p] = NoFile /\ file \in [Part -> -1 .. PartSize]
        BY <3>1, TypeParts DEF Files, DiskTypeOK, IInv
      <4>3. FileHead(p)' = 0
        BY <2>1, <3>1, <4>2 DEF FileHead, NoFile
      <4> QED  BY <1>0, <4>1, <4>3
    <3>2. CASE Files # {}
      BY <2>1, <2>2, <3>2, ChunksKept
    <3> QED  BY <3>1, <3>2
  <2> QED  BY <1>0, <2>1, <2>2 DEF MissingOK
<1>7. ASSUME Load PROVE MissingOK'
  <2>1. CASE Refuse
    BY <1>5, <2>1
  <2>2. CASE ~Refuse
    <3>1. phase' = "run" /\ UNCHANGED <<file, chunk>>
      BY <1>7, <2>2 DEF Load, disk
    <3>2. ~Closed /\ Serving'
      BY <3>1 DEF Closed, Serving
    <3> QED  BY <1>2, <1>7, <3>1, <3>2, ChunksKept, LoadComplete
  <2> QED  BY <2>1, <2>2
<1>8. ASSUME NEW r \in Readers, Reading(r) PROVE MissingOK'
  <2>1. UNCHANGED <<file, chunk, lib, base, phase, part>> /\ Serving
    BY <1>8, StaysUp DEF disk, process
  <2> QED  BY <2>1 DEF MissingOK, Missing, FileHead, Serving
<1>9. ASSUME Appending PROVE MissingOK'
  <2>0. Serving /\ Serving'
    BY <1>9, StaysUp
  <2>1. phase # "chunk" => \A n \in Block : ~Missing(n)
    BY <2>0 DEF MissingOK
  <2>2. CASE WriteBlock
    <3>1. phase = "write" /\ phase' = "chunk" /\ UNCHANGED <<chunk, lib, base, part, head, top>>
      BY <2>2 DEF WriteBlock, process
    <3>2. Writing
      BY <3>1 DEF Writing
    <3>3. PICK q \in Part : q = part
      BY <3>2 DEF WritingOK, IInv
    <3>4. /\ First(q) + file[q] = head[top] + 1 /\ file[q] >= 0 /\ head[top] < lib
          /\ base <= head[top]
      BY <2>0, <3>1, <3>2, <3>3 DEF WritingOK, ServingOK, IInv
    <3>5. /\ First(q) \in Nat /\ file \in [Part -> -1 .. PartSize] /\ PartSize \in Nat
          /\ head[top] \in Nat
      BY <2>0, HeaderFacts, TypeParts, BlockLogAssumption, ServingFacts DEF DiskTypeOK, IInv
    <3>6. file' = [file EXCEPT ![q] = file[q] + 1]
      BY <2>2, <3>3 DEF WriteBlock
    <3>7. FileHead(q)' = head[top] + 1 /\ FileHead(part)' = head[top] + 1
      BY <3>1, <3>3, <3>4, <3>5, <3>6 DEF FileHead
    <3>8. ASSUME NEW n \in Block, Missing(n)' PROVE n = head[top] + 1
      <4>1. PICK p \in Part : First(p) < n /\ n <= FileHead(p)'
        BY <3>8 DEF Missing
      <4>2. ~Missing(n) /\ n \notin chunk
        BY <2>1, <3>1, <3>8 DEF Missing
      <4>3. ~(n <= FileHead(p))
        BY <4>1, <4>2 DEF Missing
      <4>4. p = q
        <5>1. p # q => FileHead(p)' = FileHead(p)
          BY <3>5, <3>6 DEF FileHead
        <5> QED  BY <4>1, <4>3, <5>1
      <4>5. n > head[top]
        <5>1. CASE file[q] > 0
          <6>1. FileHead(q) = head[top]
            BY <3>4, <3>5, <5>1 DEF FileHead
          <6> QED  BY <1>0, <3>5, <4>3, <4>4, <6>1
        <5>2. CASE ~(file[q] > 0)
          BY <1>0, <3>4, <3>5, <4>1, <4>4, <5>2
        <5> QED  BY <5>1, <5>2
      <4> QED  BY <1>0, <3>5, <3>7, <4>1, <4>4, <4>5
    <3>9. base < head[top] + 1 /\ lib > base
      BY <1>0, <3>4, <3>5
    <3> QED  BY <3>1, <3>7, <3>8, <3>9 DEF MissingOK
  <2>3. CASE store_block_artifacts
    <3>1. phase = "chunk" /\ file' = file /\ chunk' = chunk \cup {FileHead(part)}
      BY <2>3 DEF store_block_artifacts
    <3>2. ASSUME NEW n \in Block, Missing(n)' PROVE FALSE
      <4>1. Missing(n) /\ n \notin chunk'
        BY <3>1, <3>2, ChunksKept DEF Missing
      <4> QED  BY <2>0, <3>1, <4>1 DEF MissingOK
    <3> QED  BY <1>2, <2>0, <3>2
  <2>4. CASE CreateLogFile
    <3>1. phase = "create" /\ chunk' = chunk /\ file' = [file EXCEPT ![part] = 0]
      BY <2>4 DEF CreateLogFile
    <3>2. ASSUME NEW n \in Block, Missing(n)' PROVE FALSE
      <4>1. PICK p \in Part : First(p) < n /\ n <= FileHead(p)'
        BY <3>2 DEF Missing
      <4>2. file \in [Part -> -1 .. PartSize]
        BY TypeParts DEF DiskTypeOK, IInv
      <4>3. FileHead(p)' = FileHead(p) \/ FileHead(p)' = 0
        BY <3>1, <4>2 DEF FileHead
      <4>4. FileHead(p)' = FileHead(p)
        BY <1>0, <4>1, <4>3, HeaderFacts
      <4> QED  BY <2>1, <3>1, <3>2, <4>1, <4>4 DEF Missing
    <3> QED  BY <1>2, <2>0, <3>2
  <2>5. CASE Rotate
    <3>1. PICK gone : gone = {p \in garbage : ~InUse(p)}
      OBVIOUS
    <3>2. /\ phase = "rotate"
          /\ file' = [p \in Part |-> IF p \in gone THEN NoFile ELSE file[p]]
          /\ chunk' = {n \in chunk : get_part_number_for_block(n) \notin gone}
      BY <2>5, <3>1 DEF Rotate
    <3> QED  BY <1>2, <2>0, <2>1, <3>2, PartsRemoved
  <2>6. CASE \/ \E b \in BOOLEAN : store_block_artifacts_epilogue(b)
             \/ \E n \in Block, b \in BOOLEAN : Irreversible(n, b)
             \/ Append \/ CreateArtifacts \/ ShowHead \/ PushPart \/ Commit
    <3>1. phase # "chunk" /\ UNCHANGED <<file, chunk>>
      BY <2>6 DEF store_block_artifacts_epilogue, Irreversible, Append, CreateArtifacts, ShowHead,
         PushPart, Commit, disk
    <3> QED  BY <1>2, <2>0, <2>1, <3>1, ChunksKept
  <2> QED  BY <1>9, <2>2, <2>3, <2>4, <2>5, <2>6 DEF Appending
<1> QED  BY <1>3, <1>4, <1>5, <1>6, <1>7, <1>8, <1>9 DEF Next, Appending, Reading

\* A start after an orderly close, not a forced replay: the newest part ends at
\* the committed block, so no part below the configured ones is opened.
LEMMA OrderlyStart ==
  ASSUME RInv, orderly, Starting
  PROVE  /\ ~torn /\ lib <= base /\ phase # "generate" /\ mode # "force"
         /\ top \in Part /\ Topmost(top) /\ FileHead(top) = base
         /\ part \in Part /\ part <= top /\ top - Split <= part
         /\ art[part].at = 0 /\ (FileHead(part) = 0 \/ FileHead(part) <= art[part].head)
<1> USE DEF RInv, IInv
<1>1. ~Serving /\ phase # "down"
  BY DEF Serving, Starting
<1>2. ~torn /\ lib <= base /\ phase # "generate" /\ mode # "force"
  BY <1>1, Zenon DEF OrderlyOK
<1>3. \A t \in Part : Topmost(t) => Settled(t)
  BY <1>1 DEF OrderlyOK
<1>4. Topmost(top) /\ part \in 1 .. top /\ Needed(mode, top) <= part
  BY DEF StartingOK
<1>5. top \in Part /\ top \in Nat /\ Split \in Nat
  BY <1>4, NewestFile, PartsOfBlocks, BlockLogAssumption
<1>6. Settled(top)
  BY <1>3, <1>4, <1>5
<1>7. Needed(mode, top) >= top - Split /\ Needed(mode, top) \in Nat
  <2>1. CASE top <= Split
    BY <1>5, <2>1, NeededPart
  <2>2. CASE ~(top <= Split)
    <3> DEFINE b == IF mode = "replay" /\ base # 0 THEN get_part_number_for_block(base) ELSE top
    <3>1. b = top
      <4>1. CASE base # 0
        <5>1. file[top] > 0
          BY <1>6, <4>1 DEF Settled, FileHead
        <5>2. get_part_number_for_block(FileHead(top)) = top
          <6>1. PICK t \in Part : t = top
            BY <1>5
          <6>2. get_part_number_for_block(FileHead(t)) = t
            BY <5>1, <6>1, FileHeads
          <6> QED  BY <6>1, <6>2
        <5> QED  BY <1>6, <5>2 DEF Settled
      <4>2. CASE base = 0
        BY <4>2
      <4> QED  BY <4>1, <4>2
    <3>2. Needed(mode, top) = Min({top - Split, b})
      BY <1>2, <2>2 DEF Needed
    <3> HIDE DEF b
    <3>3. Min({top - Split, b}) = IF top - Split <= b THEN top - Split ELSE b
      BY <1>5, <3>1, MinOfTwo
    <3> QED  BY <1>5, <2>2, <3>1, <3>2, <3>3
  <2> QED  BY <2>1, <2>2
<1>8. part \in Part /\ part <= top /\ top - Split <= part
  BY <1>4, <1>5, <1>7, PartsOfBlocks
<1>9. art[part].at = 0 /\ (FileHead(part) = 0 \/ FileHead(part) <= art[part].head)
  BY <1>6, <1>8 DEF Settled
<1> QED  BY <1>2, <1>4, <1>5, <1>6, <1>8, <1>9 DEF Settled

\* What an orderly state says of the files does not change with the phase.
LEMMA OrderlyKept ==
  ASSUME RInv, orderly, ~Serving, UNCHANGED <<file, lib, base>>, torn' = torn,
         phase' # "generate", phase' = "down" \/ mode' # "force",
         \A p \in Part : art'[p] = art[p] \/ (art[p] = NoArt /\ art'[p] = NoHeader)
  PROVE  OrderlyOK'
<1>1. ~torn /\ lib <= base /\ \A t \in Part : Topmost(t) => Settled(t)
  BY Zenon DEF RInv, OrderlyOK
<1>2. ~torn' /\ lib' <= base'
  BY <1>1, Zenon
<1>3. Files' = Files /\ \A p \in Part : FileHead(p)' = FileHead(p) /\ FileHead(p) \in Nat
  BY SameFiles, HeaderFacts DEF RInv
<1>4. ASSUME NEW t \in Part, Topmost(t)' PROVE Settled(t)'
  <2>1. Settled(t)
    BY <1>1, <1>3, <1>4 DEF Topmost
  <2>2. ASSUME NEW p \in Part, t - Split <= p, p <= t
        PROVE  art'[p].at = 0 /\ (FileHead(p)' = 0 \/ FileHead(p)' <= art'[p].head)
    <3>1. art[p].at = 0 /\ (FileHead(p) = 0 \/ FileHead(p) <= art[p].head)
      BY <2>1, <2>2 DEF Settled
    <3>2. CASE art'[p] = art[p]
      BY <1>3, <3>1, <3>2
    <3>3. CASE art[p] = NoArt /\ art'[p] = NoHeader
      <4>1. FileHead(p) = 0
        BY <1>3, <3>1, <3>3 DEF NoArt
      <4> QED  BY <1>3, <3>3, <4>1 DEF NoHeader
    <3> QED  BY <3>2, <3>3
  <2> QED  BY <1>3, <2>1, <2>2 DEF Settled
<1> QED  BY <1>2, <1>4, Zenon DEF OrderlyOK

\* A refused start writes the headers it read.
LEMMA RefuseOrderly == ASSUME RInv, orderly, Starting, Refuse PROVE OrderlyOK'
<1>1. /\ UNCHANGED <<file, lib, base>> /\ art' = Flushed(hdr) /\ phase' = "down" /\ ~Serving
  BY DEF Refuse, Closed, Serving, Starting
<1>2. torn' = torn
  BY Zenon DEF Refuse
<1>3. garbage = {} /\ \A p \in logs : art[p] = hdr[p]
  BY DEF RInv, IInv, StartingOK, HeadersOK
<1>4. \A p \in Part : art'[p] = art[p]
  BY <1>1, <1>3 DEF Flushed
<1> QED  BY <1>1, <1>2, <1>4, OrderlyKept

\* An orderly close leaves what a plain start needs.
LEMMA CloseOrderly == ASSUME RInv, Close, orderly' PROVE OrderlyOK'
<1> USE DEF RInv, IInv
<1>1. /\ art' = [p \in Part |-> IF p \in garbage THEN NoArt ELSE Flushed(hdr)[p]]
      /\ file' = [p \in Part |-> IF p \in garbage THEN NoFile ELSE file[p]]
      /\ UNCHANGED <<lib, base>> /\ phase = "run" /\ phase' = "down"
  BY DEF Close, Closed
<1>2. torn' = torn
  BY Zenon DEF Close
<1>3. lib <= base /\ ~short
  BY Zenon DEF Close
<1>4. Serving /\ ~Writing
  BY <1>1 DEF Serving, Writing
<1>5. ~torn' /\ lib' <= base'
  BY <1>1, <1>2, <1>3, <1>4, Zenon DEF TornOK
<1>6. Topmost(top) /\ head[top] = FileHead(top) /\ base = head[top]
  BY <1>1, <1>3, <1>4 DEF ServingOK
<1>7. /\ top \in Part /\ top \in Nat /\ Split \in Nat /\ PartSize \in Nat
      /\ logs \subseteq Part /\ garbage \subseteq Part
  BY <1>4, ServingFacts, BlockLogAssumption
<1>8. ASSUME NEW p \in Part, top - Split <= p, p <= top
      PROVE  /\ p \in logs /\ p \notin garbage /\ art'[p] = hdr[p] /\ FileHead(p)' = FileHead(p)
             /\ hdr[p].at = 0 /\ (FileHead(p) = 0 \/ FileHead(p) <= hdr[p].head)
  <2>1. p \in logs
    BY <1>4, <1>8 DEF ServingOK
  <2>2. p \notin garbage
    BY <2>1 DEF GarbageOK
  <2>3. art'[p] = hdr[p] /\ FileHead(p)' = FileHead(p)
    BY <1>1, <2>1, <2>2 DEF Flushed, FileHead
  <2>4. hdr[p].at = 0 /\ head[p] <= hdr[p].head
    BY <1>4, <2>1 DEF HeadersOK, Kept
  <2>5. FileHead(p) = 0 \/ FileHead(p) <= head[p]
    <3>1. p < top => head[p] = First(p) + PartSize - 1
      BY <1>4, <2>1 DEF ServingOK
    <3>2. /\ FileHead(p) \in Nat /\ First(p) \in Nat /\ p \in Nat
          /\ FileHead(p) > 0 => FileHead(p) < First(p) + PartSize
      BY HeaderFacts
    <3>3. CASE p = top
      BY <1>6, <3>2, <3>3
    <3>4. CASE p # top
      BY <1>7, <1>8, <3>1, <3>2, <3>4
    <3> QED  BY <3>3, <3>4
  <2>6. head[p] \in Int /\ hdr[p].head \in Int /\ FileHead(p) \in Int
    BY HeaderFacts, TypeParts, BlockLogAssumption DEF ProcessTypeOK
  <2> QED  BY <2>1, <2>2, <2>3, <2>4, <2>5, <2>6
<1>9. Files' = Files \ garbage
  BY <1>1 DEF Files
<1>10. PICK u \in Part : u = top
  BY <1>7
<1>11. u \in Files' /\ \A p \in Files' : p <= u
  <2>1. u \notin garbage
    BY <1>7, <1>8, <1>10
  <2> QED  BY <1>6, <1>9, <1>10, <2>1 DEF Topmost
<1>12. ASSUME NEW t \in Part, Topmost(t)' PROVE Settled(t)'
  <2>1. t \in Files' /\ \A p \in Files' : p <= t
    BY <1>12 DEF Topmost
  <2>2. t = u
    BY <1>11, <2>1, PartsOfBlocks
  <2>3. FileHead(t)' = base'
    BY <1>1, <1>6, <1>7, <1>8, <1>10, <2>2
  <2>4. \A p \in Part : t - Split <= p /\ p <= t =>
          art'[p].at = 0 /\ (FileHead(p)' = 0 \/ FileHead(p)' <= art'[p].head)
    BY <1>8, <1>10, <2>2
  <2> QED  BY <2>3, <2>4 DEF Settled
<1> QED  BY <1>1, <1>5, <1>12, Zenon DEF OrderlyOK

\* After an orderly close nothing is left for an index to do.
LEMMA IndexOrderly ==
  ASSUME RInv, orderly, Index
  PROVE  /\ phase = "index" /\ phase' \in {"open", "load"}
         /\ UNCHANGED <<disk, lib, base, mode, history>>
<1>1. phase = "index"
  BY DEF Index
<1>2. Starting
  BY <1>1 DEF Starting
<1>3. /\ art[part].at = 0 /\ (FileHead(part) = 0 \/ FileHead(part) <= art[part].head)
      /\ part \in Part
  BY <1>2, OrderlyStart
<1>4. art[part] = hdr[part] /\ hdr[part].head \in Nat /\ FileHead(part) \in Nat
  BY <1>1, <1>3, PartOpen, HeaderFacts DEF RInv
<1>5. hdr[part].at = 0 /\ ~(FileHead(part) > hdr[part].head)
  BY <1>3, <1>4
<1>6. phase' \in {"open", "load"}
  BY <1>5 DEF Index
<1>7. UNCHANGED <<disk, lib, base, mode, history>>
  BY <1>5, Zenon DEF Index
<1> QED  BY <1>1, <1>6, <1>7

\* Every step keeps OrderlyOK.
LEMMA OrderlyStep == ASSUME RInv, Next PROVE OrderlyOK'
<1> SUFFICES ASSUME orderly', ~Serving' PROVE OrderlyOK'
  BY DEF OrderlyOK
<1> USE DEF RInv
<1>1. ASSUME Kill \/ Interrupt PROVE FALSE
  BY <1>1, Zenon DEF Kill, Interrupt
<1>2. ASSUME Close PROVE OrderlyOK'
  BY <1>2, CloseOrderly
<1>3. ASSUME OpenPart PROVE OrderlyOK'
  <2>1. orderly
    BY <1>3, Zenon DEF OpenPart, Refuse, history
  <2>2. phase = "open" /\ Starting
    BY <1>3 DEF OpenPart, Starting
  <2>3. CASE Refuse
    BY <2>1, <2>2, <2>3, RefuseOrderly
  <2>4. CASE ~Refuse
    <3>1. /\ UNCHANGED <<file, lib, base, mode>> /\ phase' = "index"
          /\ art' = [art EXCEPT ![part] = IF art[part] = NoArt THEN NoHeader ELSE art[part]]
      BY <1>3, <2>4 DEF OpenPart
    <3>2. torn' = torn
      BY <1>3, <2>4, Zenon DEF OpenPart
    <3>3. art \in [Part -> Header]
      BY HeaderFacts
    <3>4. \A p \in Part : art'[p] = art[p] \/ (art[p] = NoArt /\ art'[p] = NoHeader)
      BY <3>1, <3>3
    <3>5. mode' # "force" /\ phase' # "generate" /\ ~Serving
      BY <2>1, <2>2, <3>1, OrderlyStart DEF Serving
    <3> QED  BY <2>1, <3>1, <3>2, <3>4, <3>5, OrderlyKept
  <2> QED  BY <2>3, <2>4
<1>4. ASSUME Index PROVE OrderlyOK'
  <2>1. orderly
    <3>1. orderly' = orderly
      BY <1>4, Zenon DEF Index, Refuse, Abort, history
    <3> QED  BY <3>1, Zenon
  <2>2. phase = "index" /\ phase' \in {"open", "load"} /\ UNCHANGED <<disk, lib, base, mode, history>>
    BY <1>4, <2>1, IndexOrderly
  <2>3. Starting /\ ~Serving
    BY <2>2 DEF Starting, Serving
  <2>4. mode' # "force" /\ phase' # "generate" /\ UNCHANGED <<file, art>>
    BY <2>1, <2>2, <2>3, OrderlyStart DEF disk
  <2>5. torn' = torn
    BY <2>2, Zenon DEF disk
  <2> QED  BY <2>1, <2>2, <2>3, <2>4, <2>5, OrderlyKept
<1>5. ASSUME NEW b, GenerateChunk(b) PROVE FALSE
  <2>1. orderly
    BY <1>5, Zenon DEF GenerateChunk, history
  <2>2. phase = "generate" /\ Starting
    BY <1>5 DEF GenerateChunk, Starting
  <2> QED  BY <2>1, <2>2, OrderlyStart
<1>6. ASSUME Load PROVE OrderlyOK'
  <2>1. CASE Refuse
    <3>1. orderly
      BY <2>1, Zenon DEF Refuse
    <3>2. Starting
      BY <1>6 DEF Load, Starting
    <3> QED  BY <2>1, <3>1, <3>2, RefuseOrderly
  <2>2. CASE ~Refuse
    BY <1>6, <2>2 DEF Load, Serving
  <2> QED  BY <2>1, <2>2
<1>7. ASSUME NEW m \in {"normal", "replay", "force"}, Start(m) PROVE OrderlyOK'
  <2>1. orderly /\ m # "force"
    BY <1>7, Zenon DEF Start
  <2>2. /\ phase = "down" /\ phase' \in {"down", "open"} /\ mode' = m
        /\ UNCHANGED <<art, lib, base>>
        /\ file' = IF Files = {} THEN [file EXCEPT ![1] = 0] ELSE file
    BY <1>7, <2>1 DEF Start
  <2>3. torn' = torn
    BY <1>7, Zenon DEF Start
  <2>4. ~Serving
    BY <2>2 DEF Serving
  <2>5. CASE Files # {}
    <3>1. mode' # "force" /\ phase' # "generate" /\ UNCHANGED <<file, lib, base, art>>
      BY <2>1, <2>2, <2>5
    <3> QED  BY <2>1, <2>3, <2>4, <3>1, OrderlyKept
  <2>6. CASE Files = {}
    <3>1. ~torn /\ lib <= base
      BY <2>1, <2>4, Zenon DEF OrderlyOK
    <3>2. ~torn' /\ lib' <= base' /\ phase' # "generate" /\ mode' # "force"
      BY <2>1, <2>2, <2>3, <3>1, Zenon
    <3>3. base = 0 /\ \A p \in Part : file[p] = NoFile /\ art[p] = NoArt
      BY <2>6 DEF IInv, FilesOK, ArtifactsOK, Files
    <3>4. file \in [Part -> -1 .. PartSize]
      BY TypeParts DEF IInv, DiskTypeOK
    <3>5. \A p \in Part : FileHead(p)' = 0
      BY <2>2, <2>6, <3>3, <3>4 DEF FileHead, NoFile
    <3>6. \A p \in Part : art'[p].at = 0
      BY <2>2, <3>3 DEF NoArt
    <3>7. \A t \in Part : Settled(t)'
      BY <2>2, <3>3, <3>5, <3>6 DEF Settled
    <3> QED  BY <3>2, <3>7, Zenon DEF OrderlyOK
  <2> QED  BY <2>5, <2>6
<1> QED  BY <1>1, <1>2, <1>3, <1>4, <1>5, <1>6, <1>7, StaysUp DEF Next, Appending, Reading

\* RInv holds in every state.
THEOREM RestartInvariant == Spec => []RInv
<1>1. Init => RInv
  BY InitInv, RestartInit DEF RInv
<1>2. RInv /\ IInv' /\ [Next]_vars => RInv'
  <2> SUFFICES ASSUME RInv, IInv', [Next]_vars PROVE RInv'
    OBVIOUS
  <2>1. CASE Next
    BY <2>1, TornStep, MissingStep, OrderlyStep DEF RInv
  <2>2. CASE UNCHANGED vars
    <3>1. UNCHANGED <<file, torn, art, chunk, lib, base, phase, mode, part, logs, top, orderly>>
      BY <2>2, Zenon DEF vars, disk, process, history
    <3>2. TornOK' /\ MissingOK' /\ OrderlyOK'
      BY <3>1, Zenon DEF RInv, TornOK, MissingOK, OrderlyOK, Missing, Settled, Topmost, Files,
         Starting, Serving, FileHead
    <3> QED  BY <3>2 DEF RInv
  <2> QED  BY <2>1, <2>2
<1> QED  BY <1>1, <1>2, BlockLogInvariant, PTL DEF Spec

\* CleanRestart: after an orderly close and no kill since, a plain start is not
\* refused, neither for a missing part, nor by the sanity checks of the log and
\* of its artifacts, nor by check_data_consistency.
THEOREM RestartTheorem == Spec => CleanRestart
<1>1. ASSUME RInv, [Next]_vars
      PROVE  [orderly /\ mode' = "normal" => ~(refused' /\ ~refused)]_vars
  <2> SUFFICES ASSUME Next, orderly, mode' = "normal", refused', ~refused PROVE FALSE
    BY <1>1, Zenon
  <2> USE <1>1 DEF RInv
  <2>0. /\ MaxBlock \in Nat /\ PartSize \in Nat \ {0} /\ Split \in Nat \ {0} /\ Sample \in Nat
    BY BlockLogAssumption
  <2>1. ASSUME refused' = refused PROVE FALSE
    BY <2>1, Zenon
  <2>2. ASSUME Kill \/ Close \/ Interrupt PROVE FALSE
    BY <2>1, <2>2, Zenon DEF Kill, Close, Interrupt
  <2>3. ASSUME OpenPart PROVE FALSE
    <3> DEFINE a == IF art[part] = NoArt THEN NoHeader ELSE art[part]
    <3>1. phase = "open" /\ Starting
      BY <2>3 DEF OpenPart, Starting
    <3>2. /\ ~torn /\ top \in Part /\ Topmost(top) /\ FileHead(top) = base
          /\ part \in Part /\ part <= top /\ art[part].at = 0
      BY <3>1, OrderlyStart
    <3>3. a.at = 0 /\ a.head \in Int /\ (a.head > 0 => a.head <= FileHead(part))
      <4>1. art[part].head \in Int /\ art[part].head <= FileHead(part)
        BY <3>2, HeaderFacts DEF IInv, ArtifactsOK, WellFormed
      <4> QED  BY <3>2, <4>1 DEF NoHeader
    <3> HIDE DEF a
    <3>4. Verified(part, a)
      <4> SUFFICES ASSUME ~(a.head < Sample + 1)
                   PROVE  LET first == a.head - 1
                              last == Max({first - Sample, First(part)})
                          IN  a.at < last
                              /\ \A n \in (last + 1) .. first : {n, n + 1} \subseteq chunk
        BY DEF Verified
      <4> DEFINE f == a.head - 1
                 l == Max({f - Sample, First(part)})
      <4>1. PICK q \in Part : q = part
        BY <3>2
      <4>2. /\ First(q) \in Nat /\ First(q) >= 1 /\ FileHead(q) \in Nat /\ q \in Nat
            /\ FileHead(q) < First(q) + PartSize \/ FileHead(q) = 0
        BY HeaderFacts
      <4>3. f \in Int /\ l = IF f - Sample >= First(q) THEN f - Sample ELSE First(q)
        BY <2>0, <3>3, <4>1, <4>2, MaxOfTwo
      <4> HIDE DEF f, l
      <4>4. l \in Int /\ l >= First(q) /\ a.at < l
        BY <2>0, <3>3, <4>2, <4>3
      <4>5. ASSUME NEW n \in Int, First(q) < n, n <= FileHead(q) PROVE n \in chunk
        <5>1. FileHead(q) <= base /\ FileHead(q) \in 0 .. MaxBlock
          <6>1. PICK t \in Part : t = top
            BY <3>2
          <6>2. /\ First(t) \in Nat /\ FileHead(t) \in Nat /\ t \in Nat
                /\ FileHead(t) > 0 => First(t) <= FileHead(t)
            BY HeaderFacts
          <6>3. CASE q = t
            BY <3>2, <6>1, <6>2, <6>3, FileHeads DEF IInv
          <6>4. CASE q # t
            <7>1. First(q) + PartSize <= First(t)
              BY <3>2, <4>1, <4>2, <6>1, <6>2, <6>4, PartBounds
            <7>2. FileHead(t) > 0
              <8>1. base = 0 /\ t > 1 => file[t] > 0
                BY <3>2, <6>1 DEF IInv, FilesOK
              <8>2. file[t] > 0 => FileHead(t) > 0
                <9>1. file[t] \in -1 .. PartSize /\ First(t) >= 1
                  BY FileHeads, HeaderFacts DEF IInv
                <9> QED  BY <2>0, <6>2, <9>1 DEF FileHead
              <8>3. t > 1
                BY <3>2, <4>1, <4>2, <6>1, <6>2, <6>4, PartsOfBlocks
              <8>4. base = FileHead(t)
                BY <3>2, <6>1
              <8> QED  BY <6>2, <8>1, <8>2, <8>3, <8>4
            <7> QED  BY <2>0, <3>2, <4>2, <6>1, <6>2, <7>1, <7>2, FileHeads DEF IInv
          <6> QED  BY <6>3, <6>4
        <5>2. n \in Block /\ base \in Nat
          BY <2>0, <4>2, <4>5, <5>1, TypeParts DEF Block, IInv, DiskTypeOK
        <5>3. ~(base < n)
          BY <4>5, <5>1, <5>2 DEF Block
        <5>4. ~Missing(n)
          BY <5>2, <5>3 DEF MissingOK
        <5> QED  BY <4>5, <5>4 DEF Missing
      <4>6. ASSUME NEW n \in (l + 1) .. f PROVE {n, n + 1} \subseteq chunk
        <5>1. f = a.head - 1 /\ a.head <= FileHead(q)
          BY <2>0, <3>3, <4>1 DEF f
        <5>2. /\ n \in Int /\ First(q) < n /\ n <= FileHead(q)
              /\ n + 1 \in Int /\ First(q) < n + 1 /\ n + 1 <= FileHead(q)
          BY <3>3, <4>2, <4>3, <4>4, <5>1
        <5> QED  BY <4>5, <5>2
      <4> QED  BY <4>4, <4>6 DEF l, f
    <3>5. refused' = refused
      BY <2>3, <3>2, <3>4, Zenon DEF OpenPart, history, a
    <3> QED  BY <2>1, <3>5
  <2>4. ASSUME Index PROVE FALSE
    <3>1. refused' = refused
      BY <2>4, IndexOrderly, Zenon DEF history
    <3> QED  BY <2>1, <3>1
  <2>5. ASSUME Load PROVE FALSE
    <3>1. phase = "load" /\ Starting
      BY <2>5 DEF Load, Starting
    <3>2. lib <= base /\ top \in Part /\ FileHead(top) = base
      BY <3>1, OrderlyStart
    <3>3. top \in logs /\ head[top] = FileHead(top)
      BY <3>1, PartOpen DEF IInv, StartingOK
    <3>4. LogHead = base /\ base \in Nat /\ lib \in Nat
      <4>1. top # 0
        BY <3>2, PartsOfBlocks
      <4> QED  BY <2>0, <3>2, <3>3, <4>1, TypeParts DEF LogHead, IInv, DiskTypeOK
    <3>5. base # 0 => Readable(base)
      <4> SUFFICES ASSUME base # 0 PROVE Readable(base)
        OBVIOUS
      <4>1. PICK t \in Part : t = top
        BY <3>2
      <4>2. file[t] > 0
        BY <3>2, <4>1 DEF FileHead
      <4>3. get_part_number_for_block(base) = top
        BY <3>2, <4>1, <4>2, FileHeads DEF IInv
      <4>4. base = head[top] /\ base <= head[top]
        BY <3>2, <3>3, <3>4
      <4> QED  BY <3>3, <4>3, <4>4 DEF Readable
    <3>6. base >= lib /\ mode' = mode
      BY <2>5, <3>2, <3>4 DEF Load, Refuse
    <3>7. ~refused'
      BY <2>5, <3>4, <3>5, <3>6, Zenon DEF Load
    <3> QED  BY <3>7
  <2>6. ASSUME NEW m \in {"normal", "replay", "force"}, Start(m) PROVE FALSE
    <3> DEFINE found == IF Files = {} THEN {1} ELSE Files
               t == Max(found)
    <3>1. m = "normal" /\ phase = "down"
      BY <2>6 DEF Start
    <3>2. t \in Part /\ t \in found /\ (Files # {} => Topmost(t))
      <4>1. CASE Files = {}
        <5>1. found = {1} /\ {1} \subseteq 1 .. 1
          BY <4>1
        <5>2. t \in found
          BY <5>1, MaxBounded
        <5> QED  BY <4>1, <5>1, <5>2, PartsOfBlocks
      <4>2. CASE Files # {}
        BY <4>2, NewestFile DEF Topmost
      <4> QED  BY <4>1, <4>2
    <3>3. t \in Nat /\ t >= 1
      BY <3>2, PartsOfBlocks
    <3>4. Needed(m, t) >= t - Split /\ Needed(m, t) \in 1 .. t
      <4>1. Needed(m, t) \in 1 .. t
        BY <3>2, NeededPart DEF IInv
      <4>2. CASE t <= Split
        BY <2>0, <3>3, <4>1, <4>2
      <4>3. CASE ~(t <= Split)
        <5>1. Needed(m, t) = Min({t - Split, t})
          BY <3>1, <4>3 DEF Needed
        <5>2. Min({t - Split, t}) = IF t - Split <= t THEN t - Split ELSE t
          BY <2>0, <3>3, MinOfTwo
        <5> QED  BY <2>0, <3>3, <4>1, <5>1, <5>2
      <4> QED  BY <4>2, <4>3
    <3>5. Needed(m, t) .. t \subseteq found
      <4> SUFFICES ASSUME NEW p \in Needed(m, t) .. t PROVE p \in found
        OBVIOUS
      <4>1. p \in Nat /\ t - Split <= p /\ 1 <= p /\ p <= t
        BY <2>0, <3>3, <3>4
      <4>2. p \in Part
        BY <3>2, <4>1, PartsOfBlocks
      <4>3. CASE Files = {}
        BY <3>2, <3>3, <4>1, <4>3
      <4>4. CASE Files # {}
        BY <3>2, <4>1, <4>2, <4>4 DEF IInv, FilesOK
      <4> QED  BY <4>3, <4>4
    <3>6. refused' = refused
      BY <2>6, <3>5, Zenon DEF Start
    <3> QED  BY <2>1, <3>6
  <2>7. ASSUME NEW b, GenerateChunk(b) PROVE FALSE
    BY <2>1, <2>7, Zenon DEF GenerateChunk, history
  <2>8. ASSUME Appending PROVE FALSE
    <3>1. refused' = refused
      BY <2>8, Zenon DEF Appending, store_block_artifacts_epilogue, Irreversible, Append,
         CreateLogFile, CreateArtifacts, WriteBlock, store_block_artifacts, ShowHead, PushPart,
         Rotate, Commit, history
    <3> QED  BY <2>1, <3>1
  <2>9. ASSUME NEW r \in Readers, Reading(r) PROVE FALSE
    <3>1. refused' = refused
      BY <2>9, StaysUp, Zenon DEF history
    <3> QED  BY <2>1, <3>1
  <2> QED  BY <2>2, <2>3, <2>4, <2>5, <2>6, <2>7, <2>8, <2>9 DEF Next, Appending, Reading
<1> QED  BY <1>1, RestartInvariant, PTL DEF Spec, CleanRestart
==============================================================================
