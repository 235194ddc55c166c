------------------------------ MODULE BlockLog ------------------------------
(***************************************************************************)
(* The irreversible blocks on disk and the state they belong to, across    *)
(* kills and restarts of the node.                                         *)
(*                                                                         *)
(* block_log_wrapper keeps the blocks in part files of PartSize blocks,    *)
(* each with an artifacts file: a header and one chunk per block, by which *)
(* the block is found.  The write thread appends the blocks that became    *)
(* irreversible and then commits the state; API and p2p threads read; a    *)
(* new part makes the oldest one garbage, whose files are removed once     *)
(* nobody uses it.  At start the node opens the parts, generates missing   *)
(* artifacts from the head block downwards, compares the state with the    *)
(* log and possibly replays.                                               *)
(*                                                                         *)
(* Files and shared memory keep what was written when the process dies     *)
(* (no power failure).  A block is one write: a kill may leave a part of   *)
(* it.  A block is its number.                                             *)
(***************************************************************************)
EXTENDS Integers, FiniteSets, FiniteSetsExt

CONSTANTS
  PartSize,    \* BLOCKS_IN_SPLIT_BLOCK_LOG_FILE
  Split,       \* block-log-split: parts kept besides the head part
  Sample,      \* BLOCKS_SAMPLE_AMOUNT
  Readers,     \* threads that read blocks
  MaxBlock,    \* bound: last block
  MaxKills     \* bound: kills of the process

ASSUME BlockLogAssumption ==
  /\ PartSize \in Nat \ {0} /\ Split \in Nat \ {0} /\ Sample \in Nat
  /\ MaxBlock \in Nat \ {0} /\ MaxKills \in Nat

VARIABLES
  file,      \* blocks in the file of a part, NoFile when there is none
  torn,      \* the head part's file ends with a piece of a block
  art,       \* header in the artifacts file of a part, NoArt without file
  chunk,     \* blocks whose chunk is in an artifacts file
  lib,       \* last_irreversible_block_num in shared memory
  base,      \* head block of the committed state in shared memory
  phase,     \* what the main or the write thread does
  part,      \* the part it works on
  mode,      \* how the node was started
  logs,      \* parts with a block_log object in _logs
  top,       \* _logs.size()
  hdr,       \* _header of the parts' objects
  head,      \* my->head of the parts' objects, 0 when null
  gen,       \* artifacts generation: next block
  garbage,   \* _garbage_collection
  reader,    \* a reader's step, block and part
  kills,     \* kills so far
  refused,   \* the last start ended without a running node
  orderly,   \* the node was closed in order, with its state committed
  leaked,    \* old parts a killed process had not removed
  cut,       \* blocks a killed or aborted generation did not reach
  short      \* a replay ended before the head of the log, and the state has not caught up

disk == <<file, torn, art, chunk>>
process == <<part, logs, top, hdr, head, gen, garbage>>
history == <<kills, refused, orderly, leaked, cut, short>>
vars == <<disk, lib, base, phase, mode, process, reader, history>>

NoFile == -1
Block == 1 .. MaxBlock
NoReader == [step |-> "none", num |-> 0, part |-> 0]

------------------------------------------------------------------------------
(* Parts *)

get_part_number_for_block(n) ==
  IF n = 0 THEN 1 ELSE (n + PartSize - 1) \div PartSize
get_number_of_first_block_in_part(p) == 1 + (p - 1) * PartSize
get_number_of_last_block_in_part(p) == p * PartSize

\* Mutant of is_last_number_of_the_file: one block late.
is_last_number_late(n) == n % PartSize = 1
is_last_number_of_the_file(n) == n % PartSize = 0

Part == 1 .. get_part_number_for_block(MaxBlock)
First(p) == get_number_of_first_block_in_part(p)

NoHeader == [head |-> 0, tail |-> 0, at |-> 0]
NoArt == [head |-> -1, tail |-> 0, at |-> 0]

\* read_head: the head block of a part's file.
FileHead(p) == IF file[p] > 0 THEN First(p) + file[p] - 1 ELSE 0
Files == {p \in Part : file[p] # NoFile}

\* head_block_num of the wrapper.
LogHead == IF top = 0 THEN 0 ELSE head[top]
\* The oldest part of an unbroken row below the head part.
TailPart == CHOOSE p \in 1 .. top :
              p .. top \subseteq logs /\ (p = 1 \/ p - 1 \notin logs)
get_actual_tail_block_num == First(TailPart)

\* read_block_by_num finds block n: in memory, or through its chunk and the
\* next one, which gives its size.
Readable(n) ==
  LET p == get_part_number_for_block(n)
  IN  /\ p \in logs
      /\ n <= head[p]
      /\ n = head[p] \/ ({n, n + 1} \subseteq chunk /\ hdr[p].head # n)

------------------------------------------------------------------------------
(* Leaving *)

Closed ==
  /\ phase' = "down"
  /\ part' = 0 /\ logs' = {} /\ top' = 0 /\ gen' = 0 /\ garbage' = {}
  /\ hdr' = [p \in Part |-> NoHeader]
  /\ head' = [p \in Part |-> 0]
  /\ reader' = [r \in Readers |-> NoReader]

\* Mutant of Flushed: headers stay in memory.
FlushedNot(h) == art

\* close: an artifacts file that is open for writing gets its header.
Flushed(h) == [p \in Part |-> IF p \in logs \cup garbage THEN h[p] ELSE art[p]]

\* A start that fails closes what it opened.
Refuse ==
  /\ Closed
  /\ refused' = TRUE
  /\ art' = Flushed(hdr)
  /\ UNCHANGED <<file, torn, chunk, lib, base, mode, kills, orderly, leaked, cut, short>>

\* Killed at a step of its own choosing; in write the block may be torn.
Kill ==
  /\ phase # "down"
  /\ kills < MaxKills
  /\ Closed
  /\ kills' = kills + 1
  /\ orderly' = FALSE
  /\ leaked' = leaked \cup {p \in Files : p < Max(Files) - Split}
  /\ cut' = IF phase = "generate" /\ art[part].at = 0
            THEN cut \cup ((hdr[part].tail .. gen) \ chunk) ELSE cut
  /\ torn' \in {torn, torn \/ phase = "write"}
  /\ UNCHANGED <<file, art, chunk, lib, base, mode, refused, short>>

\* Mutant of Close: the garbage is forgotten.
CloseKeepingGarbage ==
  /\ phase = "run"
  /\ \A r \in Readers : reader[r].step = "none"
  /\ Closed
  /\ art' = Flushed(hdr)
  /\ orderly' = (lib <= base /\ ~short)
  /\ UNCHANGED <<file, torn, chunk, lib, base, mode, kills, refused, leaked, cut, short>>

\* plugin_shutdown, after the threads that read have ended: close_storage.
Close ==
  /\ phase = "run"
  /\ \A r \in Readers : reader[r].step = "none"
  /\ Closed
  /\ art' = [p \in Part |-> IF p \in garbage THEN NoArt ELSE Flushed(hdr)[p]]
  /\ file' = [p \in Part |-> IF p \in garbage THEN NoFile ELSE file[p]]
  /\ chunk' = {n \in chunk : get_part_number_for_block(n) \notin garbage}
  /\ orderly' = (lib <= base /\ ~short)
  /\ UNCHANGED <<torn, lib, base, mode, kills, refused, leaked, cut, short>>

------------------------------------------------------------------------------
(* Starting *)

\* Mutant of Needed: one part short.
NeededShort(m, t) == IF m = "force" \/ t <= Split THEN 1 ELSE t - Split + 1

\* common_open_and_init: the oldest part a start needs.
Needed(m, t) ==
  IF m = "force" \/ t <= Split THEN 1
  ELSE Min({t - Split,
            IF m = "replay" /\ base # 0 THEN get_part_number_for_block(base) ELSE t})

\* pre_open, look_for_part_files and force_parts_exist.  A forced replay
\* wipes the state first; the user does not ask for one while the newest part
\* is empty.
Start(m) ==
  /\ phase = "down"
  /\ m = "force" => Files # {} /\ FileHead(Max(Files)) # 0
  /\ mode' = m
  /\ orderly' = (orderly /\ m # "force")
  /\ lib' = IF m = "force" THEN 0 ELSE lib
  /\ base' = IF m = "force" THEN 0 ELSE base
  /\ LET found == IF Files = {} THEN {1} ELSE Files
         t == Max(found)
     IN  /\ file' = IF Files = {} THEN [file EXCEPT ![1] = 0] ELSE file
         /\ IF Needed(m, t) .. t \subseteq found
            THEN /\ phase' = "open" /\ top' = t /\ part' = Needed(m, t)
                 /\ UNCHANGED refused
            ELSE /\ refused' = TRUE
                 /\ UNCHANGED <<phase, top, part>>
  /\ UNCHANGED <<torn, art, chunk, logs, hdr, head, gen, garbage, reader, kills,
                 leaked, cut, short>>

\* verify_if_blocks_from_block_log_matches_artifacts.
Verified(p, a) ==
  a.head < Sample + 1 \/
    LET first == a.head - 1
        last == Max({first - Sample, First(p)})
    IN  a.at < last /\ \A n \in (last + 1) .. first : {n, n + 1} \subseteq chunk

\* block_log::open, read only: sanity_check of the log file, then the header
\* of the artifacts file, which is created when it is missing.
OpenPart ==
  /\ phase = "open"
  /\ LET a == IF art[part] = NoArt THEN NoHeader ELSE art[part]
     IN  IF (torn /\ part = top) \/ ~Verified(part, a)
         THEN Refuse
         ELSE /\ logs' = logs \cup {part}
              /\ hdr' = [hdr EXCEPT ![part] = a]
              /\ art' = [art EXCEPT ![part] = a]
              /\ head' = [head EXCEPT ![part] = FileHead(part)]
              /\ phase' = "index"
              /\ UNCHANGED <<file, torn, chunk, lib, base, mode, part, top, gen,
                             garbage, reader, history>>

\* generate_artifacts_file with an empty range ends the process: the reader
\* of blocks throws while the writer thread is not joined.
Abort(h) ==
  /\ Closed
  /\ refused' = TRUE
  /\ art' = [art EXCEPT ![part] = h]
  /\ cut' = cut \cup ({h.head} \ chunk)
  /\ UNCHANGED <<file, torn, chunk, lib, base, mode, kills, orderly, leaked, short>>

\* block_log_artifacts::open: an interrupted generation goes on, a log that is
\* longer than its artifacts gets the missing ones.
Index ==
  LET h == hdr[part]
      longer == [head |-> FileHead(part), at |-> 0,
                 tail |-> IF h.head # 0 THEN h.head ELSE First(part)]
      Generate(hh, from) ==
        /\ hdr' = [hdr EXCEPT ![part] = hh]
        /\ art' = [art EXCEPT ![part] = hh]
        /\ gen' = from
        /\ phase' = "generate"
        /\ UNCHANGED <<file, torn, chunk, lib, base, mode, part, logs, top, head,
                       garbage, reader, history>>
  IN  /\ phase = "index"
      /\ \/ h.at # 0 /\ h.at = h.head /\ Refuse
         \/ h.at # 0 /\ h.at # h.head /\ Generate(h, h.at - 1)
         \/ /\ h.at = 0 /\ FileHead(part) > h.head
            /\ IF longer.tail < longer.head
               THEN Generate(longer, longer.head) ELSE Abort(longer)
         \/ /\ h.at = 0 /\ FileHead(part) <= h.head
            /\ IF part = top
               THEN phase' = "load" /\ UNCHANGED part
               ELSE phase' = "open" /\ part' = part + 1
            /\ UNCHANGED <<disk, lib, base, mode, logs, top, hdr, head, gen,
                           garbage, reader, history>>

\* The artifacts writer stores the next chunk, downwards, and now and then
\* notes in the header how far it is.
GenerateChunk(note) ==
  LET done == gen = hdr[part].tail
      h == [hdr[part] EXCEPT !.at = IF done THEN 0 ELSE IF note THEN gen ELSE @,
                             !.tail = IF done THEN First(part) ELSE @]
  IN  /\ phase = "generate"
      /\ chunk' = chunk \cup {gen}
      /\ hdr' = [hdr EXCEPT ![part] = h]
      /\ art' = IF done \/ note THEN [art EXCEPT ![part] = h] ELSE art
      /\ gen' = IF done THEN 0 ELSE gen - 1
      /\ phase' = IF done THEN "index" ELSE "generate"
      /\ UNCHANGED <<file, torn, lib, base, mode, part, logs, top, head, garbage,
                     reader, history>>

\* The user interrupts the generation; the node closes in order.
Interrupt ==
  LET h == [hdr EXCEPT ![part].at = Min({gen + 1, hdr[part].head})]
  IN  /\ phase = "generate"
      /\ Closed
      /\ art' = Flushed(h)
      /\ orderly' = FALSE
      /\ UNCHANGED <<file, torn, chunk, lib, base, mode, kills, refused, leaked,
                     cut, short>>

\* process_blocks from block s: the last block it hands over.
process_blocks(s, e) ==
  IF /\ is_last_number_of_the_file(e - 1)
     /\ get_part_number_for_block(s) < get_part_number_for_block(e)
  THEN e - 1 ELSE e

\* reindex: the last block of the state afterwards.
Reindexed ==
  IF base = LogHead THEN base
  ELSE IF base + 1 = LogHead THEN base + 1 ELSE process_blocks(base + 2, LogHead)

\* database::open (undo_all and load_state_initial_data), then
\* check_data_consistency or reindex, then reopen_for_writing.
Load ==
  LET loads == base >= lib /\ (base # 0 => Readable(base))
      last == IF mode = "normal" THEN base ELSE Reindexed
      fits == IF mode = "normal" THEN LogHead = base
              ELSE LogHead # 0 /\ base <= LogHead
                   /\ \A n \in (base + 1) .. last : Readable(n)
  IN  /\ phase = "load"
      /\ IF ~loads \/ ~fits
         THEN Refuse
         ELSE /\ base' = last
              /\ lib' \in IF last = base THEN {lib} ELSE lib .. last
              /\ phase' = "run"
              /\ refused' = FALSE
              /\ short' = (last < LogHead)
              /\ UNCHANGED <<disk, mode, process, reader, kills, orderly, leaked, cut>>

------------------------------------------------------------------------------
(* Appending *)

Serving == phase \notin {"down", "open", "index", "generate", "load"}

\* Mutant of Irreversible: the state is committed before the blocks are stored.
IrreversibleCommitted(n, fails) ==
  /\ phase = "run"
  /\ n \in lib .. (base + PartSize)
  /\ n > lib \/ lib > LogHead
  /\ lib' = n
  /\ base' = n
  /\ phase' = "append"
  /\ UNCHANGED <<disk, mode, process, reader, history>>

\* update_last_irreversible_block, then migrate_irreversible_state; or the
\* block fails in between, and is undone without the new number.  Fewer
\* blocks are reversible (HIVE_MAX_UNDO_HISTORY) than a part holds.
Irreversible(n, fails) ==
  /\ phase = "run"
  /\ n \in lib .. (base + PartSize)
  /\ n > lib \/ lib > LogHead
  /\ lib' = n
  /\ phase' = IF fails THEN "run" ELSE "append"
  /\ UNCHANGED <<disk, base, mode, process, reader, history>>

\* store_block and internal_append: the next block, in the head part or in a
\* new one; commit after the last.
Append ==
  LET n == LogHead + 1
      new == is_last_number_of_the_file(n - 1) /\ get_part_number_for_block(n) > top
  IN  /\ phase = "append"
      /\ phase' = IF n > lib THEN "commit" ELSE IF new THEN "create" ELSE "write"
      /\ part' = IF n > lib THEN part ELSE IF new THEN get_part_number_for_block(n) ELSE top
      /\ UNCHANGED <<disk, lib, base, mode, logs, top, hdr, head, gen, garbage,
                     reader, history>>

CreateLogFile ==
  /\ phase = "create"
  /\ file' = [file EXCEPT ![part] = 0]
  /\ phase' = "createArtifacts"
  /\ UNCHANGED <<torn, art, chunk, lib, base, mode, process, reader, history>>

CreateArtifacts ==
  /\ phase = "createArtifacts"
  /\ art' = [art EXCEPT ![part] = NoHeader]
  /\ hdr' = [hdr EXCEPT ![part] = NoHeader]
  /\ phase' = "write"
  /\ UNCHANGED <<file, torn, chunk, lib, base, mode, part, logs, top, head, gen,
                 garbage, reader, history>>

\* append_raw writes the block.
WriteBlock ==
  /\ phase = "write"
  /\ file' = [file EXCEPT ![part] = @ + 1]
  /\ phase' = "chunk"
  /\ UNCHANGED <<torn, art, chunk, lib, base, mode, process, reader, history>>

store_block_artifacts ==
  /\ phase = "chunk"
  /\ chunk' = chunk \cup {FileHead(part)}
  /\ hdr' = [hdr EXCEPT ![part].tail = IF @ = 0 THEN First(part) ELSE @]
  /\ phase' = "header"
  /\ UNCHANGED <<file, torn, art, lib, base, mode, part, logs, top, head, gen,
                 garbage, reader, history>>

\* store_block_artifacts_epilogue: the header is written at once at live sync.
store_block_artifacts_epilogue(live) ==
  /\ phase = "header"
  /\ hdr' = [hdr EXCEPT ![part].head = FileHead(part)]
  /\ art' = IF live THEN [art EXCEPT ![part] = hdr'[part]] ELSE art
  /\ phase' = "show"
  /\ UNCHANGED <<file, torn, chunk, lib, base, mode, part, logs, top, head, gen,
                 garbage, reader, history>>

\* block_log::append ends: my->head.
ShowHead ==
  /\ phase = "show"
  /\ head' = [head EXCEPT ![part] = FileHead(part)]
  /\ phase' = IF part > top THEN "push" ELSE "append"
  /\ UNCHANGED <<disk, lib, base, mode, part, logs, top, hdr, gen, garbage,
                 reader, history>>

\* _logs.push_back of the new part.
PushPart ==
  /\ phase = "push"
  /\ logs' = logs \cup {part}
  /\ top' = part
  /\ phase' = IF part - 1 > Split THEN "rotate" ELSE "append"
  /\ UNCHANGED <<disk, lib, base, mode, part, hdr, head, gen, garbage, reader, history>>

InUse(p) == \E r \in Readers : reader[r].part = p

\* Mutant of Rotate: the files of the oldest part are removed at once.
RotateAtOnce ==
  LET old == part - 1 - Split
  IN  /\ phase = "rotate"
      /\ logs' = logs \ {old}
      /\ file' = [file EXCEPT ![old] = NoFile]
      /\ art' = [art EXCEPT ![old] = NoArt]
      /\ phase' = "append"
      /\ UNCHANGED <<torn, chunk, lib, base, mode, part, top, hdr, head, gen, garbage,
                     reader, history>>

\* The oldest part leaves _logs; dispose_garbage removes the files of garbage
\* nobody uses, the part that just left not among them: internal_append
\* itself still holds it.
Rotate ==
  LET old == part - 1 - Split
      free == {p \in garbage : ~InUse(p)}
  IN  /\ phase = "rotate"
      /\ logs' = logs \ {old}
      /\ garbage' = (garbage \ free) \cup {old}
      /\ file' = [p \in Part |-> IF p \in free THEN NoFile ELSE file[p]]
      /\ art' = [p \in Part |-> IF p \in free THEN NoArt ELSE art[p]]
      /\ chunk' = {n \in chunk : get_part_number_for_block(n) \notin free}
      /\ phase' = "append"
      /\ UNCHANGED <<torn, lib, base, mode, part, top, hdr, head, gen, reader, history>>

\* commit: the state up to the irreversible block is final.
Commit ==
  /\ phase = "commit"
  /\ base' = Max({base, lib})
  /\ short' = (short /\ base' < LogHead)
  /\ phase' = "run"
  /\ UNCHANGED <<disk, lib, mode, process, reader, kills, refused, orderly, leaked, cut>>

------------------------------------------------------------------------------
(* Reading: get_block_by_number *)

ReadStep(r, from, to) ==
  /\ Serving
  /\ reader[r].step = from
  /\ reader' = [reader EXCEPT ![r] = to]
  /\ UNCHANGED <<disk, lib, base, phase, mode, process, history>>

\* Not beyond the head of the log.
Ask(r, n) == n \in 1 .. LogHead /\
  ReadStep(r, "none", [step |-> "asked", num |-> n, part |-> 0])

\* get_block_log_corresponding_to: the part, or the block has been pruned.
TakePart(r) ==
  LET p == get_part_number_for_block(reader[r].num)
  IN  ReadStep(r, "asked", IF p \in logs THEN [reader[r] EXCEPT !.step = "held", !.part = p]
                           ELSE NoReader)

\* block_log::read_block_by_num: the head block comes from memory.
LookAtHead(r) ==
  ReadStep(r, "held", IF reader[r].num >= head[reader[r].part] THEN NoReader
                      ELSE [reader[r] EXCEPT !.step = "disk"])
ReadDisk(r) == ReadStep(r, "disk", NoReader)

------------------------------------------------------------------------------

Init ==
  /\ file = [p \in Part |-> NoFile] /\ torn = FALSE
  /\ art = [p \in Part |-> NoArt] /\ chunk = {}
  /\ lib = 0 /\ base = 0
  /\ phase = "down" /\ mode = "normal" /\ part = 0
  /\ logs = {} /\ top = 0 /\ gen = 0 /\ garbage = {}
  /\ hdr = [p \in Part |-> NoHeader] /\ head = [p \in Part |-> 0]
  /\ reader = [r \in Readers |-> NoReader]
  /\ kills = 0 /\ refused = FALSE /\ orderly = TRUE
  /\ leaked = {} /\ cut = {} /\ short = FALSE

Next ==
  \/ Kill \/ Close \/ OpenPart \/ Index \/ Interrupt \/ Load
  \/ \E m \in {"normal", "replay", "force"} : Start(m)
  \/ \E b \in BOOLEAN : GenerateChunk(b) \/ store_block_artifacts_epilogue(b)
  \/ \E n \in Block, b \in BOOLEAN : Irreversible(n, b)
  \/ Append \/ CreateLogFile \/ CreateArtifacts \/ WriteBlock \/ store_block_artifacts
  \/ ShowHead \/ PushPart \/ Rotate \/ Commit
  \/ \E r \in Readers : (\E n \in Block : Ask(r, n)) \/ TakePart(r) \/ LookAtHead(r) \/ ReadDisk(r)

Spec == Init /\ [][Next]_vars

------------------------------------------------------------------------------
(* Properties *)

Header == [head : -1 .. MaxBlock, tail : 0 .. MaxBlock, at : 0 .. MaxBlock]

\* The files, what the process knows of them and where each thread is.
TypeOK ==
  /\ file \in [Part -> -1 .. PartSize] /\ torn \in BOOLEAN
  /\ art \in [Part -> Header] /\ chunk \subseteq Block
  /\ lib \in 0 .. MaxBlock /\ base \in 0 .. MaxBlock
  /\ phase \in {"down", "open", "index", "generate", "load", "run", "append", "create",
                "createArtifacts", "write", "chunk", "header", "show", "push", "rotate",
                "commit"}
  /\ mode \in {"normal", "replay", "force"}
  /\ part \in Part \cup {0} /\ logs \subseteq Part /\ top \in Part \cup {0}
  /\ hdr \in [Part -> Header] /\ head \in [Part -> 0 .. MaxBlock]
  /\ gen \in 0 .. MaxBlock /\ garbage \subseteq Part
  /\ reader \in [Readers -> [step : {"none", "asked", "held", "disk"}, num : 0 .. MaxBlock,
                             part : Part \cup {0}]]
  /\ kills \in 0 .. MaxKills /\ refused \in BOOLEAN /\ orderly \in BOOLEAN
  /\ leaked \subseteq Part /\ cut \subseteq Block /\ short \in BOOLEAN

\* A thread that reads a block below the head finds it, whatever the write
\* thread appends, rotates and removes meanwhile: the part's files are there,
\* its head is not below the block it was asked for, and a block to be read
\* from disk has its chunk and the next, unless a generation of artifacts was
\* cut short there.
ReadServed ==
  \A r \in Readers :
    LET n == reader[r].num  p == reader[r].part
    IN  p # 0 =>
          /\ file[p] # NoFile
          /\ n <= head[p]
          /\ reader[r].step = "disk" => hdr[p].head # n /\ {n, n + 1} \subseteq chunk \cup cut

\* Whenever the process is killed, the files hold every block of the committed
\* state, down to the parts the configuration keeps: blocks are stored before
\* the state is committed, and a part is let go only after the new one has a
\* block.
CommittedStored ==
  \A n \in 1 .. base :
    LET p == get_part_number_for_block(n)
    IN  p >= get_part_number_for_block(base) - Split => file[p] >= n - First(p) + 1

\* A node that came up serves the whole row of parts the configuration asks
\* for, each full but the last, and between two requests its state stands at
\* the head of the log (unless a replay ended before it and the state has not
\* caught up), also after a block that failed.
ServesWhole ==
  Serving =>
    /\ \A p \in Max({1, top - Split}) .. top :
         p \in logs /\ (p < top => head[p] = get_number_of_last_block_in_part(p))
    /\ phase = "run" => base = LogHead \/ (short /\ base = LogHead - 1)

\* After the node was closed in order, with no kill since, a plain start
\* succeeds.
CleanRestart == [][orderly /\ mode' = "normal" => ~(refused' /\ ~refused)]_vars

\* After the node was closed in order, only the parts it needs are left on
\* disk, besides garbage of a process that was killed.
NoStrayFiles ==
  phase = "down" /\ orderly =>
    \A p \in Files \ leaked : p >= Max(Files) - Split

\* "Let provided processor walk over provided block range"
\* (block_read_interface.hpp): a replay ends at the head of the log.
ReplayComplete == Serving => ~short
==============================================================================
