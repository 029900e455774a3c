------------------------------ MODULE StableRead ------------------------------
(***************************************************************************)
(* snapshot.py: reading a session file while the agent that owns it        *)
(* appends to it, rewrites it, replaces it or removes it.  An attempt pins *)
(* the directory entry, opens the file, reads it three times through one   *)
(* descriptor, and looks at the descriptor and the entry again in between; *)
(* what it read is handed out only when all of it agrees, and only then    *)
(* charged to the read budget of bounds.py.                                *)
(*                                                                         *)
(* Every system call is a step.  A file is a sequence of chunks, one       *)
(* os.read returns one chunk.                                              *)
(***************************************************************************)
EXTENDS Integers, Sequences, FiniteSets

CONSTANTS
  Contents,     \* what the agent may write: a set of sequences of chunks
  Eof,          \* what a read beyond the end of the file returns
  Modes,        \* the entry points in use, see Mode
  Max,          \* source_read_bytes, in chunks
  HeadLen,      \* head_bytes, stable_head_bytes
  TailLen,      \* tail_bytes
  Attempts,     \* snapshot_attempts
  Ticks,        \* by how much a write moves st_mtime: {1}, or {0, 1} on a coarse clock
  MaxWrites,    \* bound: actions of the agent
  MaxFiles      \* bound: files ever made under the name

(* stable_read_bytes, stable_scan_lines, stable_scan_tail_lines,           *)
(* stable_read_windows with and without require_size_within_max, and       *)
(* snapshot_regular_file.                                                  *)
Mode == {"bytes", "lines", "tail", "windows", "sample", "file"}

Chunks == UNION {{c[i] : i \in DOMAIN c} : c \in Contents}

ASSUME ReadAssumption ==
  /\ Contents # {} /\ \A c \in Contents : c \in Seq(Chunks)
  /\ Eof \notin Chunks
  /\ Modes \subseteq Mode
  /\ Max \in Nat /\ HeadLen \in Nat /\ TailLen \in Nat
  /\ Attempts \in Nat \ {0}
  /\ Ticks \subseteq Nat
  /\ MaxWrites \in Nat /\ MaxFiles \in Nat

VARIABLES
  disk,     \* the files: st_mtime_ns and bytes of each inode
  name,     \* the inode under the basename, 0 when there is none
  writes,   \* actions of the agent so far
  pc,       \* the reader's next system call
  mode,     \* the entry point called
  attempt,  \* 1..Attempts
  entry,    \* before_entry, and before_stat which equals it once open
  pass,     \* the reading under way: 1 data, 2 verified, 3 final
  pos,      \* reads done in this pass
  got,      \* what pass 1 read, by place
  same,     \* everything compared so far agreed
  used,     \* budget.bytes_read
  out,      \* the outcome of the last call
  seen,     \* history: what the name held in this attempt
  dirty     \* history: the agent acted in this attempt, or the name is gone

world == <<disk, name, writes>>
reader == <<pc, mode, attempt, entry, pass, pos, got, same, used, out>>
vars == <<world, reader, seen, dirty>>

Lesser(a, b) == IF a < b THEN a ELSE b
Greater(a, b) == IF a > b THEN a ELSE b

-----------------------------------------------------------------------------
(* What an attempt reads *)

(* _fingerprint *)
Fingerprint(i) ==
  [inode |-> i, size |-> Len(disk[i].data), mtime |-> disk[i].mtime]

(* _target_entry_fingerprint; the modes that retry when it finds no entry  *)
Matches == name = entry.inode /\ Fingerprint(name) = entry

Sampled == {"windows", "sample"}
Retrying == Sampled \cup {"file"}

Left == Max - used
HeadSize == Lesser(entry.size, HeadLen)

(* The window of stable_scan_tail_lines begins after Start chunks.         *)
Start ==
  IF mode # "tail" \/ entry.size <= Left
  THEN 0
  ELSE Greater(HeadSize, entry.size - Greater(0, Left - HeadSize))

(* The end of the file that stable_read_windows takes, without the overlap *)
(* with the head that it cuts off.                                         *)
TailStart == Greater(HeadSize, entry.size - TailLen)

Places(part, from, to) == [i \in 1..(to - from) |-> <<part, from + i>>]
HeadPlaces == Places("head", 0, HeadSize)
Probe == IF Start > 0 THEN <<<<"probe", Start>>>> ELSE << >>

(* The places read one by one before the file is read on to its end.       *)
Fixed ==
  CASE mode = "tail" -> IF pass = 1 THEN Probe \o HeadPlaces ELSE HeadPlaces \o Probe
    [] mode \in Sampled -> HeadPlaces \o Places("tail", TailStart, entry.size)
    [] OTHER -> << >>

Place ==
  IF pos < Len(Fixed)
  THEN Fixed[pos + 1]
  ELSE <<"body", Start + pos - Len(Fixed) + 1>>

At(i, offset) == IF offset <= Len(disk[i].data) THEN disk[i].data[offset] ELSE Eof
Chunk == At(entry.inode, Place[2])

InFixed == pos < Len(Fixed)
Streams == mode \notin Sampled

(* The size test of the loop that reads on to the end of the file; the     *)
(* first reading of stable_scan_lines counts what is already charged.      *)
TooMuch ==
  pos - Len(Fixed) + 1 > IF mode = "lines" /\ pass = 1 THEN Left ELSE Max

(* Two chunks a record may reach across.                                   *)
Joined == UNION {{<<c[i], c[i + 1]>> : i \in 1..(Len(c) - 1)} : c \in Contents}

(* Mutant: the part of the head in the window is charged twice. *)
ChargeForgettingOverlap ==
  CASE mode = "tail" -> entry.size - Start + HeadSize
    [] mode \in Sampled -> Len(Fixed)
    [] OTHER -> entry.size

(* What a call that succeeds charges.                                      *)
Charge ==
  CASE mode = "tail" -> entry.size - Start + Lesser(HeadSize, Start)
    [] mode \in Sampled -> Len(Fixed)
    [] OTHER -> entry.size

-----------------------------------------------------------------------------
(* How a call goes on *)

(* The variables of an attempt, as it starts *)
Forget == got' = << >> /\ pass' = 1 /\ pos' = 0 /\ same' = TRUE

Raise(code) ==
  /\ pc' = "idle"
  /\ out' = code
  /\ Forget
  /\ UNCHANGED <<mode, attempt, entry, used>>

(* The next attempt, or E_SOURCE_BUSY after the last.                      *)
Again ==
  \/ /\ attempt < Attempts
     /\ attempt' = attempt + 1
     /\ pc' = "entry"
     /\ Forget
     /\ UNCHANGED <<mode, entry, used, out>>
  \/ attempt = Attempts /\ Raise("busy")

(* E_SOURCE_BUSY from a helper.                                            *)
Busy == IF mode \in Retrying THEN Again ELSE Raise("busy")

Goto(label) ==
  /\ pc' = label
  /\ UNCHANGED <<mode, attempt, entry, got, used, out>>

-----------------------------------------------------------------------------
(* The reader *)

(* require_regular_no_symlinks, before the attempts *)
Call(m) ==
  /\ pc = "idle"
  /\ mode' = m
  /\ attempt' = 1
  /\ Forget
  /\ IF name = 0
     THEN pc' = "idle" /\ out' = "unsafe" /\ dirty' = TRUE
     ELSE pc' = "entry" /\ out' = "none" /\ UNCHANGED dirty
  /\ UNCHANGED <<world, entry, used, seen>>

Entry ==
  /\ pc = "entry"
  /\ dirty' = (name = 0)
  /\ \/ /\ name = 0
        /\ Busy
        /\ UNCHANGED seen
     \/ /\ name # 0
        /\ entry' = Fingerprint(name)
        /\ seen' = {disk[name].data}
        /\ pc' = "open"
        /\ UNCHANGED <<mode, attempt, pass, pos, got, same, used, out>>
  /\ UNCHANGED world

(* _open_no_follow, fstat and the tests up to the first read *)
Open ==
  /\ pc = "open"
  /\ \/ name = 0 /\ Raise("unsafe")
     \/ name # 0 /\ ~Matches /\ Again
     \/ /\ Matches
        /\ mode \in {"bytes", "lines", "windows", "file"} /\ entry.size > Max
        /\ Raise("limit")
     \/ /\ Matches
        /\ mode \in {"bytes", "lines", "windows", "file"} => entry.size <= Max
        /\ Goto("read")
        /\ UNCHANGED <<pass, pos, same>>
  /\ UNCHANGED <<world, seen, dirty>>

ReadChunk ==
  /\ pc = "read"
  /\ InFixed \/ Streams
  /\ Chunk # Eof \/ Place[1] = "probe"
  /\ InFixed \/ ~TooMuch
  /\ pos' = pos + 1
  /\ IF pass = 1
     THEN /\ got' = [p \in DOMAIN got \cup {Place} |-> IF p = Place THEN Chunk ELSE got[p]]
          /\ UNCHANGED same
     ELSE /\ same' = (same /\ Place \in DOMAIN got /\ got[Place] = Chunk)
          /\ UNCHANGED got
  /\ UNCHANGED <<world, pc, mode, attempt, entry, pass, used, out, seen, dirty>>

(* A record that no version of the file holds may not decode.              *)
ReadTorn ==
  /\ pc = "read" /\ mode = "lines" /\ pass = 1
  /\ pos > 0 /\ Chunk # Eof /\ ~TooMuch
  /\ <<got[<<"body", pos>>], Chunk>> \notin Joined
  /\ Raise("corrupt")
  /\ UNCHANGED <<world, seen, dirty>>

(* The file is longer than a read may be.                                  *)
ReadTooMuch ==
  /\ pc = "read"
  /\ ~InFixed /\ Streams /\ Chunk # Eof /\ TooMuch
  /\ \/ mode \in {"bytes", "lines"} /\ Raise("limit")
     \/ mode = "file" /\ Again
     \/ mode = "tail" /\ Goto("grown") /\ UNCHANGED <<pass, pos, same>>
  /\ UNCHANGED <<world, seen, dirty>>

(* The tail scanner asks whether the file grew, and then tries again.      *)
Grown ==
  /\ pc = "grown"
  /\ IF Fingerprint(entry.inode).size > entry.size THEN Again ELSE Raise("limit")
  /\ UNCHANGED <<world, seen, dirty>>

(* _read_exact_descriptor meets the end of the file.                       *)
ReadShort ==
  /\ pc = "read"
  /\ InFixed /\ Chunk = Eof /\ Place[1] # "probe"
  /\ Busy
  /\ UNCHANGED <<world, seen, dirty>>

(* Mutant: the window is compared with the whole size. *)
CompleteForgettingStart == pos = entry.size

Complete == Start + pos - Len(Fixed) = entry.size

(* The end of a reading.  Only snapshot_regular_file looks at the size of  *)
(* its copy at once.                                                       *)
ReadEnd ==
  /\ pc = "read"
  /\ ~InFixed
  /\ Streams => Chunk = Eof
  /\ IF mode = "file" /\ pass = 1 /\ ~Complete
     THEN Again
     ELSE /\ same' = (same /\ (Streams => Complete))
          /\ IF pass = 1
             THEN pass' = 2 /\ pos' = 0 /\ Goto("read")
             ELSE UNCHANGED <<pass, pos>> /\ Goto("stat")
  /\ UNCHANGED <<world, seen, dirty>>

(* os.fstat of the descriptor *)
Stat ==
  /\ pc = "stat"
  /\ same' = (same /\ Fingerprint(entry.inode) = entry)
  /\ Goto(IF pass = 2 THEN "middle" ELSE "after")
  /\ UNCHANGED <<world, pass, pos, seen, dirty>>

(* Mutant: there is no third reading. *)
MiddleWithoutFinalReading ==
  /\ pc = "middle"
  /\ \/ name = 0 /\ Busy
     \/ /\ name # 0
        /\ same' = (same /\ Matches)
        /\ Goto("after")
        /\ UNCHANGED <<pass, pos>>
  /\ UNCHANGED <<world, seen, dirty>>

Middle ==
  /\ pc = "middle"
  /\ \/ name = 0 /\ Busy
     \/ /\ name # 0
        /\ same' = (same /\ Matches)
        /\ pass' = 3 /\ pos' = 0
        /\ Goto("read")
  /\ UNCHANGED <<world, seen, dirty>>

(* Mutant: the charge is not compared with the limit. *)
AfterWithoutLimit ==
  /\ pc = "after"
  /\ \/ name = 0 /\ Busy
     \/ name # 0 /\ ~(same /\ Matches) /\ Again
     \/ /\ same /\ Matches
        /\ pc' = "idle" /\ out' = "ok" /\ used' = used + Charge
        /\ UNCHANGED <<mode, attempt, entry, pass, pos, got, same>>
  /\ UNCHANGED <<world, seen, dirty>>

(* after_entry, the verdict, and budget.consume_bytes *)
After ==
  /\ pc = "after"
  /\ \/ name = 0 /\ Busy
     \/ name # 0 /\ ~(same /\ Matches) /\ Again
     \/ same /\ Matches /\ used + Charge > Max /\ Raise("limit")
     \/ /\ same /\ Matches /\ used + Charge <= Max
        /\ pc' = "idle"
        /\ out' = "ok"
        /\ used' = used + Charge
        /\ UNCHANGED <<mode, attempt, entry, pass, pos, got, same>>
  /\ UNCHANGED <<world, seen, dirty>>

Read ==
  \/ Entry \/ Open \/ ReadChunk \/ ReadTorn \/ ReadTooMuch \/ Grown
  \/ ReadShort \/ ReadEnd \/ Stat \/ Middle \/ After

-----------------------------------------------------------------------------
(* The agent *)

Acts ==
  /\ writes < MaxWrites
  /\ writes' = writes + 1
  /\ dirty' = TRUE
  /\ UNCHANGED reader

(* Append, truncate or overwrite in place.                                 *)
Write(i, c, t) ==
  /\ Acts
  /\ c # disk[i].data
  /\ disk' = [disk EXCEPT ![i] = [mtime |-> @.mtime + t, data |-> c]]
  /\ seen' = seen \cup (IF i = name THEN {c} ELSE {})
  /\ UNCHANGED name

(* Write a new file and rename it over the name.                           *)
Replace(c) ==
  /\ Acts
  /\ Len(disk) < MaxFiles
  /\ disk' = Append(disk, [mtime |-> 0, data |-> c])
  /\ name' = Len(disk) + 1
  /\ seen' = seen \cup {c}

(* Remove the name, or rename an earlier file back to it.                  *)
Rename(i) ==
  /\ Acts
  /\ i # name
  /\ name' = i
  /\ seen' = seen \cup (IF i = 0 THEN {} ELSE {disk[i].data})
  /\ UNCHANGED disk

Agent ==
  \/ \E i \in DOMAIN disk, c \in Contents, t \in Ticks : Write(i, c, t)
  \/ \E c \in Contents : Replace(c)
  \/ \E i \in 0..Len(disk) : Rename(i)

-----------------------------------------------------------------------------
Init ==
  /\ disk \in {<<[mtime |-> 0, data |-> c]>> : c \in Contents}
  /\ name = 1
  /\ writes = 0
  /\ pc = "idle"
  /\ mode \in Modes
  /\ attempt = 1
  /\ entry = [inode |-> 1, size |-> 0, mtime |-> 0]
  /\ pass = 1 /\ pos = 0 /\ got = << >> /\ same = TRUE
  /\ used = 0
  /\ out = "none"
  /\ seen = {}
  /\ dirty = FALSE

Next == (\E m \in Modes : Call(m)) \/ Read \/ Agent
Spec == Init /\ [][Next]_vars

-----------------------------------------------------------------------------
(* Properties *)

(* The reader's variables hold what they are for.  The budget never        *)
(* exceeds its limit (ReadBudget._consume).                                *)
TypeOK ==
  /\ disk \in Seq([mtime : Nat, data : Contents]) /\ Len(disk) > 0
  /\ name \in 0..Len(disk)
  /\ writes \in 0..MaxWrites
  /\ pc \in {"idle", "entry", "open", "read", "grown", "stat", "middle", "after"}
  /\ mode \in Modes
  /\ attempt \in 1..Attempts
  /\ entry \in [inode : DOMAIN disk, size : Nat, mtime : Nat]
  /\ pass \in 1..3 /\ pos \in Nat
  /\ DOMAIN got \subseteq {"head", "probe", "tail", "body"} \X Nat
  /\ \A p \in DOMAIN got : got[p] \in Chunks \cup {Eof}
  /\ same \in BOOLEAN
  /\ used \in 0..Max
  /\ out \in {"none", "ok", "busy", "unsafe", "limit", "corrupt"}
  /\ seen \subseteq Contents
  /\ dirty \in BOOLEAN

(* What a call returns, head, window and boundary probe together, was in   *)
(* the file at one moment of the attempt that returned it: never a mix of  *)
(* two versions, however the agent rewrites, rotates or restores the file. *)
OneMoment ==
  out = "ok" =>
    \E c \in seen :
      /\ Len(c) = entry.size
      /\ \A p \in DOMAIN got : p[2] \in DOMAIN c /\ got[p] = c[p[2]]

(* An attempt is given up, and a call fails with E_SOURCE_BUSY,            *)
(* E_UNSAFE_PATH or E_CORRUPT_RECORD, only if the agent acted during the   *)
(* attempt: a file left alone is read at once, in every mode.  It is       *)
(* refused for its size only if what the mode has to read does not fit in  *)
(* what is left of the budget; the end-anchored scan shrinks its window    *)
(* instead, down to the head sample.                                       *)
FailureHasCause ==
  [][ /\ \/ attempt' > attempt
         \/ out' # out /\ out' \in {"busy", "unsafe", "corrupt"}
         => dirty'
      /\ out' # out /\ out' = "limit" /\ ~dirty =>
           CASE mode = "tail" -> HeadSize > Left
             [] mode \in Sampled -> Len(Fixed) > Left \/ (mode = "windows" /\ entry.size > Max)
             [] OTHER -> entry.size > Left ]_vars

(* A call charges each chunk it returns once, whether or not head and tail *)
(* overlap, and charges nothing for readings it threw away.                *)
ChargedOnce ==
  [][ used' # used =>
        /\ out' = "ok"
        /\ used' - used = Cardinality({p[2] : p \in {q \in DOMAIN got : q[1] # "probe"}}) ]_vars

-----------------------------------------------------------------------------
(* The instance for TLC: files that share a chunk at one place and differ   *)
(* at the other, one in which head and tail overlap, and one that does not  *)
(* fit.                                                                     *)
MixContents == {<<1>>, <<1, 2>>, <<3, 4>>, <<1, 2, 4>>}
=============================================================================
