----------------------------- MODULE DatabaseCopy -----------------------------
(***************************************************************************)
(* snapshot.py, sqlite_cow.py and sqlite_wal.py: reading an agent's SQLite *)
(* database while the agent commits, checkpoints, restarts its write-ahead *)
(* log, rolls back and replaces the file.  Three ways in:                  *)
(*   family  copy main file and WAL between three equal fingerprints       *)
(*   cow     clone the main file, copy the prefix of the WAL that          *)
(*           validates, accept both twice, and apply the prefix            *)
(*   live    read the main file in place, in one read transaction          *)
(* Each system call on the source is a step.  The agent is SQLite: its     *)
(* locks, its WAL and its journal are modelled from how this code uses     *)
(* them.  A page is its version, the number of the write that made it.     *)
(***************************************************************************)
EXTENDS Integers, Sequences

CONSTANTS
  Paths,        \* the entry points in use
  Attempts,     \* snapshot_attempts
  FamilyMax,    \* sqlite_snapshot_bytes, in pages and frames
  CowMax,       \* sqlite_cow_logical_bytes, in pages
  WalMax,       \* sqlite_wal_frames
  MaxPages,     \* bound: pages of the database
  MaxFrames,    \* bound: frames of a WAL
  MaxWrites     \* bound: steps of the agent

Path == {"family", "cow", "live"}

ASSUME CopyAssumption ==
  /\ Paths \subseteq Path
  /\ Attempts \in Nat \ {0}
  /\ {FamilyMax, CowMax, WalMax, MaxPages, MaxFrames, MaxWrites} \subseteq Nat
  /\ MaxPages >= 2 /\ MaxFrames >= 2      \* for the databases of Init

VARIABLES
  mains,    \* main files by inode: pages, st_mtime, and WAL mode in bytes 18-19
  main,     \* the inode under the database's name
  wals,     \* WAL files by inode: generation (the salts), frames, st_ctime
  wal,      \* the inode under -wal, 0 when there is none
  journal,  \* the pages a rollback journal saves, << >> when there is none
  mx,       \* frames of the current generation up to the last commit
  pending,  \* frames after mx that belong to an open transaction
  alive,    \* the process that made the journal lives and holds its lock
  db,       \* history: the state last committed
  writes,   \* steps of the agent so far
  pc,       \* the reader's next step
  path,     \* the entry point called
  attempt,  \* 1..Attempts
  pin,      \* the main file the reader pinned, with its fingerprint
  pinned,   \* the WAL it pinned, with captured_wal_stat once taken
  gen,      \* the header of that WAL
  at,       \* frames read in this pass, or checks done of LiveChecks
  prefix,   \* the frames validated, WalPrefix
  copy,     \* the private main file
  frames,   \* the private WAL
  late,     \* the deadline has passed
  out,      \* the outcome of the last call
  seen,     \* history: the states committed during this attempt
  dirty     \* history: the agent wrote during this attempt

disk == <<mains, main, wals, wal, journal, mx, pending, alive, db>>
reader == <<pc, path, attempt, pin, pinned, gen, at, prefix, copy, frames, late, out>>
vars == <<disk, writes, reader, seen, dirty>>

-----------------------------------------------------------------------------
(* Files *)

NoFrame == <<0, 0>>
Torn == <<0, 1>>
Id(f) == <<f.page, f.val>>

(* The checksum of a frame covers the frame before it.                     *)
Follows(s, i) == s[i].prev = IF i = 1 THEN NoFrame ELSE Id(s[i - 1])

Fingerprint(i) == [inode |-> i, size |-> Len(mains[i].pages), mtime |-> mains[i].mtime]
WalFingerprint(i) ==
  IF i = 0 THEN [inode |-> 0, size |-> 0, mtime |-> 0]
  ELSE [inode |-> i, size |-> Len(wals[i].frames), mtime |-> wals[i].ctime]

LastCommit(s) == LET C == {i \in DOMAIN s : s[i].size > 0}
                 IN IF C = {} THEN 0 ELSE CHOOSE i \in C : \A j \in C : j <= i

(* materialize_wal_prefix: frames up to the last commit marker, cut to the *)
(* number of pages it declares                                             *)
Apply(pages, s) ==
  LET last == LastCommit(s)
      Newest(p) == {i \in 1..last : s[i].page = p /\
                       \A j \in 1..last : s[j].page = p => j <= i}
  IN IF last = 0 THEN pages
     ELSE [p \in 1..s[last].size |->
             IF Newest(p) = {}
             THEN IF p \in DOMAIN pages THEN pages[p] ELSE 0
             ELSE s[CHOOSE i \in Newest(p) : TRUE].val]

(* What SQLite makes of a WAL it opens: the frames of its generation up to *)
(* the first that does not follow.                                         *)
Valid(w) ==
  LET Good(i) == w.frames[i].gen = w.gen /\ Follows(w.frames, i)
      Stops == {i \in DOMAIN w.frames : ~Good(i)}
  IN IF Stops = {} THEN w.frames
     ELSE SubSeq(w.frames, 1, (CHOOSE i \in Stops : \A j \in Stops : i <= j) - 1)

-----------------------------------------------------------------------------
(* The checks of query_only_live_sqlite, in their order                    *)
LiveChecks == <<"side", "verify", "header", "verify", "side", "verify", "side", "verify",
                "begin", "side", "verify">>
Begin == 9

-----------------------------------------------------------------------------
(* The agent *)

(* The reader's SHARED lock: from the BEGIN of the live path on.            *)
Locked == path = "live" /\ main = pin.inode /\ (out = "ok" \/ at >= Begin)

Acts == writes < MaxWrites /\ writes' = writes + 1 /\ dirty' = TRUE /\ UNCHANGED reader
now == writes + 1
Commit(s) == db' = s /\ seen' = seen \cup {s}
NoCommit == UNCHANGED <<db, seen>>

InWal == mains[main].wal /\ wal # 0
Filled == mains[main].pages = db
Page(p) == [mains EXCEPT ![main].mtime = now,
              ![main].pages = [i \in 1..(IF p > Len(@) THEN p ELSE Len(@)) |->
                                 IF i = p THEN db[p] ELSE @[i]]]

(* A connection in WAL mode makes the file.                                *)
WalCreate ==
  /\ mains[main].wal /\ wal = 0
  /\ wals' = Append(wals, [gen |-> now, frames |-> << >>, ctime |-> now])
  /\ wal' = Len(wals) + 1 /\ mx' = 0 /\ pending' = 0
  /\ NoCommit /\ UNCHANGED <<mains, main, journal, alive>>

Put(f) ==
  LET k == mx + pending + 1
      s == wals[wal].frames
  IN /\ k <= MaxFrames
     /\ wals' = [wals EXCEPT ![wal].ctime = now,
                   ![wal].frames = IF k > Len(s) THEN Append(s, f) ELSE [s EXCEPT ![k] = f]]

Before == LET k == mx + pending IN IF k = 0 THEN NoFrame ELSE Id(wals[wal].frames[k])

(* A frame of an open transaction, or with its size the one that commits.  *)
WalFrame(p, size) ==
  /\ InWal
  /\ LET f == [gen |-> wals[wal].gen, page |-> p, val |-> now, size |-> size, prev |-> Before]
         s == Append(SubSeq(wals[wal].frames, 1, mx + pending), f)
     IN /\ Put(f)
        /\ IF size = 0
           THEN pending' = pending + 1 /\ UNCHANGED mx /\ NoCommit
           ELSE /\ \A q \in Len(db) + 1..size : \E i \in mx + 1..Len(s) : s[i].page = q
                /\ mx' = mx + pending + 1 /\ pending' = 0
                /\ Commit(Apply(mains[main].pages, s))
  /\ UNCHANGED <<mains, main, wal, journal, alive>>

(* Half of a frame over one of an earlier generation.                      *)
WalTear(p) ==
  /\ InWal /\ mx + pending < Len(wals[wal].frames)
  /\ Put([gen |-> wals[wal].gen, page |-> p, val |-> now, size |-> 0, prev |-> Torn])
  /\ NoCommit /\ UNCHANGED <<mains, main, wal, journal, mx, pending, alive>>

(* A rollback, or a crash: the frames stay and will be written over.       *)
WalAbandon ==
  /\ InWal /\ pending > 0
  /\ pending' = 0
  /\ NoCommit /\ UNCHANGED <<mains, main, wals, wal, journal, mx, alive>>

(* A checkpoint moves committed pages into the main file one by one.       *)
Checkpoint(p) ==
  /\ InWal /\ p \in DOMAIN db /\ p <= Len(mains[main].pages) + 1
  /\ p \in DOMAIN mains[main].pages => mains[main].pages[p] # db[p]
  /\ mains' = Page(p)
  /\ NoCommit /\ UNCHANGED <<main, wals, wal, journal, mx, pending, alive>>

CheckpointTruncate ==
  /\ InWal /\ Len(mains[main].pages) > Len(db)
  /\ SubSeq(mains[main].pages, 1, Len(db)) = db
  /\ mains' = [mains EXCEPT ![main].mtime = now, ![main].pages = db]
  /\ NoCommit /\ UNCHANGED <<main, wals, wal, journal, mx, pending, alive>>

(* After a complete checkpoint the next writer starts over in place.       *)
WalRestart ==
  /\ InWal /\ Filled /\ mx > 0 /\ pending = 0
  /\ wals' = [wals EXCEPT ![wal].gen = now, ![wal].ctime = now]
  /\ mx' = 0
  /\ NoCommit /\ UNCHANGED <<mains, main, wal, journal, pending, alive>>

WalTruncate ==
  /\ InWal /\ Filled /\ pending = 0 /\ wals[wal].frames # << >>
  /\ wals' = [wals EXCEPT ![wal].frames = << >>, ![wal].gen = now, ![wal].ctime = now]
  /\ mx' = 0
  /\ NoCommit /\ UNCHANGED <<mains, main, wal, journal, pending, alive>>

(* The last connection closes.                                             *)
WalRemove ==
  /\ InWal /\ Filled /\ pending = 0
  /\ wal' = 0 /\ mx' = 0
  /\ NoCommit /\ UNCHANGED <<mains, main, wals, journal, pending, alive>>

(* Between databases of one file, the file is replaced, or its mode set.   *)
Replace(w) ==
  /\ wal = 0 /\ journal = << >>
  /\ mains' = Append(mains, [pages |-> <<now>>, mtime |-> now, wal |-> w])
  /\ main' = Len(mains) + 1
  /\ Commit(<<now>>)
  /\ UNCHANGED <<wals, wal, journal, mx, pending, alive>>

SetMode ==
  /\ wal = 0 /\ journal = << >> /\ ~Locked
  /\ mains' = [mains EXCEPT ![main].wal = ~@, ![main].mtime = now]
  /\ NoCommit /\ UNCHANGED <<main, wals, wal, journal, mx, pending, alive>>

(* A transaction with a rollback journal.                                  *)
JournalStart ==
  /\ ~mains[main].wal /\ wal = 0 /\ journal = << >>
  /\ journal' = mains[main].pages /\ alive' = TRUE
  /\ NoCommit /\ UNCHANGED <<mains, main, wals, wal, mx, pending>>

JournalWrite(p) ==
  /\ journal # << >> /\ alive /\ ~Locked
  /\ p \in 1..Len(mains[main].pages) + 1 /\ p <= MaxPages
  /\ mains' = [mains EXCEPT ![main].mtime = now,
                 ![main].pages = [i \in 1..(IF p > Len(@) THEN p ELSE Len(@)) |->
                                    IF i = p THEN now ELSE @[i]]]
  /\ NoCommit /\ UNCHANGED <<main, wals, wal, journal, mx, pending, alive>>

JournalCommit ==
  /\ journal # << >> /\ alive /\ ~Locked
  /\ journal' = << >> /\ alive' = FALSE
  /\ Commit(mains[main].pages)
  /\ UNCHANGED <<mains, main, wals, wal, mx, pending>>

JournalCrash ==
  /\ journal # << >> /\ alive
  /\ alive' = FALSE
  /\ NoCommit /\ UNCHANGED <<mains, main, wals, wal, journal, mx, pending>>

(* The next process rolls the hot journal back.                            *)
JournalRecover ==
  /\ journal # << >> /\ ~alive /\ ~Locked
  /\ mains' = [mains EXCEPT ![main].pages = journal, ![main].mtime = now]
  /\ journal' = << >>
  /\ NoCommit /\ UNCHANGED <<main, wals, wal, mx, pending, alive>>

Agent ==
  /\ Acts
  /\ \/ WalCreate \/ WalAbandon \/ CheckpointTruncate
     \/ WalRestart \/ WalTruncate \/ WalRemove
     \/ \E p \in 1..MaxPages : \/ WalTear(p) \/ Checkpoint(p) \/ JournalWrite(p)
                               \/ \E size \in 0..MaxPages : WalFrame(p, size)
     \/ \E w \in BOOLEAN : Replace(w)
     \/ SetMode \/ JournalStart \/ JournalCommit \/ JournalCrash \/ JournalRecover

-----------------------------------------------------------------------------
(* How a call goes on *)

NoPin == [inode |-> 0, size |-> 0, mtime |-> 0]
First == CASE path = "family" -> "before" [] path = "cow" -> "journal" [] OTHER -> "open"

Forget ==
  /\ pin' = NoPin /\ pinned' = WalFingerprint(0) /\ gen' = 0 /\ at' = 0
  /\ prefix' = << >> /\ copy' = << >> /\ frames' = << >>

Raise(code) ==
  /\ pc' = "idle" /\ out' = code
  /\ Forget
  /\ UNCHANGED <<attempt, seen, dirty>>

(* Mutant: one attempt too many. *)
BusyOnceMore ==
  \/ (path = "live" \/ attempt > Attempts) /\ Raise("busy")
  \/ /\ path # "live" /\ attempt <= Attempts
     /\ attempt' = attempt + 1 /\ pc' = First
     /\ Forget
     /\ seen' = {db} /\ dirty' = FALSE
     /\ UNCHANGED out

(* The next attempt, or E_SOURCE_BUSY after the last; the live path has    *)
(* only one.                                                               *)
Busy ==
  \/ (path = "live" \/ attempt = Attempts) /\ Raise("busy")
  \/ /\ path # "live" /\ attempt < Attempts
     /\ attempt' = attempt + 1 /\ pc' = First
     /\ Forget
     /\ seen' = {db} /\ dirty' = FALSE
     /\ UNCHANGED out

Go(label, n) == pc' = label /\ at' = n /\ UNCHANGED <<attempt, out, seen, dirty>>
Goto(label) == Go(label, 0)
Pinned == <<pin, pinned, gen>>
Copies == <<prefix, copy, frames>>

-----------------------------------------------------------------------------
(* _snapshot_sqlite_family_impl *)

(* _family_state: the members one after the other, then the hot journal    *)
(* test                                                                    *)
FamilyBefore ==
  /\ pc = "before"
  /\ CASE at = 0 -> pin' = Fingerprint(main) /\ Go(pc, 1) /\ UNCHANGED <<pinned, gen, Copies>>
       [] at = 1 -> pinned' = WalFingerprint(wal) /\ Go(pc, 2) /\ UNCHANGED <<pin, gen, Copies>>
       [] at = 2 -> IF journal # << >> THEN Raise("hot")
                    ELSE Goto("copyMain") /\ UNCHANGED <<Pinned, Copies>>

(* The two private files; SHM is never copied.                             *)
FamilyCopyMain ==
  /\ pc = "copyMain"
  /\ IF Fingerprint(main) # pin THEN Busy
     ELSE IF pin.size > FamilyMax THEN Raise("limit")
     ELSE /\ copy' = mains[main].pages
          /\ Goto("copyWal") /\ UNCHANGED <<Pinned, prefix, frames>>

FamilyCopyWal ==
  /\ pc = "copyWal"
  /\ IF pinned.inode = 0 THEN Goto("after") /\ UNCHANGED <<Pinned, Copies>>
     ELSE IF wal = 0 THEN Raise("unsafe")
     ELSE IF WalFingerprint(wal) # pinned THEN Busy
     ELSE IF pin.size + pinned.size > FamilyMax THEN Raise("limit")
     ELSE /\ frames' = Valid(wals[wal])
          /\ Goto("after") /\ UNCHANGED <<Pinned, prefix, copy>>

(* after and final, compared with before: a member gone by then is None    *)
(* and differs                                                             *)
FamilyAfter ==
  /\ pc = "after"
  /\ CASE at \in {0, 3} -> IF Fingerprint(main) # pin THEN Busy
                           ELSE Go(pc, at + 1) /\ UNCHANGED <<Pinned, Copies>>
       [] at \in {1, 4} -> IF WalFingerprint(wal) # pinned THEN Busy
                           ELSE Go(pc, at + 1) /\ UNCHANGED <<Pinned, Copies>>
       [] at \in {2, 5} -> IF journal # << >> THEN Busy
                           ELSE IF at = 2 THEN Go(pc, 3) /\ UNCHANGED <<Pinned, Copies>>
                           ELSE Goto("connect") /\ UNCHANGED <<Pinned, Copies>>

(* In _family_state a member may go between lstat and the read, which is   *)
(* E_UNSAFE_PATH at once.  The -shm file is fingerprinted with the others  *)
(* and never copied; it has no state here, so that whenever the agent has  *)
(* acted its fingerprint may differ and it may go like any member.         *)
FamilyLost ==
  /\ pc \in {"before", "after"} /\ dirty
  /\ Busy \/ Raise("unsafe")

(* SQLite recovers the private WAL.                                        *)
FamilyConnect ==
  /\ pc = "connect"
  /\ copy' = Apply(copy, frames)
  /\ pc' = "idle" /\ out' = "ok"
  /\ UNCHANGED <<attempt, Pinned, at, prefix, frames, seen, dirty>>

-----------------------------------------------------------------------------
(* sqlite_cow.py and sqlite_wal.py *)

(* _pin_family *)
CowJournal ==
  /\ pc = "journal"
  /\ IF journal # << >> THEN Raise("hot") ELSE Goto("main") /\ UNCHANGED <<Pinned, Copies>>

CowPinMain ==
  /\ pc = "main"
  /\ pin' = Fingerprint(main)
  /\ Goto("wal") /\ UNCHANGED <<pinned, gen, Copies>>

CowPinWal ==
  /\ pc = "wal"
  /\ IF wal = 0 THEN Raise("liveWal")
     ELSE IF pin.size > CowMax THEN Raise("limit")
     ELSE /\ pinned' = WalFingerprint(wal) /\ gen' = wals[wal].gen
          /\ Goto("clone") /\ UNCHANGED <<pin, Copies>>

(* _clone_main, where the volume can clone; otherwise E_SQLITE_LIVE_WAL    *)
CowClone ==
  /\ pc = "clone"
  /\ \/ Raise("liveWal")
     \/ /\ Len(mains[pin.inode].pages) # pin.size /\ Raise("invariant")
     \/ /\ Len(mains[pin.inode].pages) = pin.size
        /\ copy' = mains[pin.inode].pages
        /\ Goto("header") /\ UNCHANGED <<Pinned, prefix, frames>>

Wal == wals[pinned.inode]

(* The header again, then captured_wal_stat and the physical limits        *)
CowHeader ==
  /\ pc = "header"
  /\ IF Wal.gen # gen THEN Busy ELSE Goto("stat") /\ UNCHANGED <<Pinned, Copies>>

CowStat ==
  /\ pc = "stat"
  /\ IF Len(Wal.frames) > WalMax THEN Raise("limit")
     ELSE /\ pinned' = WalFingerprint(pinned.inode)
          /\ Goto("validate") /\ UNCHANGED <<pin, gen, Copies>>

(* Mutant: frames of the generation before are busy, commit or not. *)
CowValidateWholeFile ==
  /\ pc = "validate"
  /\ LET k == at + 1
         f == Wal.frames[k]
     IN IF at = pinned.size THEN Goto("copy") /\ UNCHANGED <<Pinned, Copies>>
        ELSE IF k > Len(Wal.frames) \/ f.gen # Wal.gen THEN Busy
        ELSE IF f.prev # (IF k = 1 THEN NoFrame ELSE Id(prefix[k - 1])) THEN Busy
        ELSE prefix' = Append(prefix, f) /\ Go(pc, k) /\ UNCHANGED <<Pinned, copy, frames>>

(* validate_wal_prefix, one frame: those of an earlier generation end the  *)
(* prefix once it holds a commit, any other that does not follow is busy.  *)
CowValidate ==
  /\ pc = "validate"
  /\ LET k == at + 1
         f == Wal.frames[k]
     IN IF at = pinned.size THEN Goto("copy") /\ UNCHANGED <<Pinned, Copies>>
        ELSE IF k > Len(Wal.frames) THEN Busy
        ELSE IF f.gen # Wal.gen
             THEN IF LastCommit(prefix) = 0 THEN Busy
                  ELSE Goto("copy") /\ UNCHANGED <<Pinned, Copies>>
        ELSE IF f.prev # (IF k = 1 THEN NoFrame ELSE Id(prefix[k - 1])) THEN Busy
        ELSE prefix' = Append(prefix, f) /\ Go(pc, k) /\ UNCHANGED <<Pinned, copy, frames>>

(* _copy_prefix, and its digest against the one validated                  *)
CowCopy ==
  /\ pc = "copy"
  /\ IF at = Len(prefix)
     THEN IF frames # prefix THEN Busy ELSE Goto("accept") /\ UNCHANGED <<Pinned, Copies>>
     ELSE IF at + 1 > Len(Wal.frames) THEN Busy
     ELSE /\ frames' = Append(frames, Wal.frames[at + 1])
          /\ Go(pc, at + 1) /\ UNCHANGED <<Pinned, prefix, copy>>

(* Mutant: the header and the frames are not read again. *)
AcceptedWithoutContent(k) ==
  CASE k = 1 -> main = pin.inode
    [] k = 2 -> wal = pinned.inode
    [] k = 4 -> /\ Len(Wal.frames) >= Len(prefix)
                /\ Len(Wal.frames) = pinned.size => Wal.ctime = pinned.mtime
    [] k > 5 -> k - 5 <= Len(Wal.frames)
    [] OTHER -> TRUE

(* The checks of _verify_source_acceptance: the entries of main file and   *)
(* WAL, the journal, the size of the WAL, its header, and the prefix again *)
(* frame by frame                                                          *)
Accepted(k) ==
  CASE k = 1 -> main = pin.inode
    [] k = 2 -> wal = pinned.inode
    [] k = 4 -> /\ Len(Wal.frames) >= Len(prefix)
                /\ Len(Wal.frames) = pinned.size => Wal.ctime = pinned.mtime
    [] k = 5 -> Wal.gen = gen
    [] k > 5 -> k - 5 <= Len(Wal.frames) /\ Wal.frames[k - 5] = prefix[k - 5]
    [] OTHER -> TRUE

(* All of it, twice                                                        *)
CowAccept ==
  /\ pc = "accept"
  /\ LET checks == 5 + Len(prefix)
         k == (at % checks) + 1
     IN IF k = 3 /\ journal # << >> THEN Raise("hot")
        ELSE IF ~Accepted(k) THEN Busy
        ELSE IF at + 1 = 2 * checks THEN Goto("apply") /\ UNCHANGED <<Pinned, Copies>>
        ELSE Go(pc, at + 1) /\ UNCHANGED <<Pinned, Copies>>

(* materialize_wal_prefix on the private files, then connect               *)
CowApply ==
  /\ pc = "apply"
  /\ IF LastCommit(frames) > 0 /\ frames[LastCommit(frames)].size > CowMax
     THEN Raise("limit")
     ELSE /\ copy' = Apply(copy, frames)
          /\ pc' = "idle" /\ out' = "ok"
          /\ UNCHANGED <<attempt, Pinned, at, prefix, frames, seen, dirty>>

(* _Deadline.check; the next attempt would end at once                     *)
CowDeadline ==
  /\ path = "cow" /\ pc # "idle" /\ ~late
  /\ late' = TRUE
  /\ Raise("busy")

-----------------------------------------------------------------------------
(* query_only_live_sqlite *)

LiveOpen ==
  /\ pc = "open"
  /\ pin' = Fingerprint(main)
  /\ Goto("live") /\ UNCHANGED <<pinned, gen, Copies>>

(* A transaction that writes the main file holds SQLite's exclusive lock.  *)
Exclusive == journal # << >> /\ alive /\ mains[main].pages # journal

LivePass ==
  IF at = Len(LiveChecks) - 1
  THEN /\ pc' = "idle" /\ out' = "ok" /\ at' = at + 1
       /\ UNCHANGED <<attempt, seen, dirty>>
  ELSE Go(pc, at + 1)

LiveCheck ==
  /\ pc = "live"
  /\ LET check == LiveChecks[at + 1]
     IN CASE check = "side" /\ journal # << >> -> Raise("hot")
          [] check = "side" /\ journal = << >> /\ wal # 0 -> Raise("liveWal")
          [] check = "verify" /\ Fingerprint(main) # pin -> Busy
          [] check = "header" /\ mains[pin.inode].wal -> Raise("liveWal")
          [] check = "begin" /\ main = pin.inode /\ Exclusive -> Raise("locked")
          [] check = "begin" /\ ~(main = pin.inode /\ Exclusive) ->
               copy' = mains[pin.inode].pages /\ LivePass /\ UNCHANGED <<Pinned, prefix, frames>>
          [] OTHER -> LivePass /\ UNCHANGED <<Pinned, Copies>>

-----------------------------------------------------------------------------
Read ==
  /\ UNCHANGED <<disk, writes, path>>
  /\ \/ /\ UNCHANGED late
        /\ \/ FamilyBefore \/ FamilyCopyMain \/ FamilyCopyWal \/ FamilyAfter \/ FamilyLost
           \/ FamilyConnect
           \/ CowJournal \/ CowPinMain \/ CowPinWal \/ CowClone \/ CowHeader \/ CowStat
           \/ CowValidate \/ CowCopy \/ CowAccept \/ CowApply
           \/ LiveOpen \/ LiveCheck
     \/ CowDeadline

File(s, w) == [pages |-> s, mtime |-> 0, wal |-> w]
Frame(g, p, v, n, b) == [gen |-> g, page |-> p, val |-> v, size |-> n, prev |-> b]

(* A database without a WAL, one with a transaction in the WAL of which    *)
(* any part is checkpointed, and one whose WAL was restarted.              *)
Init ==
  /\ main = 1 /\ journal = << >> /\ pending = 0 /\ alive = FALSE
  /\ \/ /\ \E w \in BOOLEAN : mains = <<File(<<-9>>, w)>>
        /\ wals = << >> /\ wal = 0 /\ mx = 0
        /\ db = <<-9>>
     \/ /\ \E a \in {-9, -2}, b \in {-8, -1} : mains = <<File(<<a, b>>, TRUE)>>
        /\ wals = <<[gen |-> 0, ctime |-> 0,
                     frames |-> <<Frame(0, 1, -2, 0, NoFrame), Frame(0, 2, -1, 2, <<1, -2>>)>>]>>
        /\ wal = 1 /\ mx = 2
        /\ db = <<-2, -1>>
     \/ /\ mains = <<File(<<-2, -1>>, TRUE)>>
        /\ wals = <<[gen |-> 0, ctime |-> 0,
                     frames |-> <<Frame(0, 1, -3, 2, NoFrame), Frame(-1, 2, -1, 2, <<1, -2>>)>>]>>
        /\ wal = 1 /\ mx = 1
        /\ db = <<-3, -1>>
  /\ writes = 0
  /\ path \in Paths
  /\ pc = First /\ attempt = 1
  /\ pin = NoPin /\ pinned = WalFingerprint(0) /\ gen = 0 /\ at = 0
  /\ prefix = << >> /\ copy = << >> /\ frames = << >>
  /\ late = FALSE /\ out = "none"
  /\ seen = {db} /\ dirty = FALSE

Next == Agent \/ Read
Spec == Init /\ [][Next]_vars

-----------------------------------------------------------------------------
(* Properties *)

Val == -9..MaxWrites
FrameSet == [gen : -1..MaxWrites, page : 1..MaxPages, val : Val, size : 0..MaxPages,
             prev : (0..MaxPages) \X Val]

(* The files are sequences of pages and frames within the bounds, and the  *)
(* reader is at a step of the path it was called for.                      *)
TypeOK ==
  /\ \A i \in DOMAIN mains : mains[i].pages \in Seq(Val) /\ mains[i].mtime \in 0..MaxWrites
  /\ main \in DOMAIN mains /\ wal \in 0..Len(wals)
  /\ \A i \in DOMAIN wals : wals[i].frames \in Seq(FrameSet) /\ Len(wals[i].frames) <= MaxFrames
  /\ wal # 0 => mx + pending <= Len(wals[wal].frames)
  /\ journal # << >> => wal = 0
  /\ attempt \in 1..Attempts /\ (path = "live" => attempt = 1)
  /\ out \in {"none", "ok", "busy", "hot", "liveWal", "limit", "invariant", "locked",
             "unsafe"}
  /\ out = "none" <=> pc # "idle"
  /\ pin.inode \in 0..Len(mains) /\ pinned.inode \in 0..Len(wals)
  /\ db \in seen

(* What a call hands out is one committed state of the database, one it    *)
(* held during the successful attempt: not a main file of one moment with  *)
(* the WAL of another, not an uncommitted page, and in the live path not   *)
(* one that changes while it is read.                                      *)
OneCommit ==
  out = "ok" => /\ copy \in seen
                /\ path = "live" => mains[pin.inode].pages = copy

(* Frames that keep a WAL nobody touches from being read: half a frame, or *)
(* frames an abandoned transaction left after a shorter one was written    *)
(* over its start, or a restart that nothing was committed after.          *)
Unusable ==
  /\ wal # 0
  /\ LET valid == Valid(wals[wal])
         k == Len(valid) + 1
     IN /\ k <= Len(wals[wal].frames)
        /\ wals[wal].frames[k].gen = wals[wal].gen \/ LastCommit(valid) = 0

(* An attempt is given up, and a call fails as busy, locked, unsafe or on  *)
(* its own checks, only if the agent wrote during the attempt, the         *)
(* deadline passed or the WAL cannot be used.  A connection that only      *)
(* reads also touches -shm; that is not told apart from a write.           *)
FailureHasCause ==
  [][ \/ attempt' > attempt
      \/ out' # out /\ out' \in {"busy", "locked", "invariant", "unsafe"}
      => dirty \/ late' \/ (path = "cow" /\ Unusable) ]_vars
=============================================================================
