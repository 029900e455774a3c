------------------------------- MODULE ReadProofs -----------------------------
(***************************************************************************)
(* The stable read of StableRead is well typed, and what it returns was in *)
(* the file at one moment when every write moves the file's st_mtime: the  *)
(* pinned version is the file's content as long as its time stamp is the   *)
(* pinned one, and once the stamp has moved it never comes back.  A call   *)
(* charges what it returns, each chunk once: the places it reads are those *)
(* of the pinned size.  A file left alone is read at the first attempt.    *)
(***************************************************************************)
EXTENDS StableRead, SequenceTheorems, FiniteSetTheorems, TLAPS

Parts == {"head", "probe", "tail", "body"}
Offset == Nat \ {0}

-----------------------------------------------------------------------------
(* Where an attempt reads *)

LEMMA DiskType ==
    ASSUME TypeOK
    PROVE  /\ Len(disk) \in Nat /\ DOMAIN disk = 1..Len(disk)
           /\ \A i \in DOMAIN disk : disk[i] \in [mtime : Nat, data : Contents]
           /\ \A i \in DOMAIN disk : disk[i].data \in Seq(Chunks)
           /\ \A i \in DOMAIN disk : Fingerprint(i) \in [inode : DOMAIN disk, size : Nat, mtime : Nat]
<1>1. disk \in Seq([mtime : Nat, data : Contents])
  BY DEF TypeOK
<1>2. Len(disk) \in Nat /\ DOMAIN disk = 1..Len(disk)
  BY <1>1, LenProperties
<1>3. \A i \in DOMAIN disk : disk[i] \in [mtime : Nat, data : Contents]
  BY <1>1, <1>2, ElementOfSeq
<1>4. \A c \in Contents : c \in Seq(Chunks)
  BY ReadAssumption
<1>5. \A i \in DOMAIN disk : disk[i].data \in Seq(Chunks)
  BY <1>3, <1>4
<1>6. \A i \in DOMAIN disk : Fingerprint(i) \in [inode : DOMAIN disk, size : Nat, mtime : Nat]
  BY <1>3, <1>5 DEF Fingerprint
<1>7. QED
  BY <1>2, <1>3, <1>5, <1>6

LEMMA StartType ==
    ASSUME TypeOK
    PROVE  /\ HeadSize \in Nat /\ HeadSize <= entry.size
           /\ Start \in Nat /\ Start <= entry.size
           /\ TailStart \in Nat /\ TailStart <= entry.size
           /\ Left \in Nat
<1>1. entry.size \in Nat /\ Max \in Nat /\ HeadLen \in Nat /\ TailLen \in Nat
  BY ReadAssumption DEF TypeOK
<1>2. Left \in Nat
  BY <1>1 DEF TypeOK, Left
<1>3. HeadSize \in Nat /\ HeadSize <= entry.size
  BY <1>1 DEF HeadSize, Lesser
<1>4. TailStart \in Nat /\ TailStart <= entry.size
  BY <1>1, <1>3 DEF TailStart, Greater
<1>5. Start \in Nat /\ Start <= entry.size
  BY <1>1, <1>2, <1>3 DEF Start, Greater
<1>6. QED
  BY <1>2, <1>3, <1>4, <1>5

LEMMA PlacesType ==
    ASSUME NEW part \in Parts, NEW from \in Nat, NEW to \in Nat, from <= to
    PROVE  /\ Places(part, from, to) \in Seq(Parts \X Offset)
           /\ Len(Places(part, from, to)) = to - from
           /\ \A i \in 1..(to - from) : Places(part, from, to)[i] = <<part, from + i>>
<1>1. Places(part, from, to) \in [1..(to - from) -> Parts \X Offset]
  BY DEF Places, Offset
<1>2. to - from \in Nat
  OBVIOUS
<1>3. QED
  BY <1>1, <1>2 DEF Places

(* The probe is the only place at which the end of the file may be read,   *)
(* and it is within the pinned size.                                       *)
LEMMA FixedType ==
    ASSUME TypeOK
    PROVE  /\ Fixed \in Seq(Parts \X Offset)
           /\ \A i \in 1..Len(Fixed) : Fixed[i][1] = "probe" => Fixed[i][2] \in 1..entry.size
<1> DEFINE Good(s) == /\ s \in Seq(Parts \X Offset)
                      /\ \A i \in 1..Len(s) : s[i][1] = "probe" => s[i][2] \in 1..entry.size
<1>0. entry.size \in Nat
  BY DEF TypeOK
<1>a. ASSUME NEW part \in {"head", "tail"}, NEW from \in Nat, NEW to \in Nat, from <= to
      PROVE  Good(Places(part, from, to))
  <2>1. part \in Parts /\ part # "probe" /\ to - from \in Nat
    BY <1>a DEF Parts
  <2>2. /\ Places(part, from, to) \in Seq(Parts \X Offset)
        /\ Len(Places(part, from, to)) = to - from
        /\ \A i \in 1..(to - from) : Places(part, from, to)[i] = <<part, from + i>>
    BY <2>1, <1>a, PlacesType
  <2>3. \A i \in 1..Len(Places(part, from, to)) : Places(part, from, to)[i][1] # "probe"
    BY <2>1, <2>2
  <2>4. QED
    BY <2>2, <2>3
<1>1. Good(HeadPlaces)
  <2>1. 0 \in Nat /\ HeadSize \in Nat /\ 0 <= HeadSize /\ "head" \in {"head", "tail"}
    BY StartType
  <2>2. QED
    BY <2>1, <1>a DEF HeadPlaces
<1>2. Good(Places("tail", TailStart, entry.size))
  BY <1>0, <1>a, StartType
<1>3. Good(Probe)
  <2>1. CASE Start > 0
    <3>1. Probe = <<<<"probe", Start>>>>
      BY <2>1 DEF Probe
    <3>2. <<"probe", Start>> \in Parts \X Offset
      BY <2>1, StartType DEF Parts, Offset
    <3>3. QED
      BY <3>1, <3>2, <2>1, <1>0, StartType
  <2>2. CASE ~(Start > 0)
    BY <2>2 DEF Probe
  <2>3. QED
    BY <2>1, <2>2
<1>4. Good(<< >>)
  OBVIOUS
<1>5. ASSUME NEW s, NEW t, Good(s), Good(t) PROVE Good(s \o t)
  <2>1. /\ s \o t \in Seq(Parts \X Offset)
        /\ Len(s \o t) = Len(s) + Len(t)
        /\ \A i \in 1..Len(s) + Len(t) : (s \o t)[i] = IF i <= Len(s) THEN s[i] ELSE t[i - Len(s)]
    BY <1>5, ConcatProperties
  <2>2. Len(s) \in Nat /\ Len(t) \in Nat
    BY <1>5
  <2>3. ASSUME NEW i \in 1..Len(s \o t), (s \o t)[i][1] = "probe"
        PROVE  (s \o t)[i][2] \in 1..entry.size
    <3>1. CASE i <= Len(s)
      BY <3>1, <2>1, <2>2, <2>3, <1>5
    <3>2. CASE ~(i <= Len(s))
      <4>1. i - Len(s) \in 1..Len(t)
        BY <3>2, <2>1, <2>2
      <4>2. (s \o t)[i] = t[i - Len(s)]
        BY <3>2, <2>1, <2>2
      <4>3. QED
        BY <4>1, <4>2, <2>3, <1>5
    <3>3. QED
      BY <3>1, <3>2
  <2>4. QED
    BY <2>1, <2>3
<1>6. Good(Fixed)
  <2>1. CASE mode = "tail"
    <3>1. Fixed = Probe \o HeadPlaces \/ Fixed = HeadPlaces \o Probe
      BY <2>1 DEF Fixed, Sampled
    <3>2. QED
      BY <3>1, <1>1, <1>3, <1>5
  <2>2. CASE mode \in Sampled
    <3>1. Fixed = HeadPlaces \o Places("tail", TailStart, entry.size)
      BY <2>2 DEF Fixed, Sampled
    <3>2. QED
      BY <3>1, <1>1, <1>2, <1>5
  <2>3. CASE mode # "tail" /\ mode \notin Sampled
    <3>1. Fixed = << >>
      BY <2>3 DEF Fixed
    <3>2. QED
      BY <3>1, <1>4
  <2>4. QED
    BY <2>1, <2>2, <2>3
<1>7. QED
  BY <1>6

LEMMA PlaceType ==
    ASSUME TypeOK
    PROVE  /\ Len(Fixed) \in Nat
           /\ Place \in Parts \X Offset
           /\ Place[1] = "probe" => Place[2] \in 1..entry.size
<1>1. Len(Fixed) \in Nat /\ pos \in Nat
  BY FixedType DEF TypeOK
<1>2. CASE InFixed
  <2>1. pos + 1 \in 1..Len(Fixed) /\ Place = Fixed[pos + 1]
    BY <1>1, <1>2 DEF InFixed, Place
  <2>2. Place \in Parts \X Offset
    BY <2>1, FixedType, ElementOfSeq
  <2>3. QED
    BY <1>1, <2>1, <2>2, FixedType
<1>3. CASE ~InFixed
  BY <1>1, <1>3, StartType DEF InFixed, Place, Parts, Offset
<1>4. QED
  BY <1>2, <1>3

(* A chunk that is not the end of the file is in it. *)
LEMMA ChunkType ==
    ASSUME TypeOK
    PROVE  /\ Chunk \in Chunks \cup {Eof}
           /\ Place[2] \in 1..Len(disk[entry.inode].data) =>
                Chunk = disk[entry.inode].data[Place[2]] /\ Chunk # Eof
<1> DEFINE d == disk[entry.inode].data
<1>1. d \in Seq(Chunks) /\ Len(d) \in Nat /\ Eof \notin Chunks
  BY DiskType, LenProperties, ReadAssumption DEF TypeOK
<1>2. Place[2] \in Nat \ {0}
  BY PlaceType DEF Offset
<1>3. CASE Place[2] <= Len(d)
  <2>1. Place[2] \in 1..Len(d) /\ Chunk = d[Place[2]]
    BY <1>1, <1>2, <1>3 DEF Chunk, At
  <2>2. QED
    BY <1>1, <2>1, ElementOfSeq
<1>4. CASE ~(Place[2] <= Len(d))
  BY <1>1, <1>2, <1>4 DEF Chunk, At
<1>5. QED
  BY <1>3, <1>4

LEMMA ChargeType ==
    ASSUME TypeOK
    PROVE  Charge \in Nat
<1>1. entry.size \in Nat
  BY DEF TypeOK
<1>2. Lesser(HeadSize, Start) \in Nat
  BY StartType DEF Lesser
<1>3. CASE mode = "tail"
  BY <1>1, <1>2, <1>3, StartType DEF Charge, Sampled
<1>4. CASE mode # "tail"
  BY <1>1, <1>4, PlaceType DEF Charge, Sampled
<1>5. QED
  BY <1>3, <1>4

-----------------------------------------------------------------------------
(* Types *)

LEMMA CallTypes ==
    ASSUME TypeOK, NEW code \in {"busy", "unsafe", "limit", "corrupt"},
           UNCHANGED world, UNCHANGED seen, dirty' \in BOOLEAN,
           Raise(code) \/ Again \/ Busy
    PROVE  TypeOK'
<1>1. CASE Raise(code)
  BY <1>1 DEF TypeOK, Raise, Forget, world
<1>2. CASE Raise("busy")
  BY <1>2 DEF TypeOK, Raise, Forget, world
<1>3. CASE Again
  <2>1. CASE /\ attempt < Attempts /\ attempt' = attempt + 1 /\ pc' = "entry"
             /\ Forget /\ UNCHANGED <<mode, entry, used, out>>
    <3>1. attempt' \in 1..Attempts
      BY <2>1, ReadAssumption DEF TypeOK
    <3>2. QED
      BY <2>1, <3>1 DEF TypeOK, Forget, world
  <2>2. QED
    BY <2>1, <1>2, <1>3 DEF Again
<1>4. QED
  BY <1>1, <1>2, <1>3 DEF Busy

LEMMA GotoTypes ==
    ASSUME TypeOK, NEW label \in {"read", "grown", "stat", "middle", "after"},
           Goto(label), UNCHANGED <<world, seen, dirty>>,
           pass' \in 1..3, pos' \in Nat, same' \in BOOLEAN
    PROVE  TypeOK'
BY DEF TypeOK, Goto, world

LEMMA ReaderTypes ==
    ASSUME TypeOK, Read
    PROVE  TypeOK'
<1> DEFINE Code == {"busy", "unsafe", "limit", "corrupt"}
<1>1. CASE Entry
  <2>1. CASE name = 0
    BY <1>1, <2>1, CallTypes DEF Entry
  <2>2. CASE name # 0
    <3>1. name \in DOMAIN disk /\ disk[name] \in [mtime : Nat, data : Contents]
      BY <2>2, DiskType DEF TypeOK
    <3>2. Fingerprint(name) \in [inode : DOMAIN disk, size : Nat, mtime : Nat]
      BY <3>1, DiskType
    <3>3. QED
      BY <1>1, <2>2, <3>1, <3>2 DEF TypeOK, Entry, world
  <2>3. QED
    BY <2>1, <2>2
<1>2. CASE Open
  <2>1. CASE Goto("read") /\ UNCHANGED <<pass, pos, same>>
    BY <1>2, <2>1, GotoTypes DEF Open, TypeOK
  <2>2. CASE Raise("unsafe") \/ Raise("limit") \/ Again
    BY <1>2, <2>2, CallTypes DEF Open, TypeOK
  <2>3. QED
    BY <1>2, <2>1, <2>2 DEF Open
<1>3. CASE ReadChunk
  <2>1. pos + 1 \in Nat /\ Place \in Parts \X Offset /\ Chunk \in Chunks \cup {Eof}
    BY PlaceType, ChunkType DEF TypeOK
  <2>2. /\ DOMAIN got' \subseteq Parts \X Nat
        /\ \A p \in DOMAIN got' : got'[p] \in Chunks \cup {Eof}
    <3>1. CASE pass = 1
      <4>1. got' = [p \in DOMAIN got \cup {Place} |-> IF p = Place THEN Chunk ELSE got[p]]
        BY <1>3, <3>1 DEF ReadChunk
      <4>2. DOMAIN got \subseteq Parts \X Nat /\ \A p \in DOMAIN got : got[p] \in Chunks \cup {Eof}
        BY DEF TypeOK, Parts
      <4>3. Place \in Parts \X Nat
        BY <2>1 DEF Offset
      <4>4. QED
        BY <4>1, <4>2, <4>3, <2>1
    <3>2. CASE pass # 1
      BY <1>3, <3>2 DEF ReadChunk, TypeOK, Parts
    <3>3. QED
      BY <3>1, <3>2
  <2>3. same' \in BOOLEAN
    <3>1. CASE pass = 1
      BY <1>3, <3>1 DEF ReadChunk, TypeOK
    <3>2. CASE pass # 1
      BY <1>3, <3>2 DEF ReadChunk
    <3>3. QED
      BY <3>1, <3>2
  <2>4. QED
    BY <1>3, <2>1, <2>2, <2>3 DEF ReadChunk, TypeOK, Parts, world
<1>4. CASE ReadTorn
  BY <1>4, CallTypes DEF ReadTorn, TypeOK
<1>5. CASE ReadTooMuch
  <2>1. CASE Goto("grown") /\ UNCHANGED <<pass, pos, same>>
    BY <1>5, <2>1, GotoTypes DEF ReadTooMuch, TypeOK
  <2>2. CASE Raise("limit") \/ Again
    BY <1>5, <2>2, CallTypes DEF ReadTooMuch, TypeOK
  <2>3. QED
    BY <1>5, <2>1, <2>2 DEF ReadTooMuch
<1>6. CASE Grown
  BY <1>6, CallTypes DEF Grown, TypeOK
<1>7. CASE ReadShort
  BY <1>7, CallTypes DEF ReadShort, TypeOK
<1>8. CASE ReadEnd
  <2>1. CASE Again
    BY <1>8, <2>1, CallTypes DEF ReadEnd, TypeOK
  <2>2. CASE ~Again
    <3>1. same' \in BOOLEAN
      BY <1>8, <2>2 DEF ReadEnd
    <3>2. CASE pass = 1
      BY <1>8, <2>2, <3>1, <3>2, GotoTypes DEF ReadEnd
    <3>3. CASE pass # 1
      BY <1>8, <2>2, <3>1, <3>3, GotoTypes DEF ReadEnd, TypeOK
    <3>4. QED
      BY <3>2, <3>3
  <2>3. QED
    BY <2>1, <2>2
<1>9. CASE Stat
  <2>1. same' \in BOOLEAN
    BY <1>9 DEF Stat
  <2>2. QED
    BY <1>9, <2>1, GotoTypes DEF Stat, TypeOK
<1>10. CASE Middle
  <2>1. CASE Busy
    BY <1>10, <2>1, CallTypes DEF Middle, TypeOK
  <2>2. CASE ~Busy
    <3>1. same' \in BOOLEAN /\ pass' = 3 /\ pos' = 0 /\ Goto("read")
      BY <1>10, <2>2 DEF Middle
    <3>2. QED
      BY <1>10, <3>1, GotoTypes DEF Middle
  <2>3. QED
    BY <2>1, <2>2
<1>11. CASE After
  <2>1. CASE Busy \/ Again \/ Raise("limit")
    BY <1>11, <2>1, CallTypes DEF After, TypeOK
  <2>2. CASE ~(Busy \/ Again \/ Raise("limit"))
    <3>1. used + Charge \in 0..Max
      <4>1. used + Charge <= Max
        BY <1>11, <2>2 DEF After
      <4>2. used \in Nat /\ Charge \in Nat /\ Max \in Nat
        BY ChargeType, ReadAssumption DEF TypeOK
      <4>3. QED
        BY <4>1, <4>2
    <3>2. QED
      BY <1>11, <2>2, <3>1 DEF After, TypeOK, world
  <2>3. QED
    BY <2>1, <2>2
<1>12. QED
  BY <1>1, <1>2, <1>3, <1>4, <1>5, <1>6, <1>7, <1>8, <1>9, <1>10, <1>11 DEF Read

LEMMA AgentTypes ==
    ASSUME TypeOK, Agent
    PROVE  TypeOK'
<1>0. writes' \in 0..MaxWrites /\ UNCHANGED reader /\ dirty' = TRUE
  <2>1. Acts
    BY DEF Agent, Write, Replace, Rename
  <2>2. writes' \in 0..MaxWrites
    BY <2>1, ReadAssumption DEF TypeOK, Acts
  <2>3. QED
    BY <2>1, <2>2 DEF Acts
<1>1. CASE \E i \in DOMAIN disk, c \in Contents, t \in Ticks : Write(i, c, t)
  <2>1. PICK i \in DOMAIN disk, c \in Contents, t \in Ticks : Write(i, c, t)
    BY <1>1
  <2>2. disk[i].mtime + t \in Nat
    BY DiskType, ReadAssumption
  <2>3. [disk[i] EXCEPT !.mtime = @ + t, !.data = c] \in [mtime : Nat, data : Contents]
    BY <2>2, DiskType
  <2>4. disk' \in Seq([mtime : Nat, data : Contents]) /\ Len(disk') = Len(disk) /\ DOMAIN disk' = DOMAIN disk
    <3>1. disk' = [disk EXCEPT ![i] = [mtime |-> disk[i].mtime + t, data |-> c]]
      BY <2>1 DEF Write
    <3>2. [mtime |-> disk[i].mtime + t, data |-> c] \in [mtime : Nat, data : Contents]
      BY <2>2
    <3>3. disk \in Seq([mtime : Nat, data : Contents]) /\ i \in 1..Len(disk)
      BY DiskType DEF TypeOK
    <3>4. disk' \in Seq([mtime : Nat, data : Contents]) /\ Len(disk') = Len(disk)
      BY <3>1, <3>2, <3>3, ExceptSeq
    <3>5. QED
      BY <3>1, <3>4
  <2>5. seen' \subseteq Contents /\ name' = name
    BY <2>1 DEF Write, TypeOK
  <2>6. QED
    BY <1>0, <2>4, <2>5 DEF TypeOK, reader
<1>2. CASE \E c \in Contents : Replace(c)
  <2>1. PICK c \in Contents : Replace(c)
    BY <1>2
  <2>2. [mtime |-> 0, data |-> c] \in [mtime : Nat, data : Contents]
    OBVIOUS
  <2>3. disk' \in Seq([mtime : Nat, data : Contents]) /\ Len(disk') = Len(disk) + 1
    BY <2>1, <2>2, AppendProperties DEF Replace, TypeOK
  <2>4. DOMAIN disk' = 1..(Len(disk) + 1) /\ DOMAIN disk \subseteq DOMAIN disk'
    BY <2>3, DiskType, LenProperties
  <2>5. seen' \subseteq Contents /\ name' \in 0..Len(disk')
    BY <2>1, <2>3, DiskType DEF Replace, TypeOK
  <2>6. entry' \in [inode : DOMAIN disk', size : Nat, mtime : Nat] /\ Len(disk') > 0
    BY <1>0, <2>3, <2>4, DiskType DEF TypeOK, reader
  <2>7. QED
    BY <1>0, <2>3, <2>5, <2>6 DEF TypeOK, reader
<1>3. CASE \E i \in 0..Len(disk) : Rename(i)
  <2>1. PICK i \in 0..Len(disk) : Rename(i)
    BY <1>3
  <2>2. seen' \subseteq Contents /\ name' \in 0..Len(disk) /\ disk' = disk
    <3>1. i # 0 => disk[i].data \in Contents
      BY <2>1, DiskType
    <3>2. QED
      BY <2>1, <3>1 DEF Rename, TypeOK
  <2>3. QED
    BY <1>0, <2>2 DEF TypeOK, reader
<1>4. QED
  BY <1>1, <1>2, <1>3 DEF Agent

LEMMA InitTypes == Init => TypeOK
<1> SUFFICES ASSUME Init PROVE TypeOK
  OBVIOUS
<1>1. PICK c \in Contents : disk = <<[mtime |-> 0, data |-> c]>>
  BY DEF Init
<1>2. disk \in Seq([mtime : Nat, data : Contents]) /\ Len(disk) = 1 /\ DOMAIN disk = 1..1
  BY <1>1
<1>3. /\ attempt \in 1..Attempts /\ used \in 0..Max /\ writes \in 0..MaxWrites
      /\ entry \in [inode : DOMAIN disk, size : Nat, mtime : Nat]
  BY <1>2, ReadAssumption DEF Init
<1>4. DOMAIN got = {} /\ name \in 0..Len(disk)
  BY <1>2 DEF Init
<1>5. /\ pass \in 1..3 /\ pos \in Nat /\ seen \subseteq Contents
      /\ mode \in Modes /\ pc = "idle" /\ out = "none"
  BY DEF Init
<1>6. same \in BOOLEAN /\ dirty \in BOOLEAN
  BY DEF Init
<1>7. QED
  BY <1>2, <1>3, <1>4, <1>5, <1>6 DEF TypeOK

LEMMA TypeStep == TypeOK /\ [Next]_vars => TypeOK'
<1> SUFFICES ASSUME TypeOK, [Next]_vars PROVE TypeOK'
  OBVIOUS
<1>1. CASE \E m \in Modes : Call(m)
  <2>1. PICK m \in Modes : Call(m)
    BY <1>1
  <2>2. /\ attempt' \in 1..Attempts /\ dirty' \in BOOLEAN
        /\ pc' \in {"idle", "entry"} /\ out' \in {"unsafe", "none"}
    <3>1. 1 \in 1..Attempts
      BY ReadAssumption
    <3>2. dirty' \in BOOLEAN
      BY <2>1 DEF Call, TypeOK
    <3>3. QED
      BY <2>1, <3>1, <3>2 DEF Call
  <2>3. QED
    BY <2>1, <2>2 DEF Call, TypeOK, Forget, world
<1>2. CASE Read
  BY <1>2, ReaderTypes
<1>3. CASE Agent
  BY <1>3, AgentTypes
<1>4. CASE UNCHANGED vars
  BY <1>4 DEF vars, world, reader, TypeOK
<1>5. QED
  BY <1>1, <1>2, <1>3, <1>4 DEF Next

(* The reader's variables stay in their types and the budget within its    *)
(* limit (ReadBudget._consume), whatever the agent writes.                 *)
THEOREM ReadTypeCorrect == Spec => []TypeOK
BY InitTypes, TypeStep, PTL DEF Spec

-----------------------------------------------------------------------------
(* One moment *)

(* What was read is in version c. *)
Agrees(c) == \A p \in DOMAIN got : p[2] \in DOMAIN c /\ got[p] = c[p[2]]

(* Version c is the pinned one: the file holds it while the time stamp is  *)
(* the pinned one, and then all that was read is of it.                    *)
Pins(c) ==
    /\ Len(c) = entry.size
    /\ entry.mtime <= disk[entry.inode].mtime
    /\ disk[entry.inode].mtime = entry.mtime => disk[entry.inode].data = c /\ Agrees(c)
    /\ pc = "after" /\ same => Agrees(c)

MomentInv ==
    /\ pc = "entry" => got = << >>
    /\ pc # "idle" => out = "none"
    /\ pc \notin {"idle", "entry"} => \E c \in seen : Pins(c)
    /\ OneMoment

IInv == TypeOK /\ MomentInv

(* A call that fails or tries again keeps nothing of what it read. *)
LEMMA LeaveMoment ==
    ASSUME IInv, pc # "idle", NEW code \in {"busy", "unsafe", "limit", "corrupt"},
           Raise(code) \/ Again \/ Busy
    PROVE  MomentInv'
<1>1. /\ pc' \in {"idle", "entry"} /\ got' = << >> /\ out' # "ok"
      /\ pc' = "entry" => out' = "none"
  BY DEF IInv, MomentInv, Raise, Again, Busy, Forget
<1>2. QED
  BY <1>1 DEF MomentInv, OneMoment

(* A step that reads nothing keeps the pinned version. *)
LEMMA GoMoment ==
    ASSUME IInv, pc \notin {"idle", "entry"}, NEW label \in {"read", "grown", "stat", "middle"},
           Goto(label), UNCHANGED <<world, seen>>
    PROVE  MomentInv'
<1>1. PICK c \in seen : Pins(c)
  BY DEF IInv, MomentInv
<1>2. Pins(c)'
  BY <1>1 DEF Pins, Agrees, Goto, world
<1>3. out' = "none" /\ pc' = label
  BY DEF IInv, MomentInv, Goto
<1>4. QED
  BY <1>1, <1>2, <1>3 DEF MomentInv, OneMoment

LEMMA ChunkMoment ==
    ASSUME IInv, ReadChunk
    PROVE  MomentInv'
<1>1. PICK c \in seen : Pins(c)
  BY DEF IInv, MomentInv, ReadChunk
<1>2. /\ UNCHANGED <<disk, entry, pc, out, seen>> /\ pc = "read" /\ out = "none"
  BY DEF IInv, MomentInv, ReadChunk, world
<1>3. ASSUME disk[entry.inode].mtime = entry.mtime PROVE Agrees(c)'
  <2>1. disk[entry.inode].data = c /\ Agrees(c) /\ Len(c) = entry.size
    BY <1>1, <1>3 DEF Pins
  <2>2. Place[2] \in 1..Len(c) /\ DOMAIN c = 1..Len(c)
    <3>1. c \in Seq(Chunks) /\ Len(c) \in Nat /\ DOMAIN c = 1..Len(c)
      BY <2>1, DiskType, LenProperties DEF IInv, TypeOK
    <3>2. CASE Place[1] = "probe"
      BY <2>1, <3>1, <3>2, PlaceType DEF IInv
    <3>3. CASE Chunk # Eof
      BY <2>1, <3>1, <3>3, PlaceType DEF IInv, Chunk, At, Offset
    <3>4. QED
      BY <3>1, <3>2, <3>3 DEF ReadChunk
  <2>3. Chunk = c[Place[2]]
    BY <2>1, <2>2, ChunkType DEF IInv
  <2>4. CASE pass = 1
    <3>1. got' = [p \in DOMAIN got \cup {Place} |-> IF p = Place THEN Chunk ELSE got[p]]
      BY <2>4 DEF ReadChunk
    <3>2. QED
      BY <3>1, <2>1, <2>2, <2>3 DEF Agrees
  <2>5. CASE pass # 1
    <3>1. got' = got
      BY <2>5 DEF ReadChunk
    <3>2. QED
      BY <3>1, <2>1 DEF Agrees
  <2>6. QED
    BY <2>4, <2>5
<1>4. Pins(c)'
  BY <1>1, <1>2, <1>3 DEF Pins
<1>5. QED
  BY <1>1, <1>2, <1>4 DEF MomentInv, OneMoment

LEMMA ReaderMoment ==
    ASSUME IInv, Read
    PROVE  MomentInv'
<1>1. CASE Entry
  <2>1. CASE name = 0
    BY <1>1, <2>1, LeaveMoment DEF Entry
  <2>2. CASE name # 0
    <3>1. /\ entry' = Fingerprint(name) /\ seen' = {disk[name].data} /\ disk' = disk /\ name' = name
          /\ got' = << >> /\ pc' = "open" /\ out' = "none"
      BY <1>1, <2>2 DEF Entry, IInv, MomentInv, world
    <3>2. disk[name].mtime \in Nat
      BY <2>2, DiskType DEF IInv, TypeOK
    <3>3. Pins(disk[name].data)'
      BY <3>1, <3>2 DEF Pins, Agrees, Fingerprint
    <3>4. \E c \in seen' : Pins(c)'
      BY <3>1, <3>3
    <3>5. QED
      BY <3>1, <3>4 DEF MomentInv, OneMoment
  <2>3. QED
    BY <2>1, <2>2
<1>2. CASE Open
  BY <1>2, LeaveMoment, GoMoment DEF Open
<1>3. CASE ReadChunk
  BY <1>3, ChunkMoment
<1>4. CASE ReadTorn
  BY <1>4, LeaveMoment DEF ReadTorn
<1>5. CASE ReadTooMuch
  BY <1>5, LeaveMoment, GoMoment DEF ReadTooMuch
<1>6. CASE Grown
  BY <1>6, LeaveMoment DEF Grown
<1>7. CASE ReadShort
  BY <1>7, LeaveMoment DEF ReadShort
<1>8. CASE ReadEnd
  BY <1>8, LeaveMoment, GoMoment DEF ReadEnd
<1>9. CASE Stat
  <2>1. PICK c \in seen : Pins(c)
    BY <1>9 DEF IInv, MomentInv, Stat
  <2>2. /\ UNCHANGED <<disk, entry, got, seen, out>> /\ out = "none"
        /\ pc' \in {"middle", "after"}
        /\ same' => Fingerprint(entry.inode) = entry
    BY <1>9 DEF IInv, MomentInv, Stat, Goto, world
  <2>3. same' => Agrees(c)
    BY <2>1, <2>2 DEF Pins, Fingerprint
  <2>4. Pins(c)'
    BY <2>1, <2>2, <2>3 DEF Pins, Agrees
  <2>5. QED
    BY <2>1, <2>2, <2>4 DEF MomentInv, OneMoment
<1>10. CASE Middle
  BY <1>10, LeaveMoment, GoMoment DEF Middle
<1>11. CASE After
  <2>1. CASE Busy \/ Again \/ Raise("limit")
    BY <1>11, <2>1, LeaveMoment DEF After
  <2>2. CASE ~(Busy \/ Again \/ Raise("limit"))
    <3>1. same /\ pc' = "idle" /\ UNCHANGED <<entry, got, seen>>
      BY <1>11, <2>2 DEF After
    <3>2. PICK c \in seen : Pins(c)
      BY <1>11 DEF IInv, MomentInv, After
    <3>3. Agrees(c) /\ Len(c) = entry.size
      BY <1>11, <3>1, <3>2 DEF Pins, After
    <3>4. QED
      BY <3>1, <3>2, <3>3 DEF MomentInv, OneMoment, Agrees
  <2>3. QED
    BY <2>1, <2>2
<1>12. QED
  BY <1>1, <1>2, <1>3, <1>4, <1>5, <1>6, <1>7, <1>8, <1>9, <1>10, <1>11 DEF Read

(* The agent may change the pinned file, but then its time stamp moves on. *)
LEMMA AgentMoment ==
    ASSUME IInv, Agent, Ticks \subseteq Nat \ {0}
    PROVE  MomentInv'
<1>1. UNCHANGED reader /\ seen \subseteq seen'
  BY DEF Agent, Write, Replace, Rename, Acts
<1>2. ASSUME NEW c \in seen, Pins(c) PROVE Pins(c)'
  <2> DEFINE f == entry.inode
  <2>0. f \in DOMAIN disk /\ disk[f].mtime \in Nat /\ entry.mtime \in Nat
    BY DiskType DEF IInv, TypeOK
  <2>1. disk'[f] = disk[f] \/ (disk'[f].mtime > disk[f].mtime /\ disk'[f].mtime \in Nat)
    <3>1. CASE \E i \in DOMAIN disk, d \in Contents, t \in Ticks : Write(i, d, t)
      <4>1. PICK i \in DOMAIN disk, d \in Contents, t \in Ticks : Write(i, d, t)
        BY <3>1
      <4>2. disk' = [disk EXCEPT ![i] = [mtime |-> disk[i].mtime + t, data |-> d]]
        BY <4>1 DEF Write
      <4>3. t \in Nat \ {0} /\ disk[i].mtime \in Nat
        BY DiskType DEF IInv
      <4>4. QED
        BY <2>0, <4>2, <4>3
    <3>2. CASE \E d \in Contents : Replace(d)
      <4>1. PICK d \in Contents : disk' = Append(disk, [mtime |-> 0, data |-> d])
        BY <3>2 DEF Replace
      <4>2. disk'[f] = disk[f]
        BY <2>0, <4>1, DiskType, AppendProperties DEF IInv, TypeOK
      <4>3. QED
        BY <4>2
    <3>3. CASE \E i \in 0..Len(disk) : Rename(i)
      BY <3>3 DEF Rename
    <3>4. QED
      BY <3>1, <3>2, <3>3 DEF Agent
  <2>2. QED
    BY <1>1, <1>2, <2>0, <2>1 DEF Pins, Agrees, reader
<1>3. QED
  BY <1>1, <1>2 DEF IInv, MomentInv, OneMoment, reader

LEMMA MomentInit == Init => MomentInv
BY DEF Init, MomentInv, OneMoment

LEMMA MomentStep ==
    ASSUME Ticks \subseteq Nat \ {0}
    PROVE  IInv /\ [Next]_vars => IInv'
<1> SUFFICES ASSUME IInv, [Next]_vars PROVE MomentInv'
  BY TypeStep DEF IInv
<1>1. CASE \E m \in Modes : Call(m)
  BY <1>1 DEF Call, Forget, MomentInv, OneMoment
<1>2. CASE Read
  BY <1>2, ReaderMoment
<1>3. CASE Agent
  BY <1>3, AgentMoment
<1>4. CASE UNCHANGED vars
  BY <1>4 DEF vars, world, reader, IInv, MomentInv, OneMoment, Pins, Agrees
<1>5. QED
  BY <1>1, <1>2, <1>3, <1>4 DEF Next

(* If every write moves st_mtime, what a stable read returns was in the    *)
(* file at one moment, whatever the agent does and however often.          *)
THEOREM ReadsOneMoment ==
    ASSUME Ticks \subseteq Nat \ {0}
    PROVE  Spec => []OneMoment
<1>1. Init => IInv
  BY InitTypes, MomentInit DEF IInv
<1>2. IInv /\ [Next]_vars => IInv'
  BY MomentStep
<1>3. IInv => OneMoment
  BY DEF IInv, MomentInv
<1>4. QED
  BY <1>1, <1>2, <1>3, PTL DEF Spec

-----------------------------------------------------------------------------
(* The places a reading goes through *)

HeadSet == {<<"head", i>> : i \in 1..HeadSize}
TailSet == {<<"tail", i>> : i \in TailStart + 1..entry.size}
ProbeSet == IF Start > 0 THEN {<<"probe", Start>>} ELSE {}
BodySet == IF Streams THEN {<<"body", i>> : i \in Start + 1..entry.size} ELSE {}

FixedSet ==
  CASE mode = "tail" -> ProbeSet \cup HeadSet
    [] mode \in Sampled -> HeadSet \cup TailSet
    [] OTHER -> {}

(* The place of the reading after j others. *)
PlaceAt(j) ==
  IF j < Len(Fixed) THEN Fixed[j + 1] ELSE <<"body", Start + j - Len(Fixed) + 1>>

Elements(s) == {s[i] : i \in 1..Len(s)}

LEMMA PlacesElements ==
    ASSUME NEW part \in Parts, NEW from \in Nat, NEW to \in Nat, from <= to
    PROVE  Elements(Places(part, from, to)) = {<<part, i>> : i \in from + 1..to}
<1> DEFINE s == Places(part, from, to)
<1>1. Len(s) = to - from /\ \A i \in 1..(to - from) : s[i] = <<part, from + i>>
  BY PlacesType
<1> HIDE DEF s
<1>2. ASSUME NEW p \in Elements(s) PROVE p \in {<<part, i>> : i \in from + 1..to}
  <2>1. PICK i \in 1..(to - from) : p = <<part, from + i>>
    BY <1>1, <1>2 DEF Elements
  <2>2. from + i \in from + 1..to
    OBVIOUS
  <2> QED
    BY <2>1, <2>2
<1>3. ASSUME NEW i \in from + 1..to PROVE <<part, i>> \in Elements(s)
  <2>1. i - from \in 1..(to - from) /\ from + (i - from) = i
    OBVIOUS
  <2>2. s[i - from] = <<part, i>> /\ i - from \in 1..Len(s)
    BY <1>1, <2>1
  <2> QED
    BY <2>2 DEF Elements
<1> QED
  BY <1>2, <1>3 DEF s

LEMMA ConcatElements ==
    ASSUME NEW S, NEW s \in Seq(S), NEW t \in Seq(S)
    PROVE  Elements(s \o t) = Elements(s) \cup Elements(t)
<1>1. /\ Len(s \o t) = Len(s) + Len(t)
      /\ \A i \in 1..Len(s) + Len(t) : (s \o t)[i] = IF i <= Len(s) THEN s[i] ELSE t[i - Len(s)]
      /\ Len(s) \in Nat /\ Len(t) \in Nat
  BY ConcatProperties, LenProperties
<1>2. ASSUME NEW p \in Elements(s \o t) PROVE p \in Elements(s) \cup Elements(t)
  <2>1. PICK i \in 1..Len(s) + Len(t) : p = IF i <= Len(s) THEN s[i] ELSE t[i - Len(s)]
    BY <1>1, <1>2 DEF Elements
  <2>2. i \in 1..Len(s) \/ i - Len(s) \in 1..Len(t)
    BY <1>1
  <2>3. CASE i <= Len(s)
    BY <1>1, <2>1, <2>3 DEF Elements
  <2>4. CASE ~(i <= Len(s))
    <3>1. i - Len(s) \in 1..Len(t) /\ p = t[i - Len(s)]
      BY <1>1, <2>1, <2>4
    <3> QED
      BY <3>1 DEF Elements
  <2> QED
    BY <2>3, <2>4
<1>3. ASSUME NEW i \in 1..Len(s) PROVE s[i] \in Elements(s \o t)
  <2>1. i \in 1..Len(s \o t) /\ (s \o t)[i] = s[i]
    BY <1>1
  <2> QED
    BY <2>1 DEF Elements
<1>4. ASSUME NEW i \in 1..Len(t) PROVE t[i] \in Elements(s \o t)
  <2>1. Len(s) + i \in 1..Len(s) + Len(t) /\ ~(Len(s) + i <= Len(s)) /\ Len(s) + i - Len(s) = i
    BY <1>1
  <2>2. Len(s) + i \in 1..Len(s \o t) /\ (s \o t)[Len(s) + i] = t[i]
    BY <1>1, <2>1
  <2> QED
    BY <2>2 DEF Elements
<1> QED
  BY <1>2, <1>3, <1>4 DEF Elements

LEMMA FixedElements ==
    ASSUME TypeOK
    PROVE  /\ Elements(Fixed) = FixedSet
           /\ \A p \in FixedSet : p[2] \in 1..entry.size
           /\ mode \in Sampled => Len(Fixed) = HeadSize + (entry.size - TailStart)
           /\ mode \notin Sampled \cup {"tail"} => Fixed = << >>
<1>1. /\ entry.size \in Nat /\ HeadSize \in Nat /\ HeadSize <= entry.size
      /\ Start \in Nat /\ Start <= entry.size
      /\ TailStart \in Nat /\ TailStart <= entry.size
  BY StartType DEF TypeOK
<1>2. /\ HeadPlaces \in Seq(Parts \X Offset) /\ Len(HeadPlaces) = HeadSize
      /\ Elements(HeadPlaces) = HeadSet
  <2>1. "head" \in Parts /\ 0 \in Nat /\ 0 <= HeadSize /\ HeadSize - 0 = HeadSize
    BY <1>1 DEF Parts
  <2>2. 0 + 1 = 1
    OBVIOUS
  <2> QED
    BY <1>1, <2>1, <2>2, PlacesType, PlacesElements DEF HeadPlaces, HeadSet
<1> DEFINE T == Places("tail", TailStart, entry.size)
<1>3. T \in Seq(Parts \X Offset) /\ Len(T) = entry.size - TailStart /\ Elements(T) = TailSet
  <2>1. "tail" \in Parts
    BY DEF Parts
  <2> QED
    BY <1>1, <2>1, PlacesType, PlacesElements DEF TailSet
<1> HIDE DEF T
<1>4. Probe \in Seq(Parts \X Offset) /\ Elements(Probe) = ProbeSet
  <2>1. CASE Start > 0
    <3>1. Probe = <<<<"probe", Start>>>> /\ <<"probe", Start>> \in Parts \X Offset
      BY <1>1, <2>1 DEF Probe, Parts, Offset
    <3>2. Len(Probe) = 1 /\ Probe[1] = <<"probe", Start>> /\ Probe \in Seq(Parts \X Offset)
      BY <3>1
    <3>3. 1..1 = {1}
      OBVIOUS
    <3> QED
      BY <2>1, <3>2, <3>3 DEF Elements, ProbeSet
  <2>2. CASE ~(Start > 0)
    BY <2>2 DEF Probe, Elements, ProbeSet
  <2> QED
    BY <2>1, <2>2
<1>5. \A p \in HeadSet \cup TailSet \cup ProbeSet : p[2] \in 1..entry.size
  <2>1. \A p \in HeadSet : p[2] \in 1..entry.size
    BY <1>1 DEF HeadSet
  <2>2. \A p \in TailSet : p[2] \in 1..entry.size
    BY <1>1 DEF TailSet
  <2>3. \A p \in ProbeSet : p[2] \in 1..entry.size
    BY <1>1 DEF ProbeSet
  <2> QED
    BY <2>1, <2>2, <2>3
<1>6. CASE mode = "tail"
  <2>1. FixedSet = ProbeSet \cup HeadSet /\ mode \notin Sampled
    BY <1>6 DEF FixedSet, Sampled
  <2>2. Fixed = Probe \o HeadPlaces \/ Fixed = HeadPlaces \o Probe
    BY <1>6 DEF Fixed, Sampled
  <2>3. Elements(Fixed) = ProbeSet \cup HeadSet
    <3>1. Elements(Probe \o HeadPlaces) = ProbeSet \cup HeadSet
      BY <1>2, <1>4, ConcatElements
    <3>2. Elements(HeadPlaces \o Probe) = HeadSet \cup ProbeSet
      BY <1>2, <1>4, ConcatElements
    <3> QED
      BY <2>2, <3>1, <3>2
  <2> QED
    BY <1>5, <1>6, <2>1, <2>3
<1>7. CASE mode \in Sampled
  <2>1. FixedSet = HeadSet \cup TailSet /\ mode # "tail"
    BY <1>7 DEF FixedSet, Sampled
  <2>2. Fixed = HeadPlaces \o T
    BY <1>7 DEF Fixed, Sampled, T
  <2>3. Elements(Fixed) = HeadSet \cup TailSet
    BY <1>2, <1>3, <2>2, ConcatElements
  <2>4. Len(Fixed) = HeadSize + (entry.size - TailStart)
    BY <1>2, <1>3, <2>2, ConcatProperties
  <2> QED
    BY <1>5, <1>7, <2>1, <2>3, <2>4
<1>8. CASE mode \notin Sampled \cup {"tail"}
  <2>1. FixedSet = {} /\ Fixed = << >>
    BY <1>8 DEF FixedSet, Fixed
  <2>2. Elements(Fixed) = {}
    BY <2>1 DEF Elements
  <2> QED
    BY <1>8, <2>1, <2>2
<1> QED
  BY <1>6, <1>7, <1>8

(* Where an attempt reads is settled by the entry it pinned, the mode and   *)
(* what the budget has left.                                                *)
LEMMA SamePlaces ==
    ASSUME UNCHANGED <<mode, entry, used>>
    PROVE  /\ Start' = Start /\ HeadSize' = HeadSize /\ TailStart' = TailStart /\ Left' = Left
           /\ FixedSet' = FixedSet /\ BodySet' = BodySet /\ Streams' = Streams
           /\ pass' = pass => Fixed' = Fixed /\ \A j : PlaceAt(j)' = PlaceAt(j)
<1>1. Start' = Start /\ HeadSize' = HeadSize /\ TailStart' = TailStart /\ Left' = Left
  BY DEF Start, HeadSize, TailStart, Left
<1>2. Streams' = Streams
  BY DEF Streams
<1>3. HeadSet' = HeadSet /\ TailSet' = TailSet /\ ProbeSet' = ProbeSet /\ BodySet' = BodySet
  BY <1>1, <1>2 DEF HeadSet, TailSet, ProbeSet, BodySet
<1>4. FixedSet' = FixedSet
  BY <1>3 DEF FixedSet
<1>5. HeadPlaces' = HeadPlaces /\ Probe' = Probe
  BY <1>1 DEF HeadPlaces, Probe
<1>6. pass' = pass => Fixed' = Fixed
  BY <1>1, <1>5 DEF Fixed
<1>7. ASSUME pass' = pass, NEW j PROVE PlaceAt(j)' = PlaceAt(j)
  BY <1>1, <1>6, <1>7 DEF PlaceAt
<1> QED
  BY <1>1, <1>2, <1>3, <1>4, <1>6, <1>7

Underway == {"open", "read", "grown", "stat", "middle", "after"}

(* The first reading goes through the places in order, and when all that    *)
(* was compared agreed it went through all of them and no other.            *)
PlacesInv ==
  /\ pc \in {"entry", "open"} => got = << >> /\ pass = 1 /\ pos = 0 /\ same
  /\ pc = "read" /\ ~Streams => pos <= Len(Fixed)
  /\ pc = "read" /\ pass = 1 => DOMAIN got = {PlaceAt(j) : j \in 0..(pos - 1)}
  /\ pc \in {"stat", "middle", "after"} => pass # 1
  /\ pc \in Underway /\ pass # 1 /\ same => DOMAIN got = FixedSet \cup BodySet

LEMMA LeavePlaces ==
    ASSUME NEW code \in {"busy", "unsafe", "limit", "corrupt"}, Raise(code) \/ Again \/ Busy
    PROVE  PlacesInv'
<1>1. /\ pc' \in {"idle", "entry"}
      /\ pc' = "entry" => got' = << >> /\ pass' = 1 /\ pos' = 0 /\ same' = TRUE
  BY DEF Raise, Again, Busy, Forget
<1> QED
  BY <1>1 DEF PlacesInv, Underway

(* The places of a reading that ends after n of them.                       *)
LEMMA AllRead ==
    ASSUME TypeOK, NEW n \in Nat, n >= Len(Fixed),
           IF Streams THEN Start + n - Len(Fixed) = entry.size ELSE n = Len(Fixed)
    PROVE  {PlaceAt(j) : j \in 0..(n - 1)} = FixedSet \cup BodySet
<1>1. /\ Len(Fixed) \in Nat /\ Start \in Nat /\ entry.size \in Nat
      /\ Elements(Fixed) = FixedSet
  BY PlaceType, StartType, FixedElements DEF TypeOK
<1>2. ASSUME NEW j \in 0..(n - 1) PROVE PlaceAt(j) \in FixedSet \cup BodySet
  <2>1. CASE j < Len(Fixed)
    <3>1. j + 1 \in 1..Len(Fixed) /\ PlaceAt(j) = Fixed[j + 1]
      BY <1>1, <2>1 DEF PlaceAt
    <3> QED
      BY <1>1, <3>1 DEF Elements
  <2>2. CASE ~(j < Len(Fixed))
    <3>1. /\ Streams /\ PlaceAt(j) = <<"body", Start + j - Len(Fixed) + 1>>
          /\ Start + j - Len(Fixed) + 1 \in Start + 1..entry.size
      BY <1>1, <2>2 DEF PlaceAt
    <3> QED
      BY <3>1 DEF BodySet
  <2> QED
    BY <2>1, <2>2
<1>3. ASSUME NEW p \in FixedSet PROVE \E j \in 0..(n - 1) : p = PlaceAt(j)
  <2>1. PICK i \in 1..Len(Fixed) : p = Fixed[i]
    BY <1>1, <1>3 DEF Elements
  <2>2. i - 1 \in 0..(n - 1) /\ i - 1 < Len(Fixed) /\ i - 1 + 1 = i
    BY <1>1
  <2>3. PlaceAt(i - 1) = Fixed[i]
    BY <2>2 DEF PlaceAt
  <2> QED
    BY <2>1, <2>2, <2>3
<1>4. ASSUME NEW p \in BodySet PROVE \E j \in 0..(n - 1) : p = PlaceAt(j)
  <2>1. Streams /\ p \in {<<"body", i>> : i \in Start + 1..entry.size}
    BY <1>4 DEF BodySet
  <2>2. PICK i \in Start + 1..entry.size : p = <<"body", i>>
    BY <2>1
  <2> DEFINE j == i - Start - 1 + Len(Fixed)
  <2>3. j \in 0..(n - 1) /\ ~(j < Len(Fixed)) /\ Start + j - Len(Fixed) + 1 = i
    BY <1>1, <2>1
  <2>4. PlaceAt(j) = <<"body", i>>
    BY <2>3 DEF PlaceAt
  <2> QED
    BY <2>2, <2>3, <2>4
<1> QED
  BY <1>2, <1>3, <1>4

LEMMA PlacesStep ==
    ASSUME TypeOK, PlacesInv, [Next]_vars
    PROVE  PlacesInv'
<1> USE DEF Underway
<1>1. CASE \E m \in Modes : Call(m)
  <2>1. /\ pc' \in {"idle", "entry"} /\ got' = << >> /\ pass' = 1 /\ pos' = 0 /\ same' = TRUE
    BY <1>1 DEF Call, Forget
  <2> QED
    BY <2>1 DEF PlacesInv
<1>2. CASE Entry
  <2>1. CASE name = 0
    BY <1>2, <2>1, LeavePlaces DEF Entry
  <2>2. CASE name # 0
    <3>1. pc' = "open" /\ got' = << >> /\ pass' = 1 /\ pos' = 0 /\ same'
      BY <1>2, <2>2 DEF Entry, PlacesInv
    <3> QED
      BY <3>1 DEF PlacesInv
  <2> QED
    BY <2>1, <2>2
<1>3. CASE Open
  <2>1. CASE Goto("read") /\ UNCHANGED <<pass, pos, same>>
    <3>1. /\ pc' = "read" /\ got' = << >> /\ pass' = 1 /\ pos' = 0
          /\ UNCHANGED <<mode, entry, used, pass>>
      BY <1>3, <2>1 DEF Open, Goto, PlacesInv
    <3>2. DOMAIN got' = {} /\ 0..(pos' - 1) = {}
      BY <3>1
    <3>3. Len(Fixed)' \in Nat
      BY <3>1, SamePlaces, PlaceType
    <3>4. {PlaceAt(j)' : j \in 0..(pos' - 1)} = {}
      BY <3>2
    <3>5. pos' <= Len(Fixed)'
      BY <3>1, <3>3
    <3> QED
      BY <3>1, <3>2, <3>4, <3>5 DEF PlacesInv
  <2>2. CASE Raise("unsafe") \/ Raise("limit") \/ Again
    BY <2>2, LeavePlaces
  <2> QED
    BY <1>3, <2>1, <2>2 DEF Open
<1>4. CASE ReadChunk
  <2>1. /\ UNCHANGED <<mode, entry, used, pass, pc>> /\ pc = "read" /\ pos' = pos + 1 /\ pos \in Nat
        /\ InFixed \/ Streams
    BY <1>4 DEF ReadChunk, TypeOK
  <2>2. Len(Fixed) \in Nat /\ Place = PlaceAt(pos)
    BY PlaceType DEF Place, PlaceAt
  <2>3. ~Streams' => pos' <= Len(Fixed)'
    <3>1. Streams' = Streams /\ Fixed' = Fixed
      BY <2>1, SamePlaces
    <3>2. ~Streams => pos + 1 <= Len(Fixed)
      BY <2>1, <2>2 DEF InFixed
    <3> QED
      BY <2>1, <3>1, <3>2
  <2>4. ASSUME pass = 1 PROVE DOMAIN got' = {PlaceAt(j)' : j \in 0..(pos' - 1)}
    <3>1. DOMAIN got' = DOMAIN got \cup {PlaceAt(pos)}
      BY <1>4, <2>2, <2>4 DEF ReadChunk
    <3>2. DOMAIN got = {PlaceAt(j) : j \in 0..(pos - 1)}
      BY <2>1, <2>4 DEF PlacesInv
    <3>3. 0..(pos' - 1) = 0..(pos - 1) \cup {pos}
      BY <2>1
    <3>4. \A j : PlaceAt(j)' = PlaceAt(j)
      BY <2>1, SamePlaces
    <3> QED
      BY <3>1, <3>2, <3>3, <3>4
  <2>5. ASSUME pass # 1, same' PROVE DOMAIN got' = (FixedSet \cup BodySet)'
    <3>1. got' = got /\ same
      BY <1>4, <2>5 DEF ReadChunk
    <3> QED
      BY <2>1, <2>5, <3>1, SamePlaces DEF PlacesInv
  <2> QED
    BY <2>1, <2>3, <2>4, <2>5 DEF PlacesInv
<1>5. CASE ReadTorn
  BY <1>5, LeavePlaces DEF ReadTorn
<1>6. CASE ReadTooMuch
  <2>1. CASE Goto("grown") /\ UNCHANGED <<pass, pos, same>>
    <3>1. /\ pc' = "grown" /\ pc = "read"
          /\ UNCHANGED <<mode, entry, used, got, pass, pos, same>>
      BY <1>6, <2>1 DEF ReadTooMuch, Goto
    <3> QED
      BY <3>1, SamePlaces DEF PlacesInv
  <2>2. CASE Raise("limit") \/ Again
    BY <2>2, LeavePlaces
  <2> QED
    BY <1>6, <2>1, <2>2 DEF ReadTooMuch
<1>7. CASE Grown
  BY <1>7, LeavePlaces DEF Grown
<1>8. CASE ReadShort
  BY <1>8, LeavePlaces DEF ReadShort
<1>9. CASE ReadEnd
  <2>1. CASE Again
    BY <2>1, LeavePlaces
  <2>2. CASE ~Again
    <3>1. /\ UNCHANGED <<mode, entry, used, got>> /\ pc = "read" /\ ~InFixed
          /\ same' = (same /\ (Streams => Complete))
          /\ IF pass = 1 THEN pass' = 2 /\ pos' = 0 /\ pc' = "read"
                         ELSE UNCHANGED <<pass, pos>> /\ pc' = "stat"
      BY <1>9, <2>2 DEF ReadEnd, Goto
    <3>2. CASE pass = 1
      <4>1. Len(Fixed)' \in Nat
        <5>1. TypeOK'
          BY TypeStep
        <5> QED
          BY <5>1, FixedType, LenProperties
      <4>2. ASSUME same' PROVE DOMAIN got' = (FixedSet \cup BodySet)'
        <5>1. DOMAIN got = {PlaceAt(j) : j \in 0..(pos - 1)}
          BY <3>1, <3>2 DEF PlacesInv
        <5>2. pos \in Nat /\ Len(Fixed) \in Nat
          BY PlaceType DEF TypeOK
        <5>3. pos >= Len(Fixed)
          BY <3>1, <5>2 DEF InFixed
        <5>4. IF Streams THEN Start + pos - Len(Fixed) = entry.size ELSE pos = Len(Fixed)
          <6>1. Streams => Complete
            BY <3>1, <4>2
          <6>2. ~Streams => pos <= Len(Fixed)
            BY <3>1 DEF PlacesInv
          <6> QED
            BY <5>2, <5>3, <6>1, <6>2 DEF Complete
        <5>5. DOMAIN got = FixedSet \cup BodySet
          BY <5>1, <5>2, <5>3, <5>4, AllRead
        <5> QED
          BY <3>1, <5>5, SamePlaces
      <4> QED
        BY <3>1, <3>2, <4>1, <4>2 DEF PlacesInv
    <3>3. CASE pass # 1
      BY <3>1, <3>3, SamePlaces DEF PlacesInv
    <3> QED
      BY <3>2, <3>3
  <2> QED
    BY <2>1, <2>2
<1>10. CASE Stat
  <2>1. /\ UNCHANGED <<mode, entry, used, got, pass>> /\ pc = "stat" /\ pc' \in {"middle", "after"}
        /\ same' => same
    BY <1>10 DEF Stat, Goto
  <2> QED
    BY <2>1, SamePlaces DEF PlacesInv
<1>11. CASE Middle
  <2>1. CASE Busy
    BY <2>1, LeavePlaces
  <2>2. CASE ~Busy
    <3>1. /\ UNCHANGED <<mode, entry, used, got>> /\ pc = "middle" /\ pc' = "read"
          /\ pass' = 3 /\ pos' = 0 /\ (same' => same)
      BY <1>11, <2>2 DEF Middle, Goto
    <3>2. Len(Fixed)' \in Nat
      <4>1. TypeOK'
        BY TypeStep
      <4> QED
        BY <4>1, FixedType, LenProperties
    <3> QED
      BY <3>1, <3>2, SamePlaces DEF PlacesInv
  <2> QED
    BY <2>1, <2>2
<1>12. CASE After
  <2>1. CASE Busy \/ Again \/ Raise("limit")
    BY <2>1, LeavePlaces
  <2>2. CASE ~(Busy \/ Again \/ Raise("limit"))
    <3>1. pc' = "idle"
      BY <1>12, <2>2 DEF After
    <3> QED
      BY <3>1 DEF PlacesInv
  <2> QED
    BY <2>1, <2>2
<1>13. CASE Agent \/ UNCHANGED vars
  <2>1. UNCHANGED reader
    BY <1>13 DEF Agent, Write, Replace, Rename, Acts, vars
  <2>2. UNCHANGED <<pc, mode, entry, pass, pos, got, same, used>>
    BY <2>1 DEF reader
  <2> QED
    BY <2>2, SamePlaces DEF PlacesInv
<1> QED
  BY <1>1, <1>2, <1>3, <1>4, <1>5, <1>6, <1>7, <1>8, <1>9, <1>10, <1>11, <1>12, <1>13
  DEF Next, Read

LEMMA PlacesInit == Init => PlacesInv
BY DEF Init, PlacesInv, Underway

LEMMA PlacesAlways == Spec => [](TypeOK /\ PlacesInv)
<1>1. Init => TypeOK /\ PlacesInv
  BY InitTypes, PlacesInit
<1>2. TypeOK /\ PlacesInv /\ [Next]_vars => (TypeOK /\ PlacesInv)'
  BY TypeStep, PlacesStep
<1> QED
  BY <1>1, <1>2, PTL DEF Spec

-----------------------------------------------------------------------------
(* The charge *)

LEMMA CountTwo ==
    ASSUME NEW h \in Nat, NEW s \in Nat, NEW n \in Nat, h <= s, s <= n
    PROVE  Cardinality((1..h) \cup (s + 1..n)) = h + (n - s)
<1>1. IsFiniteSet(1..h) /\ Cardinality(1..h) = h
  BY FS_Interval
<1>2. IsFiniteSet(s + 1..n) /\ Cardinality(s + 1..n) = n - s
  <2>1. /\ IsFiniteSet(s + 1..n)
        /\ Cardinality(s + 1..n) = IF s + 1 > n THEN 0 ELSE n - (s + 1) + 1
    BY FS_Interval
  <2> QED
    BY <2>1
<1>3. (1..h) \cap (s + 1..n) = {}
  OBVIOUS
<1>4. Cardinality({}) = 0
  BY FS_EmptySet
<1>5. Cardinality((1..h) \cup (s + 1..n)) = h + (n - s) - 0
  <2> DEFINE A == 1..h
             B == s + 1..n
  <2> HIDE DEF A, B
  <2>1. /\ IsFiniteSet(A) /\ IsFiniteSet(B) /\ Cardinality(A \cap B) = 0
        /\ Cardinality(A) = h /\ Cardinality(B) = n - s
    BY <1>1, <1>2, <1>3, <1>4 DEF A, B
  <2>2. Cardinality(A \cup B) = h + (n - s) - 0
    BY <2>1, FS_Union
  <2> QED
    BY <2>2 DEF A, B
<1> QED
  BY <1>5

Offsets(S) == {p[2] : p \in {q \in S : q[1] # "probe"}}

LEMMA UnionOffsets ==
    ASSUME NEW S, NEW T
    PROVE  Offsets(S \cup T) = Offsets(S) \cup Offsets(T)
BY DEF Offsets

LEMMA PartOffsets ==
    /\ Offsets(HeadSet) = 1..HeadSize
    /\ Offsets(TailSet) = TailStart + 1..entry.size
    /\ Offsets(ProbeSet) = {}
    /\ Offsets(BodySet) = IF Streams THEN Start + 1..entry.size ELSE {}
<1>1. ASSUME NEW part \in {"head", "tail", "body"}, NEW I
      PROVE  Offsets({<<part, i>> : i \in I}) = I
  <2>1. \A i \in I : <<part, i>>[1] # "probe" /\ <<part, i>>[2] = i
    OBVIOUS
  <2> QED
    BY <2>1 DEF Offsets
<1>2. Offsets({}) = {}
  BY DEF Offsets
<1>3. Offsets(HeadSet) = 1..HeadSize
  BY <1>1 DEF HeadSet
<1>4. Offsets(TailSet) = TailStart + 1..entry.size
  BY <1>1 DEF TailSet
<1>5. Offsets(ProbeSet) = {}
  BY <1>2 DEF ProbeSet, Offsets
<1>6. Offsets(BodySet) = IF Streams THEN Start + 1..entry.size ELSE {}
  BY <1>1, <1>2 DEF BodySet
<1> QED
  BY <1>3, <1>4, <1>5, <1>6

LEMMA ChargeExact ==
    ASSUME TypeOK
    PROVE  Cardinality(Offsets(FixedSet \cup BodySet)) = Charge
<1>1. /\ entry.size \in Nat /\ HeadSize \in Nat /\ HeadSize <= entry.size
      /\ Start \in Nat /\ Start <= entry.size
      /\ TailStart \in Nat /\ TailStart <= entry.size
  BY StartType DEF TypeOK
<1>2. CASE mode = "tail"
  <2>1. Charge = entry.size - Start + Lesser(HeadSize, Start) /\ Streams
    BY <1>2 DEF Charge, Streams, Sampled
  <2>2. FixedSet = ProbeSet \cup HeadSet
    BY <1>2 DEF FixedSet, Sampled
  <2>3. Offsets(FixedSet \cup BodySet) = (1..HeadSize) \cup (Start + 1..entry.size)
    <3>1. Offsets(FixedSet \cup BodySet) = Offsets(ProbeSet \cup HeadSet) \cup Offsets(BodySet)
      BY <2>2, UnionOffsets
    <3>2. Offsets(ProbeSet \cup HeadSet) = Offsets(ProbeSet) \cup Offsets(HeadSet)
      BY UnionOffsets
    <3> QED
      BY <2>1, <3>1, <3>2, PartOffsets
  <2>4. Start = 0 \/ Start >= HeadSize
    BY <1>1, <1>2 DEF Start, Greater
  <2>5. CASE Start >= HeadSize
    <3>1. Lesser(HeadSize, Start) = HeadSize
      BY <1>1, <2>5 DEF Lesser
    <3>2. Cardinality((1..HeadSize) \cup (Start + 1..entry.size)) = HeadSize + (entry.size - Start)
      BY <1>1, <2>5, CountTwo
    <3>3. Charge = HeadSize + (entry.size - Start)
      BY <1>1, <2>1, <3>1
    <3> QED
      BY <2>3, <3>2, <3>3
  <2>6. CASE Start = 0
    <3>1. Lesser(HeadSize, Start) = 0
      BY <1>1, <2>6 DEF Lesser
    <3>2. (1..HeadSize) \cup (Start + 1..entry.size) = 1..entry.size
      BY <1>1, <2>6
    <3>3. Cardinality(1..entry.size) = entry.size
      BY <1>1, FS_Interval
    <3>4. Charge = entry.size
      BY <1>1, <2>1, <2>6, <3>1
    <3> QED
      BY <2>3, <3>2, <3>3, <3>4
  <2> QED
    BY <2>4, <2>5, <2>6
<1>3. CASE mode \in Sampled
  <2>1. Charge = Len(Fixed) /\ ~Streams
    BY <1>3 DEF Charge, Streams, Sampled
  <2>2. FixedSet = HeadSet \cup TailSet
    BY <1>3 DEF FixedSet, Sampled
  <2>3. Offsets(FixedSet \cup BodySet) = (1..HeadSize) \cup (TailStart + 1..entry.size)
    <3>1. Offsets(FixedSet \cup BodySet) = Offsets(HeadSet \cup TailSet) \cup Offsets(BodySet)
      BY <2>2, UnionOffsets
    <3>2. Offsets(HeadSet \cup TailSet) = Offsets(HeadSet) \cup Offsets(TailSet)
      BY UnionOffsets
    <3> QED
      BY <2>1, <3>1, <3>2, PartOffsets
  <2>4. TailStart >= HeadSize
    BY <1>1, ReadAssumption DEF TailStart, Greater
  <2>5. Cardinality((1..HeadSize) \cup (TailStart + 1..entry.size))
          = HeadSize + (entry.size - TailStart)
    BY <1>1, <2>4, CountTwo
  <2> QED
    BY <1>3, <2>1, <2>3, <2>5, FixedElements
<1>4. CASE mode \notin Sampled \cup {"tail"}
  <2>1. Charge = entry.size /\ Streams /\ Start = 0
    BY <1>4 DEF Charge, Streams, Start
  <2>2. FixedSet = {}
    BY <1>4 DEF FixedSet
  <2>3. Offsets(FixedSet \cup BodySet) = 1..entry.size
    <3>1. Offsets(BodySet) = 0 + 1..entry.size /\ {} \cup BodySet = BodySet
      BY <2>1, PartOffsets
    <3> QED
      BY <2>2, <3>1
  <2>4. Cardinality(1..entry.size) = entry.size
    BY <1>1, FS_Interval
  <2> QED
    BY <2>1, <2>3, <2>4
<1> QED
  BY <1>2, <1>3, <1>4

ChargeIsExact ==
  used' # used =>
    /\ out' = "ok"
    /\ used' - used = Cardinality({p[2] : p \in {q \in DOMAIN got : q[1] # "probe"}})

LEMMA OnlyAfterCharges ==
    ASSUME [Next]_vars, used' # used
    PROVE  After /\ same /\ out' = "ok" /\ used' = used + Charge
<1>1. ASSUME NEW code, Raise(code) \/ Again \/ Busy PROVE used' = used
  BY <1>1 DEF Raise, Again, Busy
<1>2. ASSUME NEW label, Goto(label) PROVE used' = used
  BY <1>2 DEF Goto
<1>3. After
  <2>1. ~(\E m \in Modes : Call(m)) /\ ~Agent /\ ~UNCHANGED vars
    BY DEF Call, Agent, Write, Replace, Rename, Acts, vars, reader
  <2>2. ~Entry /\ ~ReadChunk
    BY <1>1 DEF Entry, ReadChunk
  <2>3. ~Open /\ ~ReadTooMuch
    BY <1>1, <1>2 DEF Open, ReadTooMuch
  <2>4. ~ReadTorn /\ ~Grown /\ ~ReadShort
    BY <1>1 DEF ReadTorn, Grown, ReadShort
  <2>5. ~ReadEnd /\ ~Stat /\ ~Middle
    BY <1>1, <1>2 DEF ReadEnd, Stat, Middle
  <2> QED
    BY <2>1, <2>2, <2>3, <2>4, <2>5 DEF Next, Read
<1> QED
  BY <1>1, <1>3 DEF After

(* A call charges each chunk it returns once, whether or not head and tail *)
(* overlap, and charges nothing for readings it threw away                 *)
(* (budget.consume_bytes at the end of an attempt).                        *)
THEOREM EachChunkChargedOnce == Spec => ChargedOnce
<1>1. TypeOK /\ PlacesInv /\ [Next]_vars => [ChargeIsExact]_vars
  <2> SUFFICES ASSUME TypeOK, PlacesInv, [Next]_vars, used' # used
               PROVE  /\ out' = "ok"
                      /\ used' - used
                           = Cardinality({p[2] : p \in {q \in DOMAIN got : q[1] # "probe"}})
    BY DEF ChargeIsExact
  <2>1. After /\ same /\ out' = "ok" /\ used' = used + Charge
    BY OnlyAfterCharges
  <2>2. DOMAIN got = FixedSet \cup BodySet
    BY <2>1 DEF After, PlacesInv, Underway
  <2>3. Cardinality(Offsets(DOMAIN got)) = Charge
    BY <2>2, ChargeExact
  <2>4. used \in Nat /\ Charge \in Nat
    BY ChargeType, ReadAssumption, SMTT(30) DEF TypeOK
  <2> QED
    BY <2>1, <2>3, <2>4 DEF Offsets
<1> QED
  BY <1>1, PlacesAlways, PTL DEF Spec, ChargedOnce, ChargeIsExact

-----------------------------------------------------------------------------
(* The cause of a failure *)

(* A mode that looks at the size before it reads. *)
Limited == {"bytes", "lines", "windows", "file"}

(* While the agent has not acted in the attempt, the pinned file is under   *)
(* the name, what was read is of it, and all that was compared agreed.      *)
QuietInv ==
  pc \in Underway /\ ~dirty =>
    /\ pc # "grown"
    /\ name # 0 /\ Matches /\ same
    /\ \A p \in DOMAIN got : /\ p[2] \in DOMAIN disk[name].data
                             /\ got[p] = disk[name].data[p[2]]
    /\ pc # "open" /\ mode \in Limited => entry.size <= Max
    /\ pc = "read" => pos <= Len(Fixed) \/ Start + pos - Len(Fixed) <= entry.size

HasCause ==
  /\ \/ attempt' > attempt
     \/ out' # out /\ out' \in {"busy", "unsafe", "corrupt"}
     => dirty'
  /\ out' # out /\ out' = "limit" /\ ~dirty =>
       CASE mode = "tail" -> HeadSize > Left
         [] mode \in Sampled -> Len(Fixed) > Left \/ (mode = "windows" /\ entry.size > Max)
         [] OTHER -> entry.size > Left

(* The pinned file has the pinned size. *)
LEMMA QuietFacts ==
    ASSUME TypeOK, name # 0, Matches
    PROVE  LET d == disk[name].data
           IN /\ name = entry.inode /\ Fingerprint(entry.inode) = entry
              /\ d \in Contents /\ d \in Seq(Chunks) /\ Len(d) = entry.size
              /\ DOMAIN d = 1..entry.size /\ entry.size \in Nat
              /\ Place[2] \in Nat \ {0}
              /\ Place[2] <= entry.size => Chunk = d[Place[2]] /\ Chunk # Eof
              /\ ~(Place[2] <= entry.size) => Chunk = Eof
<1> DEFINE d == disk[name].data
<1>1. name = entry.inode /\ Fingerprint(entry.inode) = entry
  BY DEF Matches
<1>2. name \in DOMAIN disk
  BY <1>1 DEF TypeOK
<1>3. d \in Contents /\ d \in Seq(Chunks) /\ Len(d) \in Nat /\ DOMAIN d = 1..Len(d)
  BY <1>2, DiskType, LenProperties
<1>4. Len(d) = entry.size
  BY <1>1 DEF Fingerprint
<1>5. Place[2] \in Nat \ {0}
  BY PlaceType DEF Offset
<1>6. ASSUME Place[2] <= entry.size PROVE Chunk = d[Place[2]] /\ Chunk # Eof
  <2>1. Place[2] \in 1..Len(d)
    BY <1>3, <1>4, <1>5, <1>6
  <2> QED
    BY <1>1, <2>1, ChunkType
<1>7. ASSUME ~(Place[2] <= entry.size) PROVE Chunk = Eof
  BY <1>1, <1>4, <1>7 DEF Chunk, At
<1> QED
  BY <1>1, <1>3, <1>4, <1>5, <1>6, <1>7

(* What the tail scan reads fits in what is left, next to its head sample.  *)
LEMMA WindowFits ==
    ASSUME TypeOK, mode = "tail"
    PROVE  /\ entry.size - Start <= Max
           /\ HeadSize <= Left => Charge <= Left
<1>1. /\ entry.size \in Nat /\ HeadSize \in Nat /\ HeadSize <= entry.size
      /\ Start \in Nat /\ Start <= entry.size /\ Left \in Nat /\ Left <= Max /\ Max \in Nat
  BY StartType, ReadAssumption DEF TypeOK, Left
<1>2. Charge = entry.size - Start + Lesser(HeadSize, Start)
  BY DEF Charge, Sampled
<1>3. CASE entry.size <= Left
  <2>1. Start = 0
    BY <1>3 DEF Start
  <2>2. Lesser(HeadSize, Start) = 0
    BY <1>1, <2>1 DEF Lesser
  <2> QED
    BY <1>1, <1>2, <1>3, <2>1, <2>2
<1>4. CASE ~(entry.size <= Left)
  <2>1. Start = Greater(HeadSize, entry.size - Greater(0, Left - HeadSize))
    BY <1>4 DEF Start
  <2>2. Start >= HeadSize /\ entry.size - Start <= Greater(0, Left - HeadSize)
    BY <1>1, <2>1 DEF Greater
  <2>3. Greater(0, Left - HeadSize) <= Left
    BY <1>1 DEF Greater
  <2>4. HeadSize <= Left => Greater(0, Left - HeadSize) = Left - HeadSize
    BY <1>1 DEF Greater
  <2>5. Lesser(HeadSize, Start) = HeadSize
    BY <1>1, <2>2 DEF Lesser
  <2>6. Greater(0, Left - HeadSize) \in Nat
    BY <1>1 DEF Greater
  <2> QED
    BY <1>1, <1>2, <2>2, <2>3, <2>4, <2>5, <2>6
<1> QED
  BY <1>3, <1>4

LEMMA NoLater ==
    ASSUME TypeOK, attempt' = attempt
    PROVE  ~(attempt' > attempt)
BY ReadAssumption DEF TypeOK

LEMMA LimitHasCause ==
    ASSUME TypeOK, Raise("limit"),
           CASE mode = "tail" -> HeadSize > Left
             [] mode \in Sampled -> Len(Fixed) > Left \/ (mode = "windows" /\ entry.size > Max)
             [] OTHER -> entry.size > Left
    PROVE  QuietInv' /\ HasCause
<1>1. pc' = "idle" /\ attempt' = attempt /\ out' = "limit"
  BY DEF Raise
<1> QED
  BY <1>1, NoLater DEF QuietInv, Underway, HasCause

(* A step of a quiet attempt that goes on, with what was read unchanged.    *)
LEMMA GoQuiet ==
    ASSUME TypeOK, QuietInv, ~dirty, pc \in Underway \ {"open"},
           NEW label \in {"read", "stat", "middle", "after"}, Goto(label),
           UNCHANGED <<world, dirty>>, same', label = "read" => pos' = 0, TypeOK'
    PROVE  QuietInv' /\ HasCause
<1>1. /\ pc' = label /\ UNCHANGED <<mode, attempt, entry, got, out, disk, name, dirty>>
  BY DEF Goto, world
<1>2. Len(Fixed)' \in Nat
  BY FixedType, LenProperties
<1>3. Matches' = Matches
  BY <1>1 DEF Matches, Fingerprint
<1>4. label = "read" => pos' <= Len(Fixed)'
  BY <1>2
<1>5. QuietInv'
  BY <1>1, <1>3, <1>4 DEF QuietInv, Underway
<1> QED
  BY <1>1, <1>5, NoLater DEF HasCause

LEMMA QuietChunk ==
    ASSUME TypeOK, PlacesInv, QuietInv, ~dirty, ReadChunk
    PROVE  QuietInv' /\ HasCause
<1> DEFINE d == disk[name].data
<1>1. /\ pc = "read" /\ name # 0 /\ Matches /\ same
      /\ \A p \in DOMAIN got : p[2] \in DOMAIN d /\ got[p] = d[p[2]]
      /\ mode \in Limited => entry.size <= Max
  BY DEF ReadChunk, QuietInv, Underway
<1>2. /\ UNCHANGED <<disk, name, pc, mode, attempt, entry, pass, used, out, dirty>>
      /\ pos' = pos + 1 /\ pos \in Nat /\ (InFixed \/ Streams)
      /\ Chunk # Eof \/ Place[1] = "probe"
  BY DEF ReadChunk, world, TypeOK
<1>3. /\ DOMAIN d = 1..entry.size /\ entry.size \in Nat /\ Place[2] \in Nat \ {0}
      /\ Place[2] <= entry.size => Chunk = d[Place[2]] /\ Chunk # Eof
      /\ ~(Place[2] <= entry.size) => Chunk = Eof
  BY <1>1, QuietFacts
<1> HIDE DEF d
<1>4. Place[2] \in DOMAIN d /\ Chunk = d[Place[2]]
  BY <1>2, <1>3, PlaceType
<1>5. Len(Fixed) \in Nat /\ Start \in Nat
  BY PlaceType, StartType
<1>6. /\ Start' = Start /\ Fixed' = Fixed
  BY <1>2, SamePlaces
<1>7. pos' <= Len(Fixed)' \/ Start' + pos' - Len(Fixed)' <= entry'.size
  <2>1. CASE InFixed
    BY <1>2, <1>5, <1>6, <2>1 DEF InFixed
  <2>2. CASE ~InFixed
    <3>1. Place = <<"body", Start + pos - Len(Fixed) + 1>>
      BY <2>2 DEF Place, InFixed
    <3>2. Start + pos - Len(Fixed) + 1 <= entry.size
      BY <1>3, <1>4, <3>1
    <3> QED
      BY <1>2, <1>5, <1>6, <3>2
  <2> QED
    BY <2>1, <2>2
<1>8. same' /\ \A p \in DOMAIN got' : p[2] \in DOMAIN d /\ got'[p] = d[p[2]]
  <2>1. CASE pass = 1
    <3>1. /\ got' = [p \in DOMAIN got \cup {Place} |-> IF p = Place THEN Chunk ELSE got[p]]
          /\ same' = same
      BY <2>1 DEF ReadChunk
    <3> QED
      BY <1>1, <1>4, <3>1
  <2>2. CASE pass # 1
    <3>1. /\ same' = (same /\ Place \in DOMAIN got /\ got[Place] = Chunk)
          /\ got' = got
      BY <2>2 DEF ReadChunk
    <3>2. DOMAIN got = FixedSet \cup BodySet
      BY <1>1, <2>2 DEF PlacesInv, Underway
    <3>3. Place \in FixedSet \cup BodySet
      <4>1. CASE InFixed
        <5>1. pos + 1 \in 1..Len(Fixed) /\ Place = Fixed[pos + 1]
          BY <1>2, <1>5, <4>1 DEF InFixed, Place
        <5> QED
          BY <5>1, FixedElements DEF Elements
      <4>2. CASE ~InFixed
        <5>1. Place = <<"body", Start + pos - Len(Fixed) + 1>> /\ Streams
          BY <1>2, <4>2 DEF Place, InFixed
        <5>2. Start + pos - Len(Fixed) + 1 \in Start + 1..entry.size
          BY <1>2, <1>3, <1>4, <1>5, <4>2, <5>1 DEF InFixed
        <5> QED
          BY <5>1, <5>2 DEF BodySet
      <4> QED
        BY <4>1, <4>2
    <3>4. got[Place] = Chunk /\ Place \in DOMAIN got
      BY <1>1, <1>4, <3>2, <3>3
    <3> QED
      BY <1>1, <3>1, <3>4
  <2> QED
    BY <2>1, <2>2
<1>9. Matches' = Matches
  BY <1>2 DEF Matches, Fingerprint
<1>10. d' = d
  BY <1>2 DEF d
<1>11. QuietInv'
  BY <1>1, <1>2, <1>7, <1>8, <1>9, <1>10 DEF QuietInv, Underway, d
<1> QED
  BY <1>2, <1>11, NoLater DEF HasCause

(* Two chunks of one file are not torn. *)
LEMMA QuietWhole ==
    ASSUME TypeOK, PlacesInv, QuietInv, ~dirty, ReadTorn
    PROVE  FALSE
<1> DEFINE d == disk[name].data
<1>1. /\ pc = "read" /\ name # 0 /\ Matches
      /\ \A p \in DOMAIN got : p[2] \in DOMAIN d /\ got[p] = d[p[2]]
  BY DEF ReadTorn, QuietInv, Underway
<1>2. /\ d \in Contents /\ DOMAIN d = 1..entry.size /\ Len(d) = entry.size /\ entry.size \in Nat
      /\ Place[2] <= entry.size => Chunk = d[Place[2]]
      /\ ~(Place[2] <= entry.size) => Chunk = Eof
  BY <1>1, QuietFacts
<1> HIDE DEF d
<1>3. /\ pass = 1 /\ pos \in Nat /\ pos > 0 /\ Chunk # Eof /\ mode = "lines"
      /\ <<got[<<"body", pos>>], Chunk>> \notin Joined
  BY DEF ReadTorn, TypeOK
<1>4. Fixed = << >> /\ Start = 0
  BY <1>3, FixedElements DEF Sampled, Start
<1>5. Place = <<"body", pos + 1>> /\ PlaceAt(pos - 1) = <<"body", pos>>
  BY <1>3, <1>4 DEF Place, PlaceAt
<1>6. pos + 1 <= entry.size /\ Chunk = d[pos + 1]
  BY <1>2, <1>3, <1>5
<1>7. <<"body", pos>> \in DOMAIN got
  <2>1. DOMAIN got = {PlaceAt(j) : j \in 0..(pos - 1)} /\ pos - 1 \in 0..(pos - 1)
    BY <1>1, <1>3 DEF PlacesInv
  <2> QED
    BY <1>5, <2>1
<1>8. got[<<"body", pos>>] = d[pos]
  BY <1>1, <1>7
<1>9. <<d[pos], d[pos + 1]>> \in {<<d[i], d[i + 1]>> : i \in 1..(Len(d) - 1)}
  BY <1>2, <1>3, <1>6
<1>10. <<d[pos], d[pos + 1]>> \in Joined
  BY <1>2, <1>9 DEF Joined
<1> QED
  BY <1>3, <1>6, <1>8, <1>10

(* A reading of a file left alone does not outgrow the limit unless the     *)
(* file does not fit in what is left of the budget.                         *)
LEMMA QuietFits ==
    ASSUME TypeOK, QuietInv, ~dirty, ReadTooMuch
    PROVE  QuietInv' /\ HasCause
<1>1. /\ pc = "read" /\ name # 0 /\ Matches
      /\ mode \in Limited => entry.size <= Max
      /\ ~InFixed /\ Streams /\ Chunk # Eof /\ TooMuch
  BY DEF ReadTooMuch, QuietInv, Underway
<1>2. /\ entry.size \in Nat /\ Place[2] <= entry.size
  BY <1>1, QuietFacts
<1>3. /\ pos \in Nat /\ Len(Fixed) \in Nat /\ Start \in Nat /\ Left \in Nat /\ Max \in Nat
      /\ Left <= Max
  BY PlaceType, StartType, ReadAssumption DEF TypeOK, Left
<1>4. Start + pos - Len(Fixed) + 1 <= entry.size
  BY <1>1, <1>2 DEF Place, InFixed
<1>5. ASSUME ~(mode = "lines" /\ pass = 1) PROVE FALSE
  <2>1. pos - Len(Fixed) + 1 > Max
    BY <1>1, <1>5 DEF TooMuch
  <2>2. CASE mode = "tail"
    BY <1>2, <1>3, <1>4, <2>1, <2>2, WindowFits
  <2>3. CASE mode # "tail"
    <3>1. mode \in Limited
      BY <1>1, <2>3, ReadAssumption DEF TypeOK, Mode, Limited, Streams, Sampled
    <3> QED
      BY <1>1, <1>2, <1>3, <1>4, <2>1, <3>1
  <2> QED
    BY <2>2, <2>3
<1>6. mode = "lines" /\ Raise("limit")
  BY <1>5 DEF ReadTooMuch
<1>7. entry.size > Left
  <2>1. pos - Len(Fixed) + 1 > Left
    BY <1>1, <1>5 DEF TooMuch
  <2> QED
    BY <1>2, <1>3, <1>4, <2>1
<1> QED
  BY <1>6, <1>7, LimitHasCause DEF Sampled

LEMMA QuietRead ==
    ASSUME TypeOK, PlacesInv, QuietInv, ~dirty, pc # "entry", Read
    PROVE  QuietInv' /\ HasCause
<1>0. TypeOK'
  BY TypeStep DEF Next
<1>1. CASE Open
  <2>1. /\ pc = "open" /\ name # 0 /\ Matches /\ same
        /\ got = << >> /\ pos = 0
    BY <1>1 DEF Open, QuietInv, PlacesInv, Underway
  <2>2. CASE Raise("limit") /\ mode \in Limited /\ entry.size > Max
    <3>1. entry.size > Left
      BY <2>2, StartType, ReadAssumption DEF TypeOK, Left
    <3>2. mode # "tail" /\ (mode \in Sampled => mode = "windows")
      BY <2>2 DEF Limited, Sampled
    <3> QED
      BY <2>2, <3>1, <3>2, LimitHasCause
  <2>3. CASE /\ mode \in Limited => entry.size <= Max
             /\ Goto("read") /\ UNCHANGED <<pass, pos, same>>
    <3>1. /\ pc' = "read" /\ UNCHANGED <<mode, attempt, entry, got, out, disk, name, dirty, pos, same>>
      BY <1>1, <2>3 DEF Open, Goto, world
    <3>2. Len(Fixed)' \in Nat
      BY <1>0, FixedType, LenProperties
    <3>3. Matches' /\ pos' <= Len(Fixed)' /\ DOMAIN got' = {}
      BY <2>1, <3>1, <3>2 DEF Matches, Fingerprint
    <3>4. QuietInv'
      BY <2>1, <2>3, <3>1, <3>3 DEF QuietInv, Underway
    <3> QED
      BY <3>1, <3>4, NoLater DEF HasCause
  <2> QED
    BY <1>1, <2>1, <2>2, <2>3 DEF Open, Limited
<1>2. CASE ReadChunk
  BY <1>2, QuietChunk
<1>3. CASE ReadTorn
  BY <1>3, QuietWhole
<1>4. CASE ReadTooMuch
  BY <1>4, QuietFits
<1>5. CASE Grown
  BY <1>5 DEF Grown, QuietInv, Underway
<1>6. CASE ReadShort
  <2>1. /\ name # 0 /\ Matches /\ InFixed /\ Chunk = Eof
    BY <1>6 DEF ReadShort, QuietInv, Underway
  <2>2. pos + 1 \in 1..Len(Fixed) /\ Place = Fixed[pos + 1]
    <3>1. pos \in Nat /\ Len(Fixed) \in Nat
      BY PlaceType DEF TypeOK
    <3> QED
      BY <2>1, <3>1 DEF InFixed, Place
  <2>3. Place[2] \in 1..entry.size
    BY <2>2, FixedElements DEF Elements
  <2>4. Place[2] <= entry.size
    BY <2>1, <2>3, QuietFacts
  <2> QED
    BY <2>1, <2>4, QuietFacts
<1>7. CASE ReadEnd
  <2>1. /\ pc = "read" /\ name # 0 /\ Matches /\ same /\ ~InFixed
        /\ (Streams => Chunk = Eof)
        /\ pos <= Len(Fixed) \/ Start + pos - Len(Fixed) <= entry.size
    BY <1>7 DEF ReadEnd, QuietInv, Underway
  <2>2. /\ pos \in Nat /\ Len(Fixed) \in Nat /\ Start \in Nat /\ Start <= entry.size
        /\ entry.size \in Nat
    BY PlaceType, StartType DEF TypeOK
  <2>3. Streams => Complete
    <3>1. Streams => ~(Start + pos - Len(Fixed) + 1 <= entry.size)
      BY <2>1, QuietFacts DEF Place, InFixed
    <3>2. pos >= Len(Fixed)
      BY <2>1, <2>2 DEF InFixed
    <3> QED
      BY <2>1, <2>2, <3>1, <3>2 DEF Complete
  <2>4. mode = "file" => Streams
    BY DEF Streams, Sampled
  <2>5. /\ same' = (same /\ (Streams => Complete))
        /\ \/ pass' = 2 /\ pos' = 0 /\ Goto("read")
           \/ UNCHANGED <<pass, pos>> /\ Goto("stat")
    BY <1>7, <2>3, <2>4 DEF ReadEnd
  <2>6. same' /\ UNCHANGED <<world, dirty>> /\ pc \in Underway \ {"open"}
    BY <1>7, <2>1, <2>3, <2>5 DEF ReadEnd, Underway
  <2> QED
    BY <1>0, <2>5, <2>6, GoQuiet
<1>8. CASE Stat
  <2>1. /\ pc = "stat" /\ name # 0 /\ Matches /\ same
    BY <1>8 DEF Stat, QuietInv, Underway
  <2>2. same' /\ UNCHANGED <<world, dirty>> /\ pc \in Underway \ {"open"}
    BY <1>8, <2>1, QuietFacts DEF Stat, Underway
  <2>3. Goto("middle") \/ Goto("after")
    BY <1>8 DEF Stat
  <2> QED
    BY <1>0, <2>2, <2>3, GoQuiet
<1>9. CASE Middle
  <2>1. /\ pc = "middle" /\ name # 0 /\ Matches /\ same
    BY <1>9 DEF Middle, QuietInv, Underway
  <2>2. same' /\ pos' = 0 /\ Goto("read") /\ UNCHANGED <<world, dirty>> /\ pc \in Underway \ {"open"}
    BY <1>9, <2>1 DEF Middle, Underway
  <2> QED
    BY <1>0, <2>2, GoQuiet
<1>10. CASE After
  <2>1. /\ pc = "after" /\ name # 0 /\ Matches /\ same
        /\ mode \in Limited => entry.size <= Max
    BY <1>10 DEF After, QuietInv, Underway
  <2>2. CASE used + Charge > Max /\ Raise("limit")
    <3>1. Charge > Left
      <4>1. used \in Nat /\ Max \in Nat /\ Charge \in Nat
        BY ChargeType, ReadAssumption DEF TypeOK
      <4> QED
        BY <2>2, <4>1 DEF Left
    <3>2. CASE mode = "tail"
      <4>1. HeadSize > Left
        <5>1. ~(Charge <= Left) /\ HeadSize \in Nat /\ Left \in Nat
          BY <3>1, ChargeType, StartType
        <5> QED
          BY <3>2, <5>1, WindowFits
      <4>2. mode \notin Sampled
        BY <3>2 DEF Sampled
      <4> QED
        BY <2>2, <3>2, <4>1, <4>2, LimitHasCause
    <3>3. CASE mode \in Sampled
      <4>1. Charge = Len(Fixed) /\ mode # "tail"
        BY <3>3 DEF Charge, Sampled
      <4> QED
        BY <2>2, <3>1, <3>3, <4>1, LimitHasCause
    <3>4. CASE mode \notin Sampled \cup {"tail"}
      <4>1. Charge = entry.size
        BY <3>4 DEF Charge
      <4> QED
        BY <2>2, <3>1, <3>4, <4>1, LimitHasCause
    <3> QED
      BY <3>2, <3>3, <3>4
  <2>3. CASE pc' = "idle" /\ out' = "ok" /\ UNCHANGED <<mode, attempt, entry, pass, pos, got, same>>
    BY <2>3, NoLater DEF QuietInv, Underway, HasCause
  <2> QED
    BY <1>10, <2>1, <2>2, <2>3 DEF After
<1> QED
  BY <1>1, <1>2, <1>3, <1>4, <1>5, <1>6, <1>7, <1>8, <1>9, <1>10 DEF Read, Entry

LEMMA QuietStep ==
    ASSUME TypeOK, PlacesInv, QuietInv, Next
    PROVE  QuietInv' /\ HasCause
<1>1. CASE \E m \in Modes : Call(m)
  <2>1. /\ pc' \in {"idle", "entry"} /\ attempt' = 1
        /\ out' = "none" \/ (out' = "unsafe" /\ dirty')
    BY <1>1 DEF Call
  <2>2. ~(attempt' > attempt)
    BY <2>1, ReadAssumption DEF TypeOK
  <2> QED
    BY <2>1, <2>2 DEF QuietInv, Underway, HasCause
<1>2. CASE Entry
  <2>1. CASE name = 0
    <3>1. dirty' /\ (Raise("busy") \/ Again)
      BY <1>2, <2>1 DEF Entry, Busy
    <3>2. out' # "limit" \/ out' = out
      BY <3>1 DEF Raise, Again
    <3>3. QuietInv'
      BY <3>1 DEF QuietInv
    <3>4. HasCause
      BY <3>1, <3>2 DEF HasCause
    <3> QED
      BY <3>3, <3>4
  <2>2. CASE name # 0
    <3>1. /\ entry' = Fingerprint(name) /\ pc' = "open" /\ same' /\ DOMAIN got' = {}
          /\ UNCHANGED <<attempt, out, disk, name>>
      <4>1. got = << >> /\ same
        BY <1>2 DEF Entry, PlacesInv
      <4>2. /\ entry' = Fingerprint(name) /\ pc' = "open"
            /\ UNCHANGED <<attempt, out, disk, name, got, same>>
        BY <1>2, <2>2 DEF Entry, world
      <4>3. DOMAIN got' = {}
        BY <4>1, <4>2
      <4> QED
        BY <4>1, <4>2, <4>3
    <3>2. Matches'
      BY <3>1 DEF Matches, Fingerprint
    <3>3. QuietInv'
      BY <2>2, <3>1, <3>2 DEF QuietInv
    <3> QED
      BY <3>1, <3>3, NoLater DEF HasCause
  <2> QED
    BY <2>1, <2>2
<1>3. CASE Read /\ pc # "entry" /\ ~dirty
  BY <1>3, QuietRead
<1>4. CASE Read /\ pc # "entry" /\ dirty
  <2>1. dirty' = dirty
    BY <1>4 DEF Read, Entry, Open, ReadChunk, ReadTorn, ReadTooMuch, Grown, ReadShort, ReadEnd,
                Stat, Middle, After
  <2> QED
    BY <1>4, <2>1 DEF QuietInv, HasCause
<1>5. CASE Agent
  <2>1. dirty' = TRUE /\ UNCHANGED <<attempt, out>>
    BY <1>5 DEF Agent, Write, Replace, Rename, Acts, reader
  <2> QED
    BY <2>1 DEF QuietInv, HasCause
<1>6. CASE Read /\ pc = "entry"
  BY <1>2, <1>6 DEF Read, Open, ReadChunk, ReadTorn, ReadTooMuch, Grown, ReadShort, ReadEnd,
                    Stat, Middle, After
<1> QED
  BY <1>1, <1>3, <1>4, <1>5, <1>6 DEF Next

LEMMA QuietStutters ==
    ASSUME QuietInv, UNCHANGED vars
    PROVE  QuietInv'
<1>1. /\ UNCHANGED <<disk, name, pc, mode, entry, pos, got, same, used, dirty, pass>>
  BY DEF vars, world, reader
<1>2. Matches' = Matches /\ Start' = Start /\ Fixed' = Fixed
  BY <1>1, SamePlaces DEF Matches, Fingerprint
<1> QED
  BY <1>1, <1>2 DEF QuietInv

(* A stable read gives up an attempt, or fails as busy, unsafe or corrupt,  *)
(* only if the agent acted during the attempt, and refuses a file left      *)
(* alone for its size only if what it has to read does not fit in what is   *)
(* left of the budget (snapshot.py, the five entry points).                 *)
THEOREM EveryFailureHasCause == Spec => FailureHasCause
<1>1. Init => QuietInv
  BY DEF Init, QuietInv, Underway
<1>2. TypeOK /\ PlacesInv /\ QuietInv /\ [Next]_vars => QuietInv' /\ [HasCause]_vars
  BY QuietStep, QuietStutters
<1> QED
  BY <1>1, <1>2, PlacesAlways, PTL DEF Spec, FailureHasCause, HasCause
=============================================================================
