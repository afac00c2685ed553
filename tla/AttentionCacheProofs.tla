--------------------- MODULE AttentionCacheProofs ----------------------
(***************************************************************************)
(* The backend of a worker, for any tasks, slices, chunks and bounds:      *)
(* it runs what is asked of it, and its attention context is right exactly *)
(* for uninterrupted generations.                                          *)
(*                                                                         *)
(* The invariants are inductive together with LastCall, which ties the     *)
(* resident slice and the last cache entry to the last call of the log:    *)
(* without it nothing says whose entries a call extends.                   *)
(***************************************************************************)
EXTENDS AttentionCache, SequenceTheorems, TLAPS

\* The resident slice is what loading its range gives.
SliceIsLoaded ==
  \/ model = NoModel
  \/ model.range \in Ranges /\ model = LoadSlice(model.range)

\* After the last call its slice is resident and, if it ran a layer, the
\* newest cache entry is its last token.
LastCall ==
  /\ log = <<>> => model = NoModel /\ cache = <<>>
  /\ log # <<>> =>
       LET last == log[Len(log)]
       IN  /\ failure = "none"
           /\ model.range = last.range
           /\ last.ran # {} => /\ cache # <<>>
                               /\ cache[Len(cache)] = <<last.task, last.pos + last.len - 1>>

CacheInv ==
  /\ CacheTypeOK
  /\ SliceIsLoaded
  /\ LastCall
  /\ RunsWhatIsAsked
  /\ NoPieceMissing
  /\ ContextIsOwnPrefix

------------------------------------------------------------------------
(* Cache entries.                                                          *)

\* The entries of a call are a sequence of as many tasks and positions as the
\* call has tokens.
LEMMA EntriesType ==
  ASSUME NEW t \in Tasks, NEW pos \in Nat, NEW len \in Nat
  PROVE  /\ Entries(t, pos, len) \in Seq(Tasks \X Nat)
         /\ Len(Entries(t, pos, len)) = len
         /\ \A i \in 1 .. len : Entries(t, pos, len)[i] = <<t, pos + i - 1>>
<1>1. Entries(t, pos, len) \in [1 .. len -> Tasks \X Nat]
  BY DEF Entries
<1>2. Entries(t, pos, len) \in Seq(Tasks \X Nat)
  BY <1>1
<1>3. DOMAIN Entries(t, pos, len) = 1 .. len
  BY DEF Entries
<1>4. Len(Entries(t, pos, len)) = len
  BY <1>2, <1>3, LenProperties
<1> QED BY <1>2, <1>4 DEF Entries

\* A cache extended by the tokens from pos on is the task's prefix up to their
\* end exactly if it was the prefix up to pos.
LEMMA ExtendingAPrefix ==
  ASSUME NEW t \in Tasks, NEW pos \in Nat, NEW len \in Nat,
         NEW old \in Seq(Tasks \X Nat)
  PROVE  old \o Entries(t, pos, len) = Entries(t, 0, pos + len)
           <=> old = Entries(t, 0, pos)
<1> DEFINE whole == Entries(t, 0, pos + len)
           begin == Entries(t, 0, pos)
           more  == Entries(t, pos, len)
<1>0. 0 \in Nat /\ pos + len \in Nat
  OBVIOUS
<1>1. /\ whole \in Seq(Tasks \X Nat) /\ Len(whole) = pos + len
      /\ \A i \in 1 .. (pos + len) : whole[i] = <<t, 0 + i - 1>>
  BY <1>0, EntriesType, Zenon
<1>2. /\ begin \in Seq(Tasks \X Nat) /\ Len(begin) = pos
      /\ \A i \in 1 .. pos : begin[i] = <<t, 0 + i - 1>>
  BY <1>0, EntriesType, Zenon
<1>3. /\ more \in Seq(Tasks \X Nat) /\ Len(more) = len
      /\ \A i \in 1 .. len : more[i] = <<t, pos + i - 1>>
  BY EntriesType
<1> HIDE DEF whole, begin, more
<1>4. ASSUME old = begin PROVE old \o more = whole
  <2>1. /\ begin \o more \in Seq(Tasks \X Nat)
        /\ Len(begin \o more) = pos + len
        /\ \A i \in 1 .. (pos + len) :
             (begin \o more)[i] = IF i <= pos THEN begin[i] ELSE more[i - pos]
    BY <1>2, <1>3, ConcatProperties
  <2>2. ASSUME NEW i \in 1 .. (pos + len) PROVE (begin \o more)[i] = whole[i]
    <3>1. CASE i <= pos
      <4>1. i \in 1 .. pos
        BY <3>1
      <4>2. (begin \o more)[i] = begin[i]
        BY <2>1, <3>1
      <4>3. begin[i] = <<t, 0 + i - 1>>
        BY <4>1, <1>2
      <4> QED BY <4>2, <4>3, <1>1
    <3>2. CASE ~ (i <= pos)
      <4>1. i - pos \in 1 .. len /\ pos + (i - pos) - 1 = 0 + i - 1
        BY <3>2
      <4>2. (begin \o more)[i] = more[i - pos]
        BY <2>1, <3>2
      <4>3. more[i - pos] = <<t, pos + (i - pos) - 1>>
        BY <4>1, <1>3
      <4> QED BY <4>1, <4>2, <4>3, <1>1
    <3> QED BY <3>1, <3>2
  <2> QED BY <1>4, <2>1, <2>2, <1>1, SeqEqual
<1>5. ASSUME old \o more = whole PROVE old = begin
  <2>1. /\ Len(old \o more) = Len(old) + len
        /\ \A i \in 1 .. (Len(old) + len) :
             (old \o more)[i] = IF i <= Len(old) THEN old[i] ELSE more[i - Len(old)]
    BY <1>3, ConcatProperties
  <2>2. Len(old) \in Nat
    BY LenProperties
  <2>3. Len(old) = pos
    BY <1>5, <2>1, <2>2, <1>1
  <2>4. ASSUME NEW i \in 1 .. pos PROVE old[i] = begin[i]
    <3>1. i \in 1 .. (pos + len)
      OBVIOUS
    <3>2. (old \o more)[i] = old[i]
      BY <2>1, <2>3, <3>1
    <3>3. whole[i] = begin[i]
      BY <3>1, <1>1, <1>2
    <3> QED BY <1>5, <3>2, <3>3
  <2> QED BY <2>3, <2>4, <1>2, SeqEqual
<1> QED BY <1>4, <1>5 DEF whole, begin, more

------------------------------------------------------------------------
(* The resident slice.                                                     *)

\* Loading gives a slice of the model, with the pieces of its ends.
LEMMA LoadedSlice ==
  ASSUME NEW r \in Ranges
  PROVE  /\ LoadSlice(r) \in
              [range : Ranges, offset : 0 .. ModelLayers, count : 0 .. ModelLayers,
               embeddings : BOOLEAN, head : BOOLEAN]
         /\ LoadSlice(r).range = r
         /\ r[1] = 0 => LoadSlice(r).embeddings
         /\ r[2] >= ModelLayers => LoadSlice(r).head
         /\ LayersRun(LoadSlice(r), r)
              = {l \in 0 .. (ModelLayers - 1) : r[1] <= l /\ l < r[2]}
<1>1. r[1] \in Nat /\ r[2] \in Nat /\ r[1] < r[2] /\ ModelLayers \in Nat \ {0}
  BY AttentionCacheAssumption DEF Ranges
<1>2. LoadSlice(r) \in
        [range : Ranges, offset : 0 .. ModelLayers, count : 0 .. ModelLayers,
         embeddings : BOOLEAN, head : BOOLEAN]
  BY <1>1 DEF LoadSlice, AtMost, AtLeast
<1>3. /\ LoadSlice(r).range = r
      /\ r[1] = 0 => LoadSlice(r).embeddings
      /\ r[2] >= ModelLayers => LoadSlice(r).head
  <2> DEFINE start == AtMost(r[1], ModelLayers)
             end   == AtLeast(AtMost(r[2], ModelLayers), start)
  <2>1. /\ r[1] = 0 => start = 0
        /\ r[2] >= ModelLayers => end >= ModelLayers
    BY <1>1 DEF AtMost, AtLeast
  <2> HIDE DEF start, end
  <2>2. LoadSlice(r) = [range |-> r, offset |-> start, count |-> end - start,
                        embeddings |-> start = 0, head |-> end >= ModelLayers]
    BY Zenon DEF LoadSlice, start, end
  <2>3. LoadSlice(r).range = r
    BY <2>2
  <2>4. LoadSlice(r).embeddings = (start = 0)
    BY <2>2
  <2>5. LoadSlice(r).head = (end >= ModelLayers)
    BY <2>2
  <2> QED BY <2>1, <2>3, <2>4, <2>5, Zenon
<1>4. LayersRun(LoadSlice(r), r) = {l \in 0 .. (ModelLayers - 1) : r[1] <= l /\ l < r[2]}
  BY <1>1 DEF LoadSlice, LayersRun, AtMost, AtLeast
<1> QED BY <1>2, <1>3, <1>4

\* Whatever was resident, a call runs on the slice of its range; if the slice
\* was not loaded anew it was that of the last call.
LEMMA ResidentSlice ==
  ASSUME CacheInv, NEW r \in Ranges
  PROVE  /\ Resident(r) = LoadSlice(r)
         /\ CacheBefore(r) \in Seq(Tasks \X Nat)
         /\ CacheBefore(r) # <<>> =>
              log # <<>> /\ log[Len(log)].range = r /\ CacheBefore(r) = cache
         /\ log # <<>> /\ log[Len(log)].range = r => CacheBefore(r) = cache
<1>1. <<>> # r
  BY DEF Ranges
<1>2. NoModel.range = <<>>
  BY DEF NoModel
<1>3. Resident(r) = LoadSlice(r)
  BY <1>1, <1>2 DEF CacheInv, SliceIsLoaded, Resident
<1>4. LoadSlice(r).range = r
  BY LoadedSlice
<1>5. CacheBefore(r) \in Seq(Tasks \X Nat)
  BY DEF CacheBefore, CacheInv, CacheTypeOK
<1>6. ASSUME CacheBefore(r) # <<>>
      PROVE  log # <<>> /\ log[Len(log)].range = r /\ CacheBefore(r) = cache
  <2>1. model = LoadSlice(r) /\ CacheBefore(r) = cache
    BY <1>6, <1>3 DEF CacheBefore
  <2>2. log # <<>>
    BY <2>1, <1>6 DEF CacheInv, LastCall
  <2> QED BY <2>1, <2>2, <1>4 DEF CacheInv, LastCall
<1>7. ASSUME log # <<>>, log[Len(log)].range = r PROVE CacheBefore(r) = cache
  <2>1. model.range = r
    BY <1>7 DEF CacheInv, LastCall
  <2> QED BY <2>1 DEF Resident, CacheBefore
<1> QED BY <1>3, <1>5, <1>6, <1>7

------------------------------------------------------------------------
(* One call.                                                               *)

\* The calls of a log that another call was appended to.
LEMMA AppendedCall ==
  ASSUME NEW l \in Seq(Calls), NEW c \in Calls
  PROVE  /\ Append(l, c) \in Seq(Calls)
         /\ Len(l) \in Nat /\ Len(Append(l, c)) = Len(l) + 1
         /\ DOMAIN l = 1 .. Len(l) /\ DOMAIN Append(l, c) = 1 .. (Len(l) + 1)
         /\ Append(l, c)[Len(l) + 1] = c
         /\ \A i \in 1 .. Len(l) : Append(l, c)[i] = l[i] /\ l[i] \in Calls
         /\ Append(l, c) # <<>>
         /\ l # <<>> <=> Len(l) > 0
OBVIOUS


\* A call that goes on with its task is one more of an uninterrupted run
\* exactly if the run reached its position, on the same slice.
LEMMA RunGoesOn ==
  ASSUME NEW l \in Seq(Calls), NEW c \in Calls, c.pos > 0,
         log = l, log' = Append(l, c)
  PROVE  (\E i \in DOMAIN log' : Uninterrupted(i)')
           <=> /\ l # <<>>
               /\ l[Len(l)].task = c.task /\ l[Len(l)].range = c.range
               /\ c.pos = l[Len(l)].pos + l[Len(l)].len
               /\ \E i \in DOMAIN log : Uninterrupted(i)
<1> DEFINE n == Len(l)
<1>1. /\ n \in Nat /\ Len(log') = n + 1
      /\ DOMAIN log = 1 .. n /\ DOMAIN log' = 1 .. (n + 1)
      /\ log'[n + 1] = c
      /\ \A i \in 1 .. n : log'[i] = log[i] /\ log[i] \in Calls
      /\ l # <<>> <=> n > 0
  BY AppendedCall
<1>2. c.pos # 0
  BY DEF Calls
<1> HIDE DEF n
<1>3. ASSUME NEW i \in DOMAIN log', Uninterrupted(i)'
      PROVE  /\ n > 0 /\ i \in 1 .. n /\ Uninterrupted(i)
             /\ log[n].task = c.task /\ log[n].range = c.range
             /\ c.pos = log[n].pos + log[n].len
  <2>1. i \in 1 .. n
    BY <1>1, <1>2, <1>3 DEF Uninterrupted
  <2>2. n \in i .. ((n + 1) - 1)
    BY <2>1, <1>1
  <2>3. /\ log'[n + 1].task = log'[n].task /\ log'[n + 1].range = log'[n].range
        /\ log'[n + 1].pos = log'[n].pos + log'[n].len
    BY <2>2, <1>1, <1>3 DEF Uninterrupted
  <2>4. log'[n] = log[n] /\ n > 0
    BY <2>1, <1>1
  <2>5. Uninterrupted(i)
    <3>1. log[i].pos = 0
      BY <2>1, <1>1, <1>3 DEF Uninterrupted
    <3>2. ASSUME NEW j \in i .. (n - 1)
          PROVE  /\ log[j + 1].task = log[j].task /\ log[j + 1].range = log[j].range
                 /\ log[j + 1].pos = log[j].pos + log[j].len
      <4>1. j \in i .. ((n + 1) - 1) /\ j \in 1 .. n /\ j + 1 \in 1 .. n
        BY <2>1, <1>1
      <4> QED BY <4>1, <1>1, <1>3 DEF Uninterrupted
    <3> QED BY <3>1, <3>2 DEF Uninterrupted, n
  <2> QED BY <2>1, <2>3, <2>4, <2>5, <1>1
<1>4. ASSUME n > 0, NEW i \in DOMAIN log, Uninterrupted(i),
             log[n].task = c.task, log[n].range = c.range,
             c.pos = log[n].pos + log[n].len
      PROVE  i \in DOMAIN log' /\ Uninterrupted(i)'
  <2>1. i \in 1 .. n /\ i \in DOMAIN log'
    BY <1>1
  <2>2. log'[i].pos = 0
    BY <2>1, <1>1, <1>4 DEF Uninterrupted
  <2>3. ASSUME NEW j \in i .. ((n + 1) - 1)
        PROVE  /\ log'[j + 1].task = log'[j].task /\ log'[j + 1].range = log'[j].range
               /\ log'[j + 1].pos = log'[j].pos + log'[j].len
    <3>1. CASE j = n
      BY <3>1, <1>1, <1>4
    <3>2. CASE j # n
      <4>1. j \in i .. (n - 1) /\ j \in 1 .. n /\ j + 1 \in 1 .. n
        BY <3>2, <2>1, <1>1
      <4>2. Len(log) = n
        BY DEF n
      <4> QED BY <4>1, <4>2, <1>1, <1>4 DEF Uninterrupted
    <3> QED BY <3>1, <3>2
  <2> QED BY <2>1, <2>2, <2>3, <1>1 DEF Uninterrupted
<1>5. log[n] = l[Len(l)] /\ (l # <<>> <=> n > 0)
  BY <1>1 DEF n
<1>6. (\E i \in DOMAIN log' : Uninterrupted(i)')
        => /\ n > 0
           /\ log[n].task = c.task /\ log[n].range = c.range
           /\ c.pos = log[n].pos + log[n].len
           /\ \E i \in DOMAIN log : Uninterrupted(i)
  BY <1>1, <1>3, Zenon
<1>7. (/\ n > 0
       /\ log[n].task = c.task /\ log[n].range = c.range
       /\ c.pos = log[n].pos + log[n].len
       /\ \E i \in DOMAIN log : Uninterrupted(i))
        => (\E i \in DOMAIN log' : Uninterrupted(i)')
  BY <1>4, Zenon
<1> QED BY <1>5, <1>6, <1>7, Zenon

\* The state before any call.
LEMMA InitIsCacheInv == Init => CacheInv
BY DEF Init, CacheInv, CacheTypeOK, SliceIsLoaded, LastCall, RunsWhatIsAsked,
       NoPieceMissing, ContextIsOwnPrefix

\* A backend that was dropped, by a failure or a restart.
LEMMA DroppedIsCacheInv ==
  ASSUME model' = NoModel, cache' = <<>>, log' = <<>>,
         failure' \in {"none", "rotary", "mask"}
  PROVE  CacheInv'
BY DEF CacheInv, CacheTypeOK, SliceIsLoaded, LastCall, RunsWhatIsAsked,
       NoPieceMissing, ContextIsOwnPrefix

\* The slice of a call that runs has every piece the call needs.
LEMMA NeverAPiece ==
  ASSUME NEW r \in Ranges, NEW c, c.range = r, NEW new
  PROVE  WhatFails(LoadSlice(r), c, new) \in {"none", "rotary", "mask"}
BY LoadedSlice DEF WhatFails

\* A call that succeeds.
LEMMA CallKeeps ==
  ASSUME CacheInv, NEW t \in Tasks, NEW r \in Ranges, NEW pos \in Nat,
         NEW len \in ChunkLens, NEW c, NEW new,
         c = [task |-> t, range |-> r, pos |-> pos, len |-> len,
              ran |-> LayersRun(LoadSlice(r), r)],
         new = IF c.ran = {} THEN CacheBefore(r)
               ELSE Extended(CacheBefore(r), t, pos, len),
         model' = LoadSlice(r), cache' = new, log' = Append(log, c),
         failure' = "none"
  PROVE  CacheInv'
<1> DEFINE base  == CacheBefore(r)
           asked == {l \in 0 .. (ModelLayers - 1) : r[1] <= l /\ l < r[2]}
<1>1. len \in Nat /\ len > 0
  BY AttentionCacheAssumption
<1>2. /\ c.task = t /\ c.range = r /\ c.pos = pos /\ c.len = len /\ c.ran = asked
      /\ c \in Calls
  BY LoadedSlice DEF Calls
<1>3. /\ log \in Seq(Calls) /\ log' \in Seq(Calls)
      /\ Len(log) \in Nat /\ Len(log') = Len(log) + 1
      /\ DOMAIN log = 1 .. Len(log) /\ DOMAIN log' = 1 .. (Len(log) + 1)
      /\ log'[Len(log) + 1] = c /\ log'[Len(log')] = c
      /\ \A i \in 1 .. Len(log) : log'[i] = log[i] /\ log[i] \in Calls
      /\ log' # <<>>
      /\ log # <<>> <=> Len(log) > 0
  BY <1>2, AppendedCall DEF CacheInv, CacheTypeOK
<1>4. /\ base \in Seq(Tasks \X Nat)
      /\ base # <<>> => log # <<>> /\ log[Len(log)].range = r /\ base = cache
      /\ log # <<>> /\ log[Len(log)].range = r => base = cache
  BY ResidentSlice
<1>5. /\ Entries(t, pos, len) \in Seq(Tasks \X Nat)
      /\ Len(Entries(t, pos, len)) = len
      /\ Entries(t, pos, len)[len] = <<t, pos + len - 1>>
  <2>1. /\ Entries(t, pos, len) \in Seq(Tasks \X Nat)
        /\ Len(Entries(t, pos, len)) = len
        /\ \A i \in 1 .. len : Entries(t, pos, len)[i] = <<t, pos + i - 1>>
    BY <1>1, EntriesType, Zenon
  <2>2. len \in 1 .. len
    BY <1>1
  <2> QED BY <2>1, <2>2, Zenon
<1> HIDE DEF base, asked
<1>6. ASSUME c.ran # {}
      PROVE  /\ new \in Seq(Tasks \X Nat) /\ new # <<>>
             /\ new[Len(new)] = <<t, pos + len - 1>>
  <2>1. CASE pos = 0
    <3>1. new = Entries(t, pos, len)
      BY <1>6, <2>1 DEF Extended, base
    <3> QED BY <3>1, <1>5, <1>1
  <2>2. CASE pos # 0
    <3>1. new = base \o Entries(t, pos, len)
      BY <1>6, <2>2 DEF Extended, base
    <3> DEFINE more == Entries(t, pos, len)
    <3>2. more \in Seq(Tasks \X Nat) /\ Len(more) = len
          /\ more[len] = <<t, pos + len - 1>>
      BY <1>5
    <3> HIDE DEF more
    <3>3. /\ base \o more \in Seq(Tasks \X Nat)
          /\ Len(base \o more) = Len(base) + len
          /\ \A i \in 1 .. (Len(base) + len) :
               (base \o more)[i] = IF i <= Len(base) THEN base[i] ELSE more[i - Len(base)]
      BY <1>4, <3>2, ConcatProperties
    <3>4. /\ Len(base) \in Nat /\ Len(base) + len \in 1 .. (Len(base) + len)
          /\ ~ (Len(base) + len <= Len(base)) /\ (Len(base) + len) - Len(base) = len
      BY <1>1, <1>4, LenProperties
    <3>5. (base \o more)[Len(base) + len] = more[len]
      BY <3>3, <3>4
    <3>6. base \o more # <<>>
      BY <3>3, <3>4
    <3> QED BY <3>1, <3>2, <3>3, <3>5, <3>6 DEF more
  <2> QED BY <2>1, <2>2
<1>7. CacheTypeOK'
  <2>1. new \in Seq(Tasks \X Nat)
    BY <1>4, <1>6 DEF base
  <2> QED BY <2>1, <1>3, LoadedSlice DEF CacheTypeOK
<1>8. SliceIsLoaded'
  BY LoadedSlice DEF SliceIsLoaded
<1>9. LastCall'
  BY <1>2, <1>3, <1>6, LoadedSlice, SMTT(30) DEF LastCall
<1>10. RunsWhatIsAsked'
  BY <1>2, <1>3 DEF RunsWhatIsAsked, CacheInv, asked
<1>11. NoPieceMissing'
  BY DEF NoPieceMissing
<1>12. ContextIsOwnPrefix'
  <2> SUFFICES ASSUME c.ran # {}
               PROVE  new = Entries(t, 0, pos + len)
                        <=> (\E i \in DOMAIN log' : Uninterrupted(i)')
    BY <1>2, <1>3 DEF ContextIsOwnPrefix
  <2>1. CASE pos = 0
    <3>1. new = Entries(t, 0, pos + len)
      BY <2>1, <1>1 DEF Extended
    <3>2. PICK i \in DOMAIN log' : i = Len(log')
      BY <1>3
    <3>3. log'[i].pos = 0
      BY <3>2, <2>1, <1>2, <1>3
    <3>4. i .. (Len(log') - 1) = {}
      BY <3>2, <1>3
    <3>5. Uninterrupted(i)'
      BY <3>3, <3>4 DEF Uninterrupted
    <3> QED BY <3>1, <3>5
  <2>2. CASE pos > 0
    <3>1. new = base \o Entries(t, pos, len)
      BY <2>2 DEF Extended, base
    <3>2. new = Entries(t, 0, pos + len) <=> base = Entries(t, 0, pos)
      <4>1. base \o Entries(t, pos, len) = Entries(t, 0, pos + len)
              <=> base = Entries(t, 0, pos)
        BY <1>1, <1>4, ExtendingAPrefix, Zenon
      <4> QED BY <3>1, <4>1, Zenon
    <3> DEFINE goesOn == /\ log # <<>>
                         /\ log[Len(log)].task = t /\ log[Len(log)].range = r
                         /\ pos = log[Len(log)].pos + log[Len(log)].len
                         /\ \E i \in DOMAIN log : Uninterrupted(i)
    <3>3. (\E i \in DOMAIN log' : Uninterrupted(i)') <=> goesOn
      BY <2>2, <1>2, <1>3, RunGoesOn
    <3>4. ASSUME log # <<>>, log[Len(log)].range = r
          PROVE  /\ log[Len(log)].ran # {}
                 /\ log[Len(log)].pos \in Nat /\ log[Len(log)].len \in Nat
      <4>1. Len(log) \in 1 .. Len(log)
        BY <1>3, <3>4
      <4>2. log[Len(log)].ran = asked
        BY <4>1, <3>4, <1>3 DEF CacheInv, RunsWhatIsAsked, asked
      <4> QED BY <4>1, <4>2, <1>2, <1>3, AttentionCacheAssumption DEF Calls
    <3>5. ASSUME base = Entries(t, 0, pos) PROVE goesOn
      <4>1. Len(base) = pos /\ base[pos] = <<t, 0 + pos - 1>> /\ base # <<>>
        <5>1. /\ Len(Entries(t, 0, pos)) = pos /\ 0 \in Nat
              /\ \A i \in 1 .. pos : Entries(t, 0, pos)[i] = <<t, 0 + i - 1>>
          BY EntriesType, Zenon
        <5>2. pos \in 1 .. pos
          BY <2>2
        <5>3. base[pos] = <<t, 0 + pos - 1>> /\ Len(base) = pos
          BY <5>1, <5>2, <3>5, Zenon
        <5> QED BY <5>3, <2>2
      <4>2. log # <<>> /\ log[Len(log)].range = r /\ base = cache
        BY <4>1, <1>4
      <4>3. cache[pos] = <<log[Len(log)].task, log[Len(log)].pos + log[Len(log)].len - 1>>
        BY <4>1, <4>2, <3>4 DEF CacheInv, LastCall
      <4>4. /\ log[Len(log)].task = t
            /\ log[Len(log)].pos + log[Len(log)].len - 1 = 0 + pos - 1
        BY <4>1, <4>2, <4>3
      <4>5. pos = log[Len(log)].pos + log[Len(log)].len
        BY <4>2, <4>4, <3>4
      <4>6. \E i \in DOMAIN log : Uninterrupted(i)
        BY <4>2, <4>4, <4>5, <3>4, <3>5 DEF CacheInv, ContextIsOwnPrefix
      <4> QED BY <4>2, <4>4, <4>5, <4>6
    <3>6. ASSUME goesOn PROVE base = Entries(t, 0, pos)
      BY <3>6, <3>4, <1>4 DEF CacheInv, ContextIsOwnPrefix
    <3> QED BY <3>2, <3>3, <3>5, <3>6
  <2> QED BY <2>1, <2>2
<1> QED BY <1>7, <1>8, <1>9, <1>10, <1>11, <1>12 DEF CacheInv

\* Every step keeps the invariant.
LEMMA CacheStepKeeps == CacheInv /\ [Next]_cacheVars => CacheInv'
<1> SUFFICES ASSUME CacheInv, [Next]_cacheVars PROVE CacheInv'
  OBVIOUS
<1>1. ASSUME NEW t \in Tasks, NEW r \in Ranges, NEW pos \in 0 .. MaxSeqLen,
             NEW len \in ChunkLens, Call(t, r, pos, len)
      PROVE  CacheInv'
  <2> DEFINE ran == LayersRun(LoadSlice(r), r)
             c   == [task |-> t, range |-> r, pos |-> pos, len |-> len, ran |-> ran]
             new == IF c.ran = {} THEN CacheBefore(r)
                    ELSE Extended(CacheBefore(r), t, pos, len)
  <2>1. Resident(r) = LoadSlice(r) /\ pos \in Nat /\ c.ran = ran /\ c.range = r
    BY ResidentSlice, AttentionCacheAssumption
  <2>2. /\ failure' = WhatFails(LoadSlice(r), c, new)
        /\ IF WhatFails(LoadSlice(r), c, new) = "none"
             THEN model' = LoadSlice(r) /\ cache' = new /\ log' = Append(log, c)
             ELSE model' = NoModel /\ cache' = <<>> /\ log' = <<>>
    BY <1>1, <2>1 DEF Call
  <2>3. WhatFails(LoadSlice(r), c, new) \in {"none", "rotary", "mask"}
    BY <2>1, NeverAPiece
  <2> HIDE DEF c, new
  <2>4. CASE WhatFails(LoadSlice(r), c, new) = "none"
    <3>1. /\ c = [task |-> t, range |-> r, pos |-> pos, len |-> len,
                  ran |-> LayersRun(LoadSlice(r), r)]
          /\ new = IF c.ran = {} THEN CacheBefore(r)
                   ELSE Extended(CacheBefore(r), t, pos, len)
      BY DEF c, new
    <3> QED BY <2>1, <2>2, <2>4, <3>1, CallKeeps
  <2>5. CASE WhatFails(LoadSlice(r), c, new) # "none"
    BY <2>2, <2>3, <2>5, DroppedIsCacheInv
  <2> QED BY <2>4, <2>5
<1>2. CASE Restart
  BY <1>2, DroppedIsCacheInv DEF Restart
<1>3. CASE UNCHANGED cacheVars
  BY <1>3 DEF cacheVars, CacheInv, CacheTypeOK, SliceIsLoaded, LastCall,
     RunsWhatIsAsked, NoPieceMissing, ContextIsOwnPrefix, Uninterrupted
<1> QED BY <1>1, <1>2, <1>3 DEF Next

\* The invariants of the backend and what ties them together.
THEOREM CacheInvariant == Spec => []CacheInv
  BY InitIsCacheInv, CacheStepKeeps, PTL DEF Spec

\* Type correctness of the backend: no call runs a layer outside of the model.
THEOREM CacheIsTyped == Spec => []CacheTypeOK
<1>1. CacheInv => CacheTypeOK
  BY DEF CacheInv
<1> QED BY <1>1, CacheInvariant, PTL

\* A call attends to its own prefix exactly if nothing came between.
THEOREM ContextIsExact == Spec => []ContextIsOwnPrefix
<1>1. CacheInv => ContextIsOwnPrefix
  BY DEF CacheInv
<1> QED BY <1>1, CacheInvariant, PTL

\* Every call runs the layers it asks for.
THEOREM EveryCallRunsItsLayers == Spec => []RunsWhatIsAsked
<1>1. CacheInv => RunsWhatIsAsked
  BY DEF CacheInv
<1> QED BY <1>1, CacheInvariant, PTL

\* No call misses the embeddings or the output head.
THEOREM PiecesAreThere == Spec => []NoPieceMissing
<1>1. CacheInv => NoPieceMissing
  BY DEF CacheInv
<1> QED BY <1>1, CacheInvariant, PTL

========================================================================
