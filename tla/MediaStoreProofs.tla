-------------------------- MODULE MediaStoreProofs --------------------------
(* Proofs about MediaStore, for every number of handlers, pictures, clips,   *)
(* writes and faults.                                                        *)
EXTENDS MediaStore, FiniteSetTheorems, TLAPS

Number == 0 .. MaxWrites
Holder == Handler \cup {"nobody"}
Inside == {"aside", "in", "texts", "load", "bump", "write"}
Ops == {"none", "batch", "put", "add", "delete", "text", "untext", "generate"}
Request == [at : Inside \cup {"idle", "lock"}, store : Store, op : Ops, names : SUBSET Name,
            write : Number, dir : Content, texts : Content, old : Content,
            read : [Store -> Nat \ {0}], missed : SUBSET {"texts", "settings"}]
SyncType == [store : Store \cup {"none"}, left : SUBSET Name, version : Nat, era : Nat,
             got : Content, texts : Content]
CacheType == [version : Nat, era : Nat, got : Content, texts : Content]

Typed ==
    /\ live \in [Store -> Content] /\ labels \in Content
    /\ listed \in [clips : Content, texts : Content]
    /\ version \in [Store -> Nat \ {0}] /\ held \in [Store -> Holder]
    /\ config \in Holder /\ handler \in [Handler -> Request]
    /\ phone \in SyncType /\ cache \in [Store -> CacheType]
    /\ writes \in 1 .. MaxWrites /\ faults \in 0 .. MaxFaults
    /\ applied \in [files : [Store -> Content], texts : Content]
    /\ unversioned \in [Store -> BOOLEAN] /\ lost \in [Store -> BOOLEAN]
    /\ unread \in BOOLEAN /\ era \in Nat

\* What a request may ask for.
Sound(r) ==
    /\ r.store = "assets" => r.op = "batch" /\ r.names \subseteq Slot
    /\ r.store = "fillers" => r.op \in Ops \ {"none", "batch"} /\ r.names \subseteq Clip
    /\ r.op = "generate" => \E n \in Clip : r.names = {n}
Requested ==
    \A h \in Handler : /\ ~At(h, "idle") => Sound(handler[h])
                       /\ handler[h].at \in {"texts", "load"} => handler[h].store = "fillers"
                       /\ handler[h].op \in {"text", "untext"} => handler[h].at \notin {"aside", "in"}
                       /\ "settings" \in handler[h].missed => At(h, "write")

\* One request is inside a store at a time: it holds its lock.
OneInside ==
    /\ \A h \in Handler : handler[h].at \in Inside => held[handler[h].store] = h
    /\ \A s \in Store : held[s] # "nobody" =>
          handler[held[s]].at \in Inside /\ handler[held[s]].store = s

\* One request writes the settings at a time: what it read is what is there.
Reading ==
    /\ config # "nobody" => At(config, "write")
    /\ \A h \in Handler : At(h, "write") =>
          /\ config = h
          /\ handler[h].read = IF "settings" \in handler[h].missed THEN Defaults ELSE version

\* The directory that was there before the replacement under way.
Between(s) == held[s] # "nobody" /\ At(held[s], "in")
Standing(s) == IF Between(s) THEN handler[held[s]].old ELSE live[s]

\* No more versions than writes that were carried out.
Waiting(s) == {h \in Handler : ~At(h, "idle") /\ handler[h].store = s}
Counted == \A s \in Store : /\ IsFiniteSet(Waiting(s))
                            /\ version[s] + Cardinality(Waiting(s)) <= writes

\* The texts that a request took for those that were there.
Base(r) == IF "texts" \in r.missed THEN Nothing ELSE labels

\* What is there is what was applied, and what a request is about to put there
\* is its change applied to it.
Applied ==
    /\ labels = applied.texts
    /\ \A s \in Store : ~lost[s] => Standing(s) = applied.files[s]
    /\ \A h \in Handler :
          /\ handler[h].at \in {"aside", "in"} /\ ~lost[handler[h].store] =>
                handler[h].dir = Files(handler[h], applied.files[handler[h].store])
          /\ handler[h].at \in {"aside", "in", "texts"} /\ handler[h].store = "fillers" =>
                handler[h].texts = Texts(handler[h], Base(handler[h]))

\* Pictures stay with pictures, and the silence with the clips; between the
\* renames there is nothing.
Sorted ==
    /\ \A s \in Store : \A n \in Name \ Slot :
          s = "assets" => /\ live[s][n] = 0 /\ applied.files[s][n] = 0
                          /\ \A h \in Handler : handler[h].at \in {"aside", "in"}
                                /\ handler[h].store = s =>
                                handler[h].dir[n] = 0 /\ (At(h, "in") => handler[h].old[n] = 0)
    /\ applied.files["fillers"][Silence] # 0
    /\ \A h \in Handler : At(h, "in") => live[handler[h].store] = Nothing

\* A generated clip has a name that nobody else's has.
NewName ==
    \A h \in Handler :
       At(h, "aside") /\ handler[h].op = "generate" =>
          handler[h].names \cap Present(live["fillers"]) = {}

\* The clips in memory are in the directory; all of them, and only they have
\* a text, if the last load could read them.
Listed(files) ==
    /\ \A n \in Name : listed.clips[n] # 0 => listed.clips[n] = files[n]
    /\ ~unread => listed.clips = files /\ listed.texts = labels /\ Pruned(labels, files) = labels
Loading ==
    /\ ~unversioned["fillers"] => Listed(Standing("fillers"))
    /\ \A h \in Handler :
          /\ handler[h].at \in {"bump", "write"} /\ handler[h].store = "fillers" =>
                Listed(live["fillers"])
          /\ handler[h].at \in {"load", "bump", "write"} => unversioned[handler[h].store]

\* What a phone has got of the present version, since the settings were last
\* reset, is what is there.
Seen(s) == IF s = "assets" THEN Standing(s) ELSE listed.clips
Same(s, got, texts, names) ==
    /\ \A n \in names \ {Silence} : got[n] = Seen(s)[n]
    /\ s = "fillers" => texts = listed.texts
Dated(s, v, e) == e <= era /\ (e = era => v <= version[s])
Current(s, v, e) == ~unversioned[s] /\ v = version[s] /\ e = era
Told ==
    /\ \A s \in Store : Dated(s, cache[s].version, cache[s].era)
    /\ phone.left # {} => phone.store \in Store
    /\ \A s \in Store : phone.store = s => Dated(s, phone.version, phone.era)
    /\ \A s \in Store : Current(s, cache[s].version, cache[s].era) =>
          Same(s, cache[s].got, cache[s].texts, Name)
    /\ \A s \in Store : phone.store = s /\ Current(s, phone.version, phone.era) =>
          Same(s, phone.got, phone.texts, Name \ phone.left)

IInv == /\ Typed /\ Requested /\ OneInside /\ Reading /\ Counted /\ Applied /\ Sorted
        /\ NewName /\ Loading /\ Told

-----------------------------------------------------------------------------
(* Types and the first state.                                               *)

LEMMA Constants ==
    /\ MaxWrites \in Nat \ {0} /\ MaxFaults \in Nat /\ "nobody" \notin Handler
    /\ 0 \in Number /\ 1 \in Number /\ Silence \in Name /\ Silence \notin Clip
    /\ Slot \subseteq Name /\ Clip \subseteq Name /\ Slot \cap Clip = {} /\ Silence \notin Slot
BY MediaConstants DEF Number, Name

LEMMA Contents ==
    /\ Nothing \in Content /\ NoRequest \in Request /\ NoSync \in SyncType
    /\ NoRequest.at = "idle" /\ NoRequest.missed = {} /\ \A n \in Name : Nothing[n] = 0
    /\ NoSync.store = "none" /\ NoSync.left = {}
    /\ Defaults \in [Store -> Nat \ {0}] /\ \A s \in Store : Defaults[s] = 1
<1>1. Nothing \in Content /\ \A n \in Name : Nothing[n] = 0
  BY Constants DEF Nothing, Content, Number
<1>4. Defaults \in [Store -> Nat \ {0}] /\ \A s \in Store : Defaults[s] = 1
  BY DEF Defaults
<1>2. NoRequest \in Request /\ NoRequest.at = "idle" /\ NoRequest.missed = {}
  BY <1>1, <1>4, Constants DEF NoRequest, Request, Store, Ops
<1>3. NoSync \in SyncType /\ NoSync.store = "none" /\ NoSync.left = {}
  BY <1>1 DEF NoSync, SyncType
<1> QED BY <1>1, <1>2, <1>3, <1>4

\* What a request makes of a directory and of texts is a directory and texts.
LEMMA Written ==
    ASSUME NEW r \in Request, NEW f \in Content
    PROVE  Files(r, f) \in Content /\ Texts(r, f) \in Content
<1>1. \A ns, w : w \in Number => Write(f, ns, w) \in Content /\ Write(Nothing, ns, w) \in Content
  BY Contents DEF Write, Content, Number
<1>2. r.write \in Number /\ 0 \in Number
  BY Constants DEF Request
<1>3. [n \in Name |-> IF n \in r.names THEN r.write ELSE IF n = Silence THEN f[n] ELSE 0] \in Content
  BY <1>2 DEF Content, Number
<1>4. Files(r, f) \in Content
  BY <1>1, <1>2, <1>3 DEF Files
<1>5. Texts(r, f) \in Content
  BY <1>1, <1>2 DEF Texts
<1> QED BY <1>4, <1>5

LEMMA PrunedTyped ==
    ASSUME NEW t \in Content, NEW f \in Content
    PROVE  Pruned(t, f) \in Content /\ Pruned(Pruned(t, f), f) = Pruned(t, f)
BY Constants DEF Pruned, Content, Number

\* They depend on what was asked for, and on nothing else of the request.
LEMMA SameChange ==
    ASSUME NEW q, NEW r, q.op = r.op, q.names = r.names, q.write = r.write
    PROVE  \A f : Files(q, f) = Files(r, f) /\ Texts(q, f) = Texts(r, f)
BY DEF Files, Texts

LEMMA InitIInv == Init => IInv
<1> SUFFICES ASSUME Init PROVE IInv
  OBVIOUS
<1>1. live \in [Store -> Content] /\ 1 \in 1 .. MaxWrites
  BY Constants DEF Init, Content, Number
<1>2. Typed
  <2>1. /\ live \in [Store -> Content] /\ labels \in Content
        /\ listed \in [clips : Content, texts : Content]
        /\ applied \in [files : [Store -> Content], texts : Content]
    BY <1>1, Contents DEF Init, Store
  <2>2. /\ version \in [Store -> Nat \ {0}] /\ held \in [Store -> Holder]
        /\ config \in Holder /\ handler \in [Handler -> Request] /\ phone \in SyncType
        /\ unread \in BOOLEAN /\ era \in Nat
        /\ unversioned \in [Store -> BOOLEAN] /\ lost \in [Store -> BOOLEAN]
    BY Contents DEF Init, Holder
  <2>3. /\ cache \in [Store -> CacheType]
        /\ writes \in 1 .. MaxWrites /\ faults \in 0 .. MaxFaults
    BY <1>1, Constants, Contents DEF Init, CacheType
  <2> QED BY <2>1, <2>2, <2>3 DEF Typed
<1>3. /\ \A h \in Handler : /\ handler[h] = NoRequest /\ NoRequest.at = "idle"
                             /\ NoRequest.op = "none" /\ NoRequest.missed = {}
      /\ \A s \in Store : /\ held[s] = "nobody" /\ version[s] = 1
                           /\ cache[s].version = 0 /\ cache[s].era = 0
      /\ phone.store = "none" /\ phone.left = {} /\ config = "nobody" /\ era = 0
  BY DEF Init, NoRequest, NoSync, Defaults
<1>4. Requested /\ OneInside /\ Reading /\ NewName
  BY <1>3 DEF Requested, OneInside, Reading, NewName, At, Inside
<1>5. Counted
  <2>1. \A s \in Store : Waiting(s) = {}
    BY <1>3 DEF Waiting, At
  <2>2. IsFiniteSet({}) /\ Cardinality({}) = 0
    BY FS_EmptySet
  <2>3. writes = 1
    BY DEF Init
  <2>4. \A s \in Store : IsFiniteSet(Waiting(s)) /\ Cardinality(Waiting(s)) = 0
    BY <2>1, <2>2
  <2> QED BY <1>3, <2>3, <2>4 DEF Counted
<1>6. \A s \in Store : Standing(s) = live[s]
  BY <1>3 DEF Standing, Between
<1>7. Applied
  BY <1>3, <1>6 DEF Applied, Init
<1>8. Sorted
  BY <1>3, Constants DEF Sorted, Init, Store, Name, At
<1>9. Pruned(Nothing, live["fillers"]) = Nothing
  BY Contents DEF Pruned, Nothing
<1>10. Loading
  BY <1>3, <1>6, <1>9 DEF Loading, Listed, Init, At, Store
<1>11. Told
  BY <1>3, Constants DEF Told, Dated, Current, Store
<1> QED BY <1>2, <1>4, <1>5, <1>7, <1>8, <1>10, <1>11 DEF IInv

\* Nobody else is inside the same store.
LEMMA Alone ==
    ASSUME OneInside, NEW h \in Handler, handler[h].at \in Inside
    PROVE  \A g \in Handler : handler[g].at \in Inside /\ handler[g].store = handler[h].store => g = h
BY DEF OneInside

\* One request more, or one less.
LEMMA OneMore ==
    ASSUME Typed, Counted, NEW h \in Handler, NEW s \in Store, At(h, "idle"), ~At(h, "idle")',
           handler'[h].store = s, \A g \in Handler : g # h => handler'[g] = handler[g],
           version' = version, writes' = writes + 1
    PROVE  Counted'
<1>1. Waiting(s)' = Waiting(s) \cup {h} /\ h \notin Waiting(s)
  BY DEF Waiting, At
<1>2. \A t \in Store : t # s => Waiting(t)' = Waiting(t)
  BY DEF Waiting, At
<1>3. IsFiniteSet(Waiting(s)') /\ Cardinality(Waiting(s)') = Cardinality(Waiting(s)) + 1
  BY <1>1, FS_AddElement DEF Counted
<1>4. \A t \in Store : Cardinality(Waiting(t)) \in Nat /\ version[t] \in Nat
  BY FS_CardinalityType DEF Counted, Typed
<1>5. writes \in Nat
  BY DEF Typed
<1> QED BY <1>2, <1>3, <1>4, <1>5 DEF Counted

LEMMA OneLess ==
    ASSUME Typed, Counted, NEW h \in Handler, NEW s \in Store, handler[h].store = s,
           ~At(h, "idle"), At(h, "idle")',
           \A g \in Handler : g # h => handler'[g] = handler[g],
           \A t \in Store : version'[t] \in Nat /\ (version'[t] <= version[t]
                                                   \/ (t = s /\ version'[t] <= version[t] + 1)),
           writes' = writes
    PROVE  Counted'
<1>1. Waiting(s)' = Waiting(s) \ {h} /\ h \in Waiting(s)
  BY DEF Waiting, At
<1>2. \A t \in Store : t # s => Waiting(t)' = Waiting(t)
  BY DEF Waiting, At
<1>3. IsFiniteSet(Waiting(s)') /\ Cardinality(Waiting(s)') = Cardinality(Waiting(s)) - 1
  BY <1>1, FS_RemoveElement DEF Counted
<1>4. \A t \in Store : Cardinality(Waiting(t)) \in Nat /\ version[t] \in Nat
  BY FS_CardinalityType DEF Counted, Typed
<1>5. writes \in Nat
  BY DEF Typed
<1>6. \A t \in Store : t # s => version'[t] \in Nat /\ version'[t] <= version[t]
  OBVIOUS
<1>7. version'[s] \in Nat /\ version'[s] <= version[s] + 1
  BY <1>4
<1>8. \A t \in Store : version'[t] + Cardinality(Waiting(t)') <= writes
  <2>1. version'[s] + Cardinality(Waiting(s)') <= writes
    BY <1>3, <1>4, <1>5, <1>7 DEF Counted
  <2>2. \A t \in Store : t # s => version'[t] + Cardinality(Waiting(t)') <= writes
    BY <1>2, <1>4, <1>5, <1>6 DEF Counted
  <2> QED BY <2>1, <2>2
<1> QED BY <1>2, <1>3, <1>8 DEF Counted

LEMMA AsMany ==
    ASSUME Counted, NEW h \in Handler, ~At(h, "idle"), ~At(h, "idle")',
           handler'[h].store = handler[h].store,
           \A g \in Handler : g # h => handler'[g] = handler[g],
           UNCHANGED <<version, writes>>
    PROVE  Counted'
<1>1. \A s \in Store : Waiting(s)' = Waiting(s)
  BY DEF Waiting, At
<1> QED BY <1>1 DEF Counted

-----------------------------------------------------------------------------
(* Steps of a request.                                                      *)

LEMMA AskKeeps == ASSUME IInv, NEW h \in Handler, Ask(h) PROVE IInv'
<1>1. PICK q \in Request : /\ handler' = [handler EXCEPT ![h] = q]
                           /\ q.at = "lock" /\ Sound(q) /\ q.store \in Store /\ q.missed = {}
  <2> DEFINE asked(l, s, ns) == [NoRequest EXCEPT !.at = "lock", !.store = s, !.op = l,
                                                  !.names = ns, !.write = writes + 1]
  <2>1. writes + 1 \in Number
    BY Constants DEF Ask, IInv, Typed, Number
  <2>2. \A l \in Ops, s \in Store, ns \in SUBSET Name :
           /\ asked(l, s, ns) \in Request /\ asked(l, s, ns).at = "lock" /\ asked(l, s, ns).store = s
           /\ asked(l, s, ns).op = l /\ asked(l, s, ns).names = ns /\ asked(l, s, ns).missed = {}
    BY <2>1, Contents DEF Request
  <2> DEFINE fits(l, s, ns) == /\ s = "assets" => l = "batch" /\ ns \subseteq Slot
                               /\ s = "fillers" => l \in Ops \ {"none", "batch"} /\ ns \subseteq Clip
                               /\ l = "generate" => \E n \in Clip : ns = {n}
  <2>3. PICK l \in Ops, s \in Store, ns \in SUBSET Name : Goes(h, l, s, ns) /\ fits(l, s, ns)
    <3>1. "fillers" \in Store /\ "assets" \in Store /\ {} \in SUBSET Name
          /\ \A n \in Clip : {n} \in SUBSET Name
      BY Constants DEF Store
    <3>2. CASE \E ns \in SUBSET Slot : Goes(h, "batch", "assets", ns)
      <4>1. \A ns \in SUBSET Slot : ns \in SUBSET Name /\ fits("batch", "assets", ns)
        BY Constants
      <4> QED BY <3>1, <3>2, <4>1 DEF Ops
    <3>3. CASE Goes(h, "put", "fillers", {})
      <4>1. fits("put", "fillers", {})
        BY DEF Ops
      <4> QED BY <3>1, <3>3, <4>1 DEF Ops
    <3>4. CASE \E n \in Clip, l \in {"put", "add", "delete", "text", "untext", "generate"} :
                  Goes(h, l, "fillers", {n})
      <4>1. \A n \in Clip, l \in {"put", "add", "delete", "text", "untext", "generate"} :
               fits(l, "fillers", {n}) /\ l \in Ops
        BY DEF Ops
      <4> HIDE DEF fits
      <4> QED BY <3>1, <3>4, <4>1
    <3> QED BY <3>2, <3>3, <3>4 DEF Ask
  <2>4. /\ asked(l, s, ns) \in Request /\ asked(l, s, ns).at = "lock" /\ asked(l, s, ns).store = s
        /\ Sound(asked(l, s, ns)) /\ asked(l, s, ns).missed = {}
    <3> HIDE DEF asked
    <3> QED BY <2>2, <2>3 DEF Sound
  <2>5. handler' = [handler EXCEPT ![h] = asked(l, s, ns)]
    BY <2>3 DEF Goes
  <2> HIDE DEF asked
  <2> QED BY <2>4, <2>5
<1>2. /\ handler[h].at = "idle" /\ writes < MaxWrites /\ writes' = writes + 1
      /\ UNCHANGED <<live, labels, listed, version, held, config, phone, cache, faults, applied,
                     unversioned, lost, unread, era>>
  BY DEF Ask, At
<1>3. /\ handler'[h] = q /\ \A g \in Handler : g # h => handler'[g] = handler[g]
      /\ handler' \in [Handler -> Request]
  BY <1>1 DEF IInv, Typed
<1>4. \A s \in Store : held[s] # h
  BY <1>2, Constants DEF IInv, OneInside, Inside
<1>5. \A s \in Store : Standing(s)' = Standing(s)
  BY <1>2, <1>3, <1>4, Constants DEF Standing, Between, At, IInv, Typed, Holder
<1>6. Typed'
  BY <1>2, <1>3, Constants DEF IInv, Typed
<1>7. Requested'
  BY <1>1, <1>3 DEF IInv, Requested, At, Sound
<1>8. OneInside'
  BY <1>1, <1>2, <1>3, <1>4 DEF IInv, OneInside, Inside
<1>14. Reading'
  BY <1>1, <1>2, <1>3 DEF IInv, Reading, At, Typed, Holder
<1>9. Counted'
  BY <1>1, <1>2, <1>3, OneMore DEF IInv, At
<1>10. Applied'
  BY <1>1, <1>2, <1>3, <1>5 DEF IInv, Applied, Base
<1>11. Sorted' /\ NewName'
  BY <1>1, <1>2, <1>3 DEF IInv, Sorted, NewName, At
<1>12. Loading'
  BY <1>1, <1>2, <1>3, <1>5 DEF IInv, Loading, Listed, At, Store
<1>13. Told'
  BY <1>2, <1>5 DEF IInv, Told, Same, Seen, Dated, Current
<1> QED BY <1>6, <1>7, <1>8, <1>9, <1>10, <1>11, <1>12, <1>13, <1>14 DEF IInv

\* A request ends, with what it has done so far.
LEMMA EndKeeps ==
    ASSUME IInv, NEW h \in Handler, handler[h].at \in {"lock"},
           handler' = [handler EXCEPT ![h] = NoRequest],
           UNCHANGED <<live, labels, listed, version, held, config, phone, cache, writes, faults,
                       applied, unversioned, lost, unread, era>>
    PROVE  IInv'
<1>1. /\ handler'[h] = NoRequest /\ NoRequest.at = "idle" /\ NoRequest.op = "none"
      /\ NoRequest.missed = {}
      /\ \A g \in Handler : g # h => handler'[g] = handler[g]
      /\ handler' \in [Handler -> Request] /\ handler[h].store \in Store
  BY Contents DEF IInv, Typed, Request, NoRequest
<1>2. \A s \in Store : held[s] # h
  BY Constants DEF IInv, OneInside, Inside
<1>3. \A s \in Store : Standing(s)' = Standing(s)
  BY <1>1, <1>2 DEF Standing, Between, At, IInv, Typed, Holder
<1>4. Typed'
  BY <1>1 DEF IInv, Typed
<1>5. Requested' /\ OneInside' /\ NewName' /\ Sorted'
  BY <1>1, <1>2 DEF IInv, Requested, OneInside, NewName, Sorted, At, Sound, Inside
<1>10. Reading'
  BY <1>1 DEF IInv, Reading, At, Typed, Holder
<1>6. Counted'
  BY <1>1, OneLess DEF IInv, At, Typed
<1>7. Applied'
  BY <1>1, <1>3 DEF IInv, Applied, Base
<1>8. Loading'
  BY <1>1, <1>3 DEF IInv, Loading, Listed, At, Store
<1>9. Told'
  BY <1>3 DEF IInv, Told, Same, Seen, Dated, Current
<1> QED BY <1>4, <1>5, <1>6, <1>7, <1>8, <1>9, <1>10 DEF IInv

\* A request enters its store, with the texts it could read, or with none.
LEMMA EnterKeeps ==
    ASSUME IInv, NEW h \in Handler, At(h, "lock"), Free(handler[h].store),
           NEW texts \in Content, NEW missed \in SUBSET {"texts"}, Enter(h, texts, missed),
           texts = IF missed = {} THEN labels' ELSE Nothing,
           \/ UNCHANGED <<labels, applied, unversioned>>
           \/ Emptied /\ handler[h].store = "fillers",
           faults' \in 0 .. MaxFaults,
           UNCHANGED <<live, listed, version, config, phone, cache, writes, lost, unread, era>>
    PROVE  IInv'
<1> DEFINE r == handler[h]
           s == r.store
<1>1. /\ r \in Request /\ s \in Store /\ r.at = "lock" /\ Sound(r) /\ held[s] = "nobody"
      /\ handler \in [Handler -> Request] /\ live[s] \in Content /\ labels \in Content
      /\ held \in [Store -> Holder]
  BY DEF IInv, Typed, Request, At, Free, Requested
<1>2. UNCHANGED <<live, listed, version, config, phone, cache, writes, lost, unread, era>>
  OBVIOUS
<1>3. /\ labels' \in Content /\ labels' = applied'.texts /\ applied'.files = applied.files
      /\ applied' \in [files : [Store -> Content], texts : Content]
      /\ unversioned' \in [Store -> BOOLEAN]
      /\ \A t \in Store : ~unversioned'[t] => ~unversioned[t]
      /\ unversioned["fillers"] => unversioned'["fillers"]
      /\ unversioned'["assets"] = unversioned["assets"]
      /\ ~unversioned'["fillers"] => labels' = labels
      /\ s = "fillers" \/ labels' = labels
  BY Contents DEF Emptied, IInv, Typed, Applied, Store
<1>4. PICK ns \in NamesFor(r) :
         handler' = [handler EXCEPT ![h] =
            [[r EXCEPT !.names = ns] EXCEPT
               !.at = IF r.op \in {"text", "untext"} THEN "texts" ELSE "aside",
               !.dir = Files([r EXCEPT !.names = ns], live[s]),
               !.texts = Texts([r EXCEPT !.names = ns], texts),
               !.missed = missed]]
  BY DEF Enter
<1>5. held' = [held EXCEPT ![s] = h]
  BY DEF Enter
<1> DEFINE n == [r EXCEPT !.names = ns]
           l == IF r.op \in {"text", "untext"} THEN "texts" ELSE "aside"
           q == [n EXCEPT !.at = l, !.dir = Files(n, live[s]), !.texts = Texts(n, texts),
                          !.missed = missed]
<1>6. /\ ns \subseteq Name /\ (s = "assets" => ns \subseteq Slot) /\ (s = "fillers" => ns \subseteq Clip)
      /\ r.op = "generate" => (\E c \in Clip : ns = {c}) /\ ns \cap Present(live["fillers"]) = {}
      /\ r.op # "generate" => ns = r.names
  BY <1>1, Constants DEF NamesFor, Sound, Store, Present
<1>7. n \in Request /\ n.op = r.op /\ n.store = s /\ n.names = ns /\ n.write = r.write
  BY <1>1, <1>6 DEF Request
<1> HIDE DEF n
<1>8. /\ Files(n, live[s]) \in Content /\ Texts(n, texts) \in Content
      /\ l \in {"texts", "aside"}
  BY <1>1, <1>7, Written
<1>9. /\ q \in Request /\ q.at = l /\ q.store = s /\ q.op = r.op /\ q.names = ns /\ q.write = n.write
      /\ q.dir = Files(n, live[s]) /\ q.texts = Texts(n, texts) /\ q.old = n.old
      /\ q.missed = missed
  BY <1>7, <1>8 DEF Request, Inside
<1>10. handler' = [handler EXCEPT ![h] = q]
  BY <1>4 DEF n
<1> HIDE DEF q
<1>11. \A f : Files(q, f) = Files(n, f) /\ Texts(q, f) = Texts(n, f)
  BY <1>7, <1>9, SameChange
<1>12. /\ handler'[h] = q /\ \A g \in Handler : g # h => handler'[g] = handler[g]
       /\ handler' \in [Handler -> Request]
       /\ held'[s] = h /\ \A t \in Store : t # s => held'[t] = held[t]
       /\ held' \in [Store -> Holder]
  BY <1>1, <1>5, <1>9, <1>10 DEF Holder
<1>13. \A t \in Store : held[t] # h
  BY <1>1, Constants DEF IInv, OneInside, Inside
<1>14. \A t \in Store : Standing(t)' = Standing(t)
  BY <1>1, <1>2, <1>8, <1>9, <1>12, <1>13 DEF Standing, Between, At, IInv, Typed, Holder
<1>15. Standing(s) = live[s]
  BY <1>1 DEF Standing, Between
<1> HIDE DEF s
<1>16. Typed'
  BY <1>2, <1>3, <1>12 DEF IInv, Typed
<1>17. Requested'
  <2>1. Sound(q)
    BY <1>1, <1>6, <1>9 DEF Sound, s
  <2>2. /\ q.at \in {"texts", "load"} => q.store = "fillers"
        /\ q.op \in {"text", "untext"} => q.at \notin {"aside", "in"}
        /\ "settings" \notin q.missed
    BY <1>1, <1>9 DEF Sound, Store, s
  <2> QED BY <1>12, <2>1, <2>2 DEF IInv, Requested, At, Sound
<1>18. OneInside'
  <2>1. q.at \in Inside /\ q.store = s
    BY <1>8, <1>9 DEF Inside
  <2>2. \A g \in Handler : handler[g].at \in Inside => handler[g].store # s /\ held[handler[g].store] = g
    BY <1>1, Constants DEF IInv, OneInside
  <2>3. \A g \in Handler : g # h => handler[g].store \in Store
    BY <1>1 DEF Request
  <2> QED BY <1>1, <1>12, <1>13, <2>1, <2>2, <2>3 DEF IInv, OneInside, Holder
<1>19. Reading'
  <2>1. q.at # "write"
    BY <1>8, <1>9
  <2> QED BY <1>1, <1>2, <1>12, <2>1 DEF IInv, Reading, At, Typed, Holder
<1>20. Counted'
  BY <1>1, <1>2, <1>8, <1>9, <1>12, AsMany DEF IInv, At, s
<1>21. Applied'
  <2>1. ~lost[s] => q.dir = Files(q, applied.files[s])
    BY <1>1, <1>9, <1>11, <1>15 DEF IInv, Applied
  <2>2. q.texts = Texts(q, IF "texts" \in q.missed THEN Nothing ELSE labels')
    BY <1>9, <1>11
  <2>3. \A g \in Handler : g # h /\ handler[g].at \in {"aside", "in", "texts"} /\ handler[g].store = "fillers"
                           => s # "fillers"
    BY <1>1, Constants DEF IInv, OneInside, Inside
  <2>4. \A g \in Handler : handler'[g].at \in {"aside", "in", "texts"} /\ handler'[g].store = "fillers" =>
           handler'[g].texts = Texts(handler'[g], IF "texts" \in handler'[g].missed THEN Nothing ELSE labels')
    BY <1>3, <1>12, <2>2, <2>3 DEF IInv, Applied, Base
  <2>5. \A g \in Handler : handler'[g].at \in {"aside", "in"} /\ ~lost'[handler'[g].store] =>
           handler'[g].dir = Files(handler'[g], applied'.files[handler'[g].store])
    BY <1>2, <1>3, <1>9, <1>12, <2>1 DEF IInv, Applied
  <2>6. \A t \in Store : ~lost'[t] => Standing(t)' = applied'.files[t]
    BY <1>2, <1>3, <1>14 DEF IInv, Applied
  <2> QED BY <1>3, <2>4, <2>5, <2>6 DEF Applied, Base
<1>22. Sorted'
  <2>1. s = "assets" => \A m \in Name \ Slot : q.dir[m] = 0
    <3> SUFFICES ASSUME s = "assets", NEW m \in Name \ Slot PROVE q.dir[m] = 0
      OBVIOUS
    <3>1. n.op = "batch" /\ m \notin ns /\ live[s][m] = 0
      BY <1>1, <1>6, <1>7 DEF Sound, IInv, Sorted, s
    <3> QED BY <1>7, <1>9, <3>1 DEF Files, Write
  <2> QED BY <1>2, <1>3, <1>8, <1>9, <1>12, <2>1 DEF IInv, Sorted, At
<1>23. NewName'
  BY <1>2, <1>6, <1>9, <1>12 DEF IInv, NewName, At, Present
<1>24. Loading'
  <2>1. ~unversioned'["fillers"] => Listed(Standing("fillers"))'
    BY <1>2, <1>3, <1>14 DEF IInv, Loading, Listed, Store
  <2>2. \A g \in Handler : handler'[g].at \in {"load", "bump", "write"} =>
           g # h /\ handler'[g] = handler[g] /\ handler[g].store \in Store /\ handler[g].store # s
    BY <1>1, <1>8, <1>9, <1>12, Constants DEF IInv, OneInside, Inside, Request
  <2>3. \A g \in Handler : handler'[g].at \in {"bump", "write"} /\ handler'[g].store = "fillers" =>
           labels' = labels /\ Listed(live["fillers"])
    BY <1>3, <2>2 DEF IInv, Loading
  <2>4. \A g \in Handler : handler'[g].at \in {"load", "bump", "write"} => unversioned'[handler'[g].store]
    BY <1>3, <2>2 DEF IInv, Loading, Store
  <2> QED BY <1>2, <2>1, <2>3, <2>4 DEF Loading, Listed
<1>25. Told'
  BY <1>2, <1>3, <1>14 DEF IInv, Told, Same, Seen, Dated, Current
<1> QED BY <1>16, <1>17, <1>18, <1>19, <1>20, <1>21, <1>22, <1>23, <1>24, <1>25 DEF IInv

LEMMA BeginKeeps == ASSUME IInv, NEW h \in Handler, Begin(h) \/ BeginUnread(h) PROVE IInv'
<1>1. faults \in 0 .. MaxFaults /\ labels \in Content /\ handler[h].at = "lock" => Sound(handler[h])
  BY DEF IInv, Typed, Requested, At
<1>2. CASE Begin(h) /\ Unlisted(handler[h])
  BY <1>2, EndKeeps DEF Begin, Answer, At
<1>3. CASE Begin(h) /\ ~Unlisted(handler[h])
  <2>1. Enter(h, labels, {}) /\ {} \in SUBSET {"texts"}
    BY <1>3 DEF Begin
  <2> QED BY <1>1, <1>3, <2>1, EnterKeeps DEF Begin, IInv, Typed
<1>4. CASE BeginUnread(h)
  <2>1. /\ Enter(h, Nothing, {"texts"}) /\ {"texts"} \in SUBSET {"texts"} /\ Nothing \in Content
        /\ {"texts"} # {}
    BY <1>4, Contents DEF BeginUnread
  <2>2. handler[h].store = "fillers" /\ At(h, "lock")
    <3>1. handler[h].store \in Store
      BY DEF IInv, Typed, Request
    <3> QED BY <1>4, <3>1 DEF BeginUnread, At, IInv, Requested, Sound, Store
  <2>3. faults' \in 0 .. MaxFaults
    BY <1>1, <1>4, Constants DEF BeginUnread, Fault, IInv, Typed
  <2> QED BY <1>4, <2>1, <2>2, <2>3, EnterKeeps DEF BeginUnread
<1> QED BY <1>2, <1>3, <1>4

\* The rename of the live directory: nothing is lost yet.
LEMMA MoveAsideKeeps == ASSUME IInv, NEW h \in Handler, MoveAside(h) PROVE IInv'
<1> DEFINE r == handler[h]
           q == [r EXCEPT !.at = "in", !.old = live[r.store]]
<1>1. PICK s \in Store : s = r.store
  BY DEF IInv, Typed, Request
<1>2. /\ r \in Request /\ r.at = "aside" /\ held[s] = h /\ Sound(r)
      /\ handler \in [Handler -> Request] /\ live \in [Store -> Content] /\ held \in [Store -> Holder]
  BY <1>1 DEF MoveAside, At, IInv, Typed, OneInside, Inside, Requested
<1>3. /\ q \in Request /\ q.at = "in" /\ q.old = live[s] /\ q.store = s /\ q.op = r.op
      /\ q.names = r.names /\ q.write = r.write /\ q.dir = r.dir /\ q.texts = r.texts
      /\ q.missed = r.missed /\ "settings" \notin r.missed
  BY <1>1, <1>2 DEF Request, Inside, IInv, Requested, At
<1>4. /\ handler' = [handler EXCEPT ![h] = q] /\ live' = [live EXCEPT ![s] = Nothing]
      /\ UNCHANGED <<labels, listed, version, held, config, phone, cache, writes, faults, applied,
                     unversioned, lost, unread, era>>
  BY <1>1 DEF MoveAside
<1> HIDE DEF q
<1>5. /\ handler'[h] = q /\ \A g \in Handler : g # h => handler'[g] = handler[g]
      /\ handler' \in [Handler -> Request]
      /\ live'[s] = Nothing /\ \A t \in Store : t # s => live'[t] = live[t]
      /\ live' \in [Store -> Content]
  BY <1>2, <1>3, <1>4, Contents
<1>6. \A f : Files(q, f) = Files(r, f) /\ Texts(q, f) = Texts(r, f)
  BY <1>3, SameChange
<1>7. \A g \in Handler : g # h /\ handler[g].at \in Inside => handler[g].store # s
  BY <1>1, <1>2, Alone DEF IInv, Inside
<1>8. \A t \in Store : t # s => held[t] # h
  BY <1>1, Constants DEF IInv, OneInside
<1>9. \A t \in Store : Standing(t)' = Standing(t)
  <2>1. Standing(s)' = live[s] /\ Standing(s) = live[s]
    BY <1>2, <1>3, <1>4, <1>5, Constants DEF Standing, Between, At
  <2>2. \A t \in Store : t # s => Standing(t)' = Standing(t)
    BY <1>2, <1>4, <1>5, <1>8 DEF Standing, Between, At, Holder
  <2> QED BY <2>1, <2>2
<1>10. Typed'
  BY <1>4, <1>5 DEF IInv, Typed
<1>11. Requested'
  <2>1. Sound(q)
    BY <1>1, <1>2, <1>3 DEF Sound
  <2>2. q.op \notin {"text", "untext"}
    BY <1>2, <1>3 DEF IInv, Requested
  <2> QED BY <1>3, <1>5, <2>1, <2>2 DEF IInv, Requested, At, Sound
<1>12. OneInside'
  BY <1>1, <1>2, <1>3, <1>4, <1>5 DEF IInv, OneInside, Inside, Holder
<1>19. Reading'
  BY <1>2, <1>3, <1>4, <1>5 DEF IInv, Reading, At, Typed, Holder
<1>13. Counted'
  BY <1>1, <1>2, <1>3, <1>4, <1>5, AsMany DEF IInv, At
<1>14. Applied'
  BY <1>1, <1>2, <1>3, <1>4, <1>5, <1>6, <1>9 DEF IInv, Applied, Base
<1>15. Sorted'
  <2>1. s = "assets" => \A n \in Name \ Slot : q.dir[n] = 0 /\ q.old[n] = 0
    <3>1. ASSUME s = "assets", NEW n \in Name \ Slot PROVE r.dir[n] = 0 /\ live[s][n] = 0
      BY <1>1, <1>2, <3>1 DEF IInv, Sorted
    <3> QED BY <1>3, <3>1
  <2>2. \A g \in Handler : At(g, "in")' => live'[handler'[g].store] = Nothing
    <3>1. \A g \in Handler : g # h /\ At(g, "in") => handler[g].store \in Store \ {s}
      BY <1>2, <1>7 DEF At, Inside, Request
    <3> QED BY <1>3, <1>5, <3>1 DEF IInv, Sorted, At
  <2> QED BY <1>3, <1>4, <1>5, <2>1, <2>2, Contents DEF IInv, Sorted, At
<1>16. NewName'
  <2>1. \A g \in Handler : At(g, "aside")' /\ handler'[g].op = "generate" =>
           g # h /\ handler'[g] = handler[g] /\ handler[g].store = "fillers" /\ s # "fillers"
    <3>1. \A g \in Handler : handler[g].store \in Store
      BY <1>2 DEF Request
    <3>2. \A g \in Handler : At(g, "aside") /\ handler[g].op = "generate" => handler[g].store = "fillers"
      BY <3>1 DEF At, IInv, Requested, Sound, Store
    <3> QED BY <1>3, <1>5, <1>7, <3>2 DEF At, Inside
  <2> QED BY <1>5, <2>1 DEF IInv, NewName, At, Present, Store
<1>17. Loading'
  <2>1. \A g \in Handler : handler'[g].at \in {"bump", "write"} /\ handler'[g].store = "fillers" =>
           /\ live'["fillers"] = live["fillers"] /\ handler[g].at \in {"bump", "write"}
           /\ handler[g].store = "fillers"
    BY <1>3, <1>5, <1>7 DEF At, Inside, Store
  <2>2. \A g \in Handler : handler'[g].at \in {"load", "bump", "write"} => handler'[g] = handler[g]
    BY <1>3, <1>5
  <2> QED BY <1>4, <1>9, <2>1, <2>2 DEF IInv, Loading, Listed, Store
<1>18. Told'
  BY <1>4, <1>9 DEF IInv, Told, Same, Seen, Dated, Current
<1> QED BY <1>10, <1>11, <1>12, <1>13, <1>14, <1>15, <1>16, <1>17, <1>18, <1>19 DEF IInv

\* The rename of the staged directory: the change is applied, and not yet told.
LEMMA ReplaceKeeps == ASSUME IInv, NEW h \in Handler, Replace(h) PROVE IInv'
<1> DEFINE r == handler[h]
           l == IF r.store = "assets" THEN "bump" ELSE "texts"
           q == [r EXCEPT !.at = l]
<1>1. PICK s \in Store : s = r.store
  BY DEF IInv, Typed, Request
<1>2. /\ r \in Request /\ r.at = "in" /\ held[s] = h /\ Sound(r)
      /\ handler \in [Handler -> Request] /\ live \in [Store -> Content] /\ held \in [Store -> Holder]
      /\ applied \in [files : [Store -> Content], texts : Content]
      /\ unversioned \in [Store -> BOOLEAN]
  BY <1>1 DEF Replace, At, IInv, Typed, OneInside, Inside, Requested
<1>3. /\ q \in Request /\ q.at = l /\ q.store = s /\ q.op = r.op
      /\ q.names = r.names /\ q.write = r.write /\ q.texts = r.texts /\ r.dir \in Content
      /\ q.missed = r.missed /\ "settings" \notin r.missed
  BY <1>1, <1>2 DEF Request, Inside, IInv, Requested, At
<1>4. /\ handler' = [handler EXCEPT ![h] = q] /\ live' = [live EXCEPT ![s] = r.dir]
      /\ applied' = [applied EXCEPT !.files[s] = Files(r, applied.files[s])]
      /\ unversioned' = [unversioned EXCEPT ![s] = TRUE]
      /\ UNCHANGED <<labels, listed, version, held, config, phone, cache, writes, faults, lost,
                     unread, era>>
  BY <1>1 DEF Replace, Goto
<1> HIDE DEF q
<1>5. /\ handler'[h] = q /\ \A g \in Handler : g # h => handler'[g] = handler[g]
      /\ handler' \in [Handler -> Request]
      /\ live'[s] = r.dir /\ \A t \in Store : t # s => live'[t] = live[t]
      /\ live' \in [Store -> Content]
      /\ unversioned'[s] /\ \A t \in Store : t # s => unversioned'[t] = unversioned[t]
      /\ unversioned' \in [Store -> BOOLEAN]
  BY <1>2, <1>3, <1>4
<1>6. /\ applied'.files[s] = Files(r, applied.files[s])
      /\ \A t \in Store : t # s => applied'.files[t] = applied.files[t]
      /\ applied'.texts = applied.texts
      /\ applied' \in [files : [Store -> Content], texts : Content]
  <2>1. Files(r, applied.files[s]) \in Content
    BY <1>2, Written
  <2> QED BY <1>2, <1>4, <2>1
<1>7. \A f : Files(q, f) = Files(r, f) /\ Texts(q, f) = Texts(r, f)
  BY <1>3, SameChange
<1>8. \A g \in Handler : g # h /\ handler[g].at \in Inside => handler[g].store # s
  BY <1>1, <1>2, Alone DEF IInv, Inside
<1>9. \A t \in Store : t # s => held[t] # h
  BY <1>1, Constants DEF IInv, OneInside
<1>10. Standing(s)' = r.dir /\ \A t \in Store : t # s => Standing(t)' = Standing(t)
  BY <1>2, <1>3, <1>4, <1>5, <1>9 DEF Standing, Between, At, Holder
<1>11. l \in {"texts", "bump"} /\ (l = "texts" => s = "fillers") /\ (l = "bump" => s = "assets")
  BY <1>1 DEF Store
<1> HIDE DEF l
<1>12. Typed'
  BY <1>4, <1>5, <1>6 DEF IInv, Typed
<1>13. Requested'
  <2>1. Sound(q)
    BY <1>1, <1>2, <1>3 DEF Sound
  <2> QED BY <1>3, <1>5, <1>11, <2>1 DEF IInv, Requested, At, Sound
<1>14. OneInside'
  BY <1>1, <1>2, <1>3, <1>4, <1>5, <1>11 DEF IInv, OneInside, Inside, Holder
<1>21. Reading'
  BY <1>2, <1>3, <1>4, <1>5, <1>11 DEF IInv, Reading, At, Typed, Holder
<1>15. Counted'
  BY <1>1, <1>2, <1>3, <1>4, <1>5, <1>11, AsMany DEF IInv, At
<1>16. Applied'
  <2>1. ~lost[s] => r.dir = Files(r, applied.files[s])
    BY <1>1, <1>2 DEF IInv, Applied
  <2>2. s = "fillers" => q.texts = Texts(q, Base(q))
    BY <1>1, <1>2, <1>3, <1>7 DEF IInv, Applied, Base
  <2>3. \A g \in Handler : g # h /\ handler[g].at \in {"aside", "in"} => handler[g].store \in Store \ {s}
    BY <1>2, <1>8 DEF Inside, Request
  <2> QED BY <1>3, <1>4, <1>5, <1>6, <1>10, <1>11, <2>1, <2>2, <2>3 DEF IInv, Applied, Base
<1>17. Sorted'
  <2>1. s = "assets" => \A n \in Name \ Slot : Files(r, applied.files[s])[n] = 0 /\ r.dir[n] = 0
    <3> SUFFICES ASSUME s = "assets", NEW n \in Name \ Slot
                 PROVE  Files(r, applied.files[s])[n] = 0 /\ r.dir[n] = 0
      OBVIOUS
    <3>1. r.op = "batch" /\ n \notin r.names /\ applied.files[s][n] = 0 /\ r.dir[n] = 0
      BY <1>1, <1>2 DEF Sound, IInv, Sorted
    <3> QED BY <3>1 DEF Files, Write
  <2>2. applied'.files["fillers"][Silence] # 0
    <3>1. s = "fillers" => Silence \notin r.names
      BY <1>1, <1>2, Constants DEF Sound
    <3>2. s = "fillers" => Files(r, applied.files[s])[Silence] = applied.files[s][Silence]
      BY <1>2, <3>1, Constants DEF Files, Write, Content
    <3> QED BY <1>6, <3>2 DEF IInv, Sorted, Store
  <2>3. \A g \in Handler : handler'[g].at \in {"aside", "in"} => handler'[g] = handler[g]
    BY <1>3, <1>5, <1>11
  <2>4. \A g \in Handler : At(g, "in")' => live'[handler'[g].store] = Nothing
    <3>1. \A g \in Handler : g # h /\ At(g, "in") => handler[g].store \in Store \ {s}
      BY <1>2, <1>8 DEF At, Inside, Request
    <3> QED BY <1>3, <1>5, <1>11, <3>1 DEF IInv, Sorted, At
  <2> QED BY <1>5, <1>6, <2>1, <2>2, <2>3, <2>4 DEF IInv, Sorted, At
<1>18. NewName'
  <2>1. \A g \in Handler : At(g, "aside")' /\ handler'[g].op = "generate" =>
           g # h /\ handler'[g] = handler[g] /\ handler[g].store = "fillers" /\ s # "fillers"
    <3>1. \A g \in Handler : handler[g].store \in Store
      BY <1>2 DEF Request
    <3>2. \A g \in Handler : At(g, "aside") /\ handler[g].op = "generate" => handler[g].store = "fillers"
      BY <3>1 DEF At, IInv, Requested, Sound, Store
    <3> QED BY <1>3, <1>5, <1>8, <1>11, <3>2 DEF At, Inside
  <2> QED BY <1>5, <2>1 DEF IInv, NewName, At, Present, Store
<1>19. Loading'
  <2>1. \A g \in Handler : handler'[g].at \in {"bump", "write"} /\ handler'[g].store = "fillers" =>
           /\ live'["fillers"] = live["fillers"] /\ handler[g].at \in {"bump", "write"}
           /\ handler[g].store = "fillers" /\ handler'[g] = handler[g]
    BY <1>3, <1>5, <1>8, <1>11 DEF At, Inside, Store
  <2>2. \A g \in Handler : g # h /\ handler'[g].at \in {"load", "bump", "write"} =>
           handler'[g] = handler[g] /\ handler[g].store \in Store
    BY <1>2, <1>5 DEF Request
  <2>3. "fillers" \in Store
    BY DEF Store
  <2> QED BY <1>3, <1>4, <1>5, <1>10, <2>1, <2>2, <2>3 DEF IInv, Loading, Listed
<1>20. Told'
  BY <1>4, <1>5, <1>10 DEF IInv, Told, Same, Seen, Dated, Current
<1> QED BY <1>12, <1>13, <1>14, <1>15, <1>16, <1>17, <1>18, <1>19, <1>20, <1>21 DEF IInv

\* What a load lists is in the directory, and all of it if it could be read.
LEMMA LoadKeeps ==
    ASSUME live["fillers"] \in Content, labels \in Content, labels = applied.texts,
           applied \in [files : [Store -> Content], texts : Content],
           live' = live, Loaded({}) \/ LoadedPartly
    PROVE  /\ labels' \in Content /\ listed' \in [clips : Content, texts : Content]
           /\ labels' = applied'.texts /\ applied'.files = applied.files
           /\ applied' \in [files : [Store -> Content], texts : Content]
           /\ unread' \in BOOLEAN /\ Listed(live["fillers"])'
           /\ Loaded({}) => /\ listed'.clips = live["fillers"]
                            /\ labels' = Pruned(labels, live["fillers"]) /\ listed'.texts = labels'
<1> DEFINE f == live["fillers"]
<1>1. ASSUME NEW skipped
      PROVE  /\ Write(f, skipped, 0) \in Content
             /\ \A n \in Name : Write(f, skipped, 0)[n] # 0 => Write(f, skipped, 0)[n] = f[n]
             /\ skipped = {} => Write(f, skipped, 0) = f
  BY Constants DEF Write, Content, Number
<1>2. Pruned(Nothing, f) = Nothing /\ Nothing \in Content
  BY Contents DEF Pruned, Nothing
<1>3. ASSUME NEW skipped, Loaded(skipped)
      PROVE  /\ labels' \in Content /\ listed' \in [clips : Content, texts : Content]
             /\ labels' = applied'.texts /\ applied'.files = applied.files
             /\ applied' \in [files : [Store -> Content], texts : Content]
             /\ unread' \in BOOLEAN /\ Listed(live["fillers"])'
             /\ skipped = {} => /\ listed'.clips = f
                                /\ labels' = Pruned(labels, f) /\ listed'.texts = labels'
  <2> DEFINE clips == Write(f, skipped, 0)
             kept == Pruned(labels, clips)
  <2>1. /\ labels' = kept /\ listed' = [clips |-> clips, texts |-> kept]
        /\ applied' = [applied EXCEPT !.texts = Pruned(applied.texts, clips)]
        /\ unread' = (skipped # {})
    BY <1>3 DEF Loaded
  <2>2. /\ clips \in Content /\ (skipped = {} => clips = f)
        /\ \A n \in Name : clips[n] # 0 => clips[n] = f[n]
    BY <1>1
  <2> HIDE DEF clips
  <2>3. kept \in Content /\ Pruned(kept, clips) = kept /\ kept = Pruned(applied.texts, clips)
    BY <2>2, PrunedTyped
  <2>4. skipped = {} => kept = Pruned(labels, f)
    BY <2>2
  <2> HIDE DEF kept
  <2> QED BY <2>1, <2>2, <2>3, <2>4 DEF Listed
<1>4. ASSUME NEW skipped, LoadedUnread(skipped)
      PROVE  /\ labels' \in Content /\ listed' \in [clips : Content, texts : Content]
             /\ labels' = applied'.texts /\ applied'.files = applied.files
             /\ applied' \in [files : [Store -> Content], texts : Content]
             /\ unread' \in BOOLEAN /\ Listed(live["fillers"])'
  <2> DEFINE clips == Write(f, skipped, 0)
  <2>1. /\ clips \in Content /\ (skipped = {} => clips = f)
        /\ \A n \in Name : clips[n] # 0 => clips[n] = f[n]
    BY <1>1
  <2>2. listed' = [clips |-> clips, texts |-> Nothing]
    BY <1>4 DEF LoadedUnread
  <2> HIDE DEF clips
  <2>3. CASE /\ labels' = Nothing /\ applied' = [applied EXCEPT !.texts = Nothing]
             /\ unread' = (skipped # {})
    BY <1>2, <2>1, <2>2, <2>3 DEF Listed
  <2>4. CASE unread' = TRUE /\ UNCHANGED <<labels, applied>>
    BY <1>2, <2>1, <2>2, <2>4 DEF Listed
  <2> QED BY <1>4, <2>3, <2>4 DEF LoadedUnread
<1>5. CASE Loaded({})
  BY <1>3, <1>5
<1>6. CASE LoadedPartly /\ ~Loaded({})
  BY <1>3, <1>4, <1>6 DEF LoadedPartly
<1> QED BY <1>5, <1>6

\* The texts are saved, then the clips and their texts loaded.
LEMMA TextsKeeps ==
    ASSUME IInv, NEW h \in Handler, SaveTexts(h) \/ LoadFillers(h) \/ LoadPartly(h)
    PROVE  IInv'
<1> DEFINE r == handler[h]
           s == "fillers"
           l == IF At(h, "texts") THEN "load" ELSE "bump"
           q == [r EXCEPT !.at = l]
<1>1. /\ r.at \in {"texts", "load"} /\ r.store = s /\ s \in Store /\ r \in Request /\ Sound(r)
      /\ held[s] = h /\ handler \in [Handler -> Request] /\ labels \in Content
      /\ applied \in [files : [Store -> Content], texts : Content] /\ live[s] \in Content
      /\ unversioned \in [Store -> BOOLEAN] /\ labels = applied.texts
      /\ r.at = "texts" => r.texts = Texts(r, Base(r))
      /\ "settings" \notin r.missed /\ faults \in 0 .. MaxFaults
  BY DEF SaveTexts, LoadFillers, LoadPartly, At, IInv, Typed, OneInside, Inside, Requested, Applied,
         Store
<1>2. /\ q \in Request /\ q.at = l /\ l \in {"load", "bump"} /\ q.store = s /\ q.op = r.op
      /\ q.names = r.names /\ q.write = r.write /\ q.missed = r.missed
  BY <1>1 DEF Request, Inside
<1>3. /\ handler' = [handler EXCEPT ![h] = q]
      /\ UNCHANGED <<live, version, held, config, phone, cache, writes, lost, era>>
      /\ faults' \in 0 .. MaxFaults
  BY <1>1, Constants DEF SaveTexts, LoadFillers, LoadPartly, Goto, At, Fault
<1>4. ASSUME SaveTexts(h)
      PROVE  /\ labels' \in Content /\ labels' = applied'.texts /\ applied'.files = applied.files
             /\ applied' \in [files : [Store -> Content], texts : Content]
  <2>1. /\ At(h, "texts") /\ labels' = r.texts
        /\ applied' = [applied EXCEPT !.texts = Texts(r, IF "texts" \in r.missed THEN Nothing ELSE applied.texts)]
        /\ unversioned' = [unversioned EXCEPT ![s] = TRUE] /\ UNCHANGED <<listed, unread>>
    BY <1>4 DEF SaveTexts
  <2>2. labels' = Texts(r, Base(r)) /\ Base(r) = (IF "texts" \in r.missed THEN Nothing ELSE applied.texts)
    BY <1>1, <2>1 DEF At, Base
  <2>3. Base(r) \in Content
    BY <1>1, Contents DEF Base
  <2>4. labels' \in Content
    BY <1>1, <2>2, <2>3, Written
  <2>5. /\ labels' = applied'.texts /\ applied'.files = applied.files
        /\ applied' \in [files : [Store -> Content], texts : Content]
    BY <1>1, <2>1, <2>2, <2>4
  <2> QED BY <2>1, <2>4, <2>5
<1>6. /\ labels' \in Content /\ labels' = applied'.texts /\ applied'.files = applied.files
      /\ applied' \in [files : [Store -> Content], texts : Content]
      /\ listed' \in [clips : Content, texts : Content] /\ unread' \in BOOLEAN
      /\ l = "bump" => Listed(live[s])'
  <2>1. CASE SaveTexts(h)
    <3>1. l = "load" /\ l # "bump" /\ UNCHANGED <<listed, unread>>
      BY <2>1 DEF SaveTexts
    <3> HIDE DEF l
    <3> QED BY <1>4, <2>1, <3>1 DEF IInv, Typed
  <2>2. CASE LoadFillers(h) \/ LoadPartly(h)
    <3>1. (Loaded({}) \/ LoadedPartly) /\ live' = live
      BY <2>2 DEF LoadFillers, LoadPartly
    <3> QED BY <1>1, <3>1, LoadKeeps
  <2> QED BY <2>1, <2>2
<1>7. unversioned'[s] /\ unversioned'["assets"] = unversioned["assets"]
      /\ unversioned' \in [Store -> BOOLEAN]
  <2>1. r.at = "load" => unversioned[s]
    BY <1>1 DEF IInv, Loading
  <2>2. \/ unversioned' = [unversioned EXCEPT ![s] = TRUE]
        \/ unversioned' = unversioned /\ r.at = "load"
    BY DEF SaveTexts, LoadFillers, LoadPartly, At
  <2>3. "assets" \in Store /\ "assets" # s
    BY DEF Store
  <2>4. CASE unversioned' = [unversioned EXCEPT ![s] = TRUE]
    BY <1>1, <2>3, <2>4
  <2>5. CASE unversioned' = unversioned /\ r.at = "load"
    BY <1>1, <2>1, <2>5
  <2> QED BY <2>2, <2>4, <2>5
<1> HIDE DEF q, l
<1>8. /\ handler'[h] = q /\ \A g \in Handler : g # h => handler'[g] = handler[g]
      /\ handler' \in [Handler -> Request]
  BY <1>1, <1>2, <1>3
<1>9. \A g \in Handler : g # h /\ handler[g].at \in Inside => handler[g].store # s
  BY <1>1, Alone DEF IInv, Inside
<1>10. \A t \in Store : t # s => held[t] # h
  BY <1>1, Constants DEF IInv, OneInside
<1>11. \A t \in Store : Standing(t)' = Standing(t)
  BY <1>1, <1>2, <1>3, <1>8, <1>10 DEF Standing, Between, At, IInv, Typed, Holder
<1>12. Typed'
  BY <1>3, <1>6, <1>7, <1>8 DEF IInv, Typed
<1>13. Requested'
  <2>1. Sound(q)
    BY <1>1, <1>2 DEF Sound
  <2> QED BY <1>1, <1>2, <1>8, <2>1 DEF IInv, Requested, At, Sound
<1>14. OneInside'
  BY <1>1, <1>2, <1>3, <1>8 DEF IInv, OneInside, Inside, Typed, Holder
<1>15. Reading'
  BY <1>1, <1>2, <1>3, <1>8 DEF IInv, Reading, At, Typed, Holder
<1>16. Counted'
  BY <1>1, <1>2, <1>3, <1>8, AsMany DEF IInv, At
<1>17. Applied'
  <2>1. \A g \in Handler : handler'[g].at \in {"aside", "in", "texts"} =>
           g # h /\ handler'[g] = handler[g] /\ handler[g].store # s
    BY <1>2, <1>8, <1>9 DEF Inside
  <2> QED BY <1>3, <1>6, <1>11, <2>1 DEF IInv, Applied, Base
<1>18. Sorted' /\ NewName'
  BY <1>2, <1>3, <1>6, <1>8 DEF IInv, Sorted, NewName, At, Present
<1>19. Loading'
  <2>1. \A g \in Handler : g # h /\ handler'[g].at \in {"load", "bump", "write"} =>
           handler'[g] = handler[g] /\ handler[g].store = "assets"
    BY <1>1, <1>8, <1>9 DEF Inside, Request, Store
  <2>2. \A g \in Handler : handler'[g].at \in {"bump", "write"} /\ handler'[g].store = "fillers" =>
           g = h /\ l = "bump"
    BY <1>2, <1>8, <2>1 DEF At
  <2>3. \A g \in Handler : handler'[g].at \in {"load", "bump", "write"} => unversioned'[handler'[g].store]
    BY <1>2, <1>7, <1>8, <2>1 DEF IInv, Loading
  <2> QED BY <1>6, <1>7, <2>2, <2>3 DEF Loading
<1>20. Told'
  <2>1. \A t \in Store : ~unversioned'[t] => t = "assets" /\ ~unversioned[t]
    BY <1>7 DEF Store
  <2> QED BY <1>3, <1>11, <2>1 DEF IInv, Told, Same, Seen, Dated, Current
<1> QED BY <1>12, <1>13, <1>14, <1>15, <1>16, <1>17, <1>18, <1>19, <1>20 DEF IInv

\* The settings are read, to raise the version in them.
LEMMA ReadKeeps == ASSUME IInv, NEW h \in Handler, ReadSettings(h) PROVE IInv'
<1> DEFINE r == handler[h]
<1>1. /\ r \in Request /\ r.at = "bump" /\ Sound(r) /\ config = "nobody" /\ r.store \in Store
      /\ handler \in [Handler -> Request] /\ "settings" \notin r.missed
      /\ version \in [Store -> Nat \ {0}] /\ held \in [Store -> Holder]
      /\ faults \in 0 .. MaxFaults
  BY DEF ReadSettings, ConfigFree, At, IInv, Typed, Requested, Request
<1>2. PICK q \in Request :
         /\ handler' = [handler EXCEPT ![h] = q] /\ q.at = "write" /\ q.store = r.store
         /\ q.op = r.op /\ q.names = r.names
         /\ q.read = IF "settings" \in q.missed THEN Defaults ELSE version
  <2>1. CASE handler' = [handler EXCEPT ![h].at = "write", ![h].read = version]
    <3> DEFINE q == [r EXCEPT !.at = "write", !.read = version]
    <3>1. /\ q \in Request /\ q.at = "write" /\ q.store = r.store /\ q.op = r.op /\ q.names = r.names
          /\ q.read = version /\ "settings" \notin q.missed
      BY <1>1 DEF Request, Inside
    <3>2. handler' = [handler EXCEPT ![h] = q]
      BY <2>1
    <3> HIDE DEF q
    <3> QED BY <3>1, <3>2
  <2>2. CASE handler' = [handler EXCEPT ![h].at = "write", ![h].read = Defaults,
                                        ![h].missed = @ \cup {"settings"}]
    <3> DEFINE q == [r EXCEPT !.at = "write", !.read = Defaults, !.missed = r.missed \cup {"settings"}]
    <3>1. r.missed \cup {"settings"} \in SUBSET {"texts", "settings"}
      BY <1>1 DEF Request
    <3>2. /\ q \in Request /\ q.at = "write" /\ q.store = r.store /\ q.op = r.op /\ q.names = r.names
          /\ q.read = Defaults /\ "settings" \in q.missed
      BY <1>1, <3>1, Contents DEF Request, Inside
    <3>3. handler' = [handler EXCEPT ![h] = q]
      BY <2>2
    <3> HIDE DEF q
    <3> QED BY <3>2, <3>3
  <2> QED BY <2>1, <2>2 DEF ReadSettings
<1>3. /\ config' = h /\ faults' \in 0 .. MaxFaults
      /\ UNCHANGED <<live, labels, listed, version, held, phone, cache, writes, applied,
                     unversioned, lost, unread, era>>
  BY <1>1, Constants DEF ReadSettings, Fault
<1>4. /\ handler'[h] = q /\ \A g \in Handler : g # h => handler'[g] = handler[g]
      /\ handler' \in [Handler -> Request]
  BY <1>1, <1>2
<1>5. \A t \in Store : Standing(t)' = Standing(t)
  BY <1>1, <1>2, <1>3, <1>4 DEF Standing, Between, At, Holder
<1>6. Typed'
  BY <1>3, <1>4 DEF IInv, Typed, Holder
<1>7. Requested'
  <2>1. Sound(q)
    BY <1>1, <1>2 DEF Sound
  <2> QED BY <1>2, <1>4, <2>1 DEF IInv, Requested, At, Sound
<1>8. OneInside'
  BY <1>1, <1>2, <1>3, <1>4 DEF IInv, OneInside, Inside, Holder
<1>9. Reading'
  <2>1. \A g \in Handler : ~At(g, "write")
    BY <1>1, Constants DEF IInv, Reading
  <2> QED BY <1>2, <1>3, <1>4, <2>1 DEF Reading, At
<1>10. Counted'
  BY <1>1, <1>2, <1>3, <1>4, AsMany DEF IInv, At
<1>11. Applied' /\ Sorted' /\ NewName'
  BY <1>2, <1>3, <1>4, <1>5 DEF IInv, Applied, Base, Sorted, NewName, At, Present
<1>12. Loading'
  BY <1>1, <1>2, <1>3, <1>4, <1>5 DEF IInv, Loading, Listed, Store
<1>13. Told'
  BY <1>3, <1>5 DEF IInv, Told, Same, Seen, Dated, Current
<1> QED BY <1>6, <1>7, <1>8, <1>9, <1>10, <1>11, <1>12, <1>13 DEF IInv

\* What a phone got stays right: versions start over in a new era, and in the
\* same one only a version that no phone has seen is told anew.
LEMMA TellingKeeps ==
    ASSUME IInv, UNCHANGED <<phone, cache>>, era' \in {era, era + 1},
           \A t \in Store : version'[t] \in Nat,
           era' = era => \A t \in Store :
              \/ version'[t] = version[t] /\ (unversioned[t] => unversioned'[t])
              \/ version'[t] = version[t] + 1,
           \A t \in Store : ~unversioned'[t] /\ ~unversioned[t] =>
              Seen(t)' = Seen(t) /\ (t = "fillers" => listed'.texts = listed.texts)
    PROVE  Told'
<1>1. /\ era \in Nat /\ \A t \in Store : version[t] \in Nat
      /\ \A t \in Store : cache[t].version \in Nat /\ cache[t].era \in Nat
      /\ phone.version \in Nat /\ phone.era \in Nat
  BY DEF IInv, Typed, CacheType, SyncType
<1>2. ASSUME NEW t \in Store, NEW v \in Nat, NEW e \in Nat, Dated(t, v, e)
      PROVE  Dated(t, v, e)' /\ (Current(t, v, e)' => Current(t, v, e) /\ ~unversioned'[t])
  <2>1. CASE era' = era + 1
    BY <1>1, <1>2, <2>1 DEF Dated, Current
  <2>2. CASE era' = era
    BY <1>1, <1>2, <2>2 DEF Dated, Current
  <2> QED BY <2>1, <2>2
<1>3. \A t \in Store : ~unversioned'[t] /\ ~unversioned[t] =>
         \A got, texts, names : Same(t, got, texts, names) => Same(t, got, texts, names)'
  BY DEF Same
<1>4. \A t \in Store : /\ Dated(t, cache[t].version, cache[t].era)
                       /\ Current(t, cache[t].version, cache[t].era) =>
                             Same(t, cache[t].got, cache[t].texts, Name)
  BY DEF IInv, Told
<1>5. \A t \in Store : phone.store = t =>
         /\ Dated(t, phone.version, phone.era)
         /\ Current(t, phone.version, phone.era) =>
               Same(t, phone.got, phone.texts, Name \ phone.left)
  BY DEF IInv, Told
<1>6. \A t \in Store : /\ Dated(t, cache[t].version, cache[t].era)'
                       /\ Current(t, cache[t].version, cache[t].era)' =>
                             Same(t, cache[t].got, cache[t].texts, Name)'
  <2> SUFFICES ASSUME NEW t \in Store
               PROVE  /\ Dated(t, cache[t].version, cache[t].era)'
                      /\ Current(t, cache[t].version, cache[t].era)' =>
                            Same(t, cache[t].got, cache[t].texts, Name)'
    OBVIOUS
  <2>1. PICK v \in Nat, e \in Nat : v = cache[t].version /\ e = cache[t].era
    BY <1>1
  <2>2. Dated(t, v, e)' /\ (Current(t, v, e)' => Current(t, v, e) /\ ~unversioned'[t])
    BY <1>2, <1>4, <2>1
  <2>3. /\ Dated(t, cache[t].version, cache[t].era)' <=> Dated(t, v, e)'
        /\ Current(t, cache[t].version, cache[t].era)' <=> Current(t, v, e)'
    BY <2>1 DEF Dated, Current
  <2>4. Current(t, v, e) => ~unversioned[t] /\ Same(t, cache[t].got, cache[t].texts, Name)
    BY <1>4, <2>1 DEF Current
  <2>5. Same(t, cache[t].got, cache[t].texts, Name)' <=> (Same(t, cache[t].got, cache[t].texts, Name)')
    OBVIOUS
  <2>6. ~unversioned'[t] /\ ~unversioned[t] /\ Same(t, cache[t].got, cache[t].texts, Name) =>
           Same(t, cache[t].got, cache[t].texts, Name)'
    BY DEF Same
  <2> QED BY <2>2, <2>3, <2>4, <2>6
<1>7. ASSUME NEW t \in Store, phone.store = t
      PROVE  /\ Dated(t, phone.version, phone.era)'
             /\ Current(t, phone.version, phone.era)' =>
                   Same(t, phone.got, phone.texts, Name \ phone.left)'
  <2>1. PICK v \in Nat, e \in Nat : v = phone.version /\ e = phone.era
    BY <1>1
  <2>2. Dated(t, v, e)' /\ (Current(t, v, e)' => Current(t, v, e) /\ ~unversioned'[t])
    BY <1>2, <1>5, <1>7, <2>1
  <2>3. /\ Dated(t, phone.version, phone.era)' <=> Dated(t, v, e)'
        /\ Current(t, phone.version, phone.era)' <=> Current(t, v, e)'
    BY <2>1 DEF Dated, Current
  <2>4. Current(t, v, e) => ~unversioned[t] /\ Same(t, phone.got, phone.texts, Name \ phone.left)
    BY <1>5, <1>7, <2>1 DEF Current
  <2>5. ~unversioned'[t] /\ ~unversioned[t] /\ Same(t, phone.got, phone.texts, Name \ phone.left) =>
           Same(t, phone.got, phone.texts, Name \ phone.left)'
    BY DEF Same
  <2> QED BY <2>2, <2>3, <2>4, <2>5
<1>8. phone'.left # {} => phone'.store \in Store
  BY DEF IInv, Told
<1> QED BY <1>6, <1>7, <1>8 DEF Told

\* The version is raised, or the request fails on the way: the lock is free again.
LEMMA LeaveKeeps ==
    ASSUME IInv, NEW h \in Handler, Bump(h) \/ Fail(h) \/ LoadFails(h) \/ RestoreFails(h)
    PROVE  IInv'
<1> DEFINE r == handler[h]
<1>1. PICK s \in Store : s = r.store
  BY DEF IInv, Typed, Request
<1>2. /\ r.at \in Inside /\ r \in Request /\ held[s] = h /\ handler \in [Handler -> Request]
      /\ live \in [Store -> Content] /\ version \in [Store -> Nat \ {0}]
      /\ held \in [Store -> Holder] /\ unversioned \in [Store -> BOOLEAN]
      /\ lost \in [Store -> BOOLEAN] /\ listed \in [clips : Content, texts : Content]
      /\ era \in Nat /\ unread \in BOOLEAN /\ faults \in 0 .. MaxFaults /\ config \in Holder
      /\ labels \in Content
      /\ r.at = "load" => s = "fillers"
  BY <1>1 DEF Bump, Fail, LoadFails, RestoreFails, At, IInv, Typed, OneInside, Inside, Request,
              Requested
<1>3. /\ handler' = [handler EXCEPT ![h] = NoRequest] /\ held' = [held EXCEPT ![s] = "nobody"]
      /\ UNCHANGED <<labels, phone, cache, writes, applied>>
      /\ faults' \in 0 .. MaxFaults
  BY <1>1, <1>2, Constants DEF Bump, Fail, LoadFails, RestoreFails, Release, Answer, At, Fault
<1>4. /\ handler'[h] = NoRequest /\ NoRequest.at = "idle" /\ NoRequest.op = "none"
      /\ NoRequest.missed = {}
      /\ \A g \in Handler : g # h => handler'[g] = handler[g]
      /\ handler' \in [Handler -> Request]
      /\ held'[s] = "nobody" /\ \A t \in Store : t # s => held'[t] = held[t]
      /\ held' \in [Store -> Holder]
  BY <1>2, <1>3, Contents DEF NoRequest, Holder
<1>5. \A g \in Handler : g # h /\ handler[g].at \in Inside => handler[g].store # s
  BY <1>1, <1>2, Alone DEF IInv
<1>6. \A t \in Store : t # s => held[t] # h
  BY <1>1, Constants DEF IInv, OneInside
<1>7. Standing(s) = IF r.at = "in" THEN r.old ELSE live[s]
  BY <1>2, Constants DEF Standing, Between, At
\* The directories.
<1>8. /\ \A t \in Store : t # s => live'[t] = live[t]
      /\ live' \in [Store -> Content] /\ lost' \in [Store -> BOOLEAN]
      /\ \A t \in Store : ~lost'[t] => ~lost[t] /\ (t = s => live'[s] = Standing(s))
      /\ live'[s] = Standing(s) \/ (live'[s] = Nothing /\ unversioned'[s])
  <2>1. CASE Fail(h)
    <3>1. live' = [live EXCEPT ![s] = Standing(s)] /\ lost' = lost
      BY <1>1, <1>7, <2>1 DEF Fail, Restored
    <3>2. Standing(s) \in Content
      BY <1>2, <1>7 DEF Request
    <3> QED BY <1>2, <3>1, <3>2
  <2>2. CASE Bump(h) \/ LoadFails(h)
    <3>1. live' = live /\ lost' = lost /\ r.at # "in"
      BY <2>2 DEF Bump, LoadFails, At
    <3> QED BY <1>2, <1>7, <3>1
  <2>3. CASE RestoreFails(h)
    <3>1. live' = live /\ lost' = [lost EXCEPT ![s] = TRUE] /\ unversioned' = [unversioned EXCEPT ![s] = TRUE]
          /\ At(h, "in")
      BY <1>1, <2>3 DEF RestoreFails
    <3>2. live[s] = Nothing
      BY <1>1, <3>1 DEF IInv, Sorted
    <3> QED BY <1>2, <3>1, <3>2
  <2> QED BY <2>1, <2>2, <2>3
<1>9. /\ \A t \in Store : t # s => Standing(t)' = Standing(t)
      /\ Standing(s)' = live'[s]
  BY <1>2, <1>4, <1>6, <1>8 DEF Standing, Between, At, Holder
\* The versions.
<1>10. /\ version' \in [Store -> Nat \ {0}] /\ unversioned' \in [Store -> BOOLEAN]
       /\ era' \in {era, era + 1} /\ era' \in Nat
       /\ \A t \in Store : version'[t] <= version[t] \/ (t = s /\ version'[t] <= version[t] + 1)
       /\ \A t \in Store : t # s => unversioned'[t] = unversioned[t]
       /\ unversioned[s] /\ ~unversioned'[s] => At(h, "write") /\ UNCHANGED <<listed, unread, live>>
       /\ era' = era => \A t \in Store :
             \/ version'[t] = version[t] /\ (unversioned[t] => unversioned'[t])
             \/ version'[t] = version[t] + 1
  <2>1. CASE Bump(h)
    <3>1. /\ At(h, "write") /\ version' = [r.read EXCEPT ![s] = r.read[s] + 1]
          /\ unversioned' = [unversioned EXCEPT ![s] = FALSE]
          /\ UNCHANGED <<listed, unread, live>>
          /\ era' = era + IF "settings" \in r.missed THEN 1 ELSE 0
      BY <1>1, <2>1 DEF Bump, Bumped
    <3>2. /\ r.read \in [Store -> Nat \ {0}]
          /\ r.read = IF "settings" \in r.missed THEN Defaults ELSE version
      BY <1>2, <3>1 DEF IInv, Reading, Request
    <3>3. \A t \in Store : r.read[t] <= version[t]
      BY <1>2, <3>2, Contents
    <3>4. /\ \A t \in Store : version'[t] = IF t = s THEN r.read[t] + 1 ELSE r.read[t]
          /\ version' \in [Store -> Nat \ {0}]
          /\ \A t \in Store : r.read[t] \in Nat \ {0} /\ version[t] \in Nat \ {0}
      BY <1>2, <3>1, <3>2
    <3>5. /\ unversioned' \in [Store -> BOOLEAN]
          /\ \A t \in Store : t # s => unversioned'[t] = unversioned[t]
      BY <1>2, <3>1
    <3>6. \A t \in Store : version'[t] <= version[t] \/ (t = s /\ version'[t] <= version[t] + 1)
      BY <3>3, <3>4
    <3>7. era' \in {era, era + 1} /\ era' \in Nat /\ (era' = era => "settings" \notin r.missed)
      BY <1>2, <3>1
    <3>8. era' = era => \A t \in Store :
             \/ version'[t] = version[t] /\ (unversioned[t] => unversioned'[t])
             \/ version'[t] = version[t] + 1
      BY <3>2, <3>4, <3>5, <3>7
    <3> QED BY <3>1, <3>4, <3>5, <3>6, <3>7, <3>8
  <2>2. CASE Fail(h) \/ LoadFails(h)
    <3>1. UNCHANGED <<version, era, unversioned>>
      BY <2>2 DEF Fail, LoadFails
    <3> QED BY <1>2, <3>1
  <2>3. CASE RestoreFails(h)
    <3>1. UNCHANGED <<version, era>> /\ unversioned' = [unversioned EXCEPT ![s] = TRUE]
      BY <1>1, <2>3 DEF RestoreFails
    <3> QED BY <1>2, <3>1
  <2> QED BY <2>1, <2>2, <2>3
\* The memory.
<1>11. /\ listed' \in [clips : Content, texts : Content] /\ unread' \in BOOLEAN
       /\ UNCHANGED <<listed, unread>> \/ At(h, "load")
  <2>1. CASE LoadFails(h)
    <3>1. Pruned(labels, live["fillers"]) \in Content /\ live["fillers"] \in Content
      BY <1>2, PrunedTyped DEF Store
    <3>2. At(h, "load") /\ unread' = TRUE
      BY <2>1 DEF LoadFails
    <3>3. CASE listed' = [clips |-> Nothing, texts |-> Nothing]
      BY <3>2, <3>3, Contents
    <3>4. CASE listed' = [clips |-> live["fillers"], texts |-> Pruned(labels, live["fillers"])]
      BY <3>1, <3>2, <3>4
    <3> QED BY <2>1, <3>3, <3>4 DEF LoadFails
  <2>2. CASE Bump(h) \/ Fail(h) \/ RestoreFails(h)
    BY <1>2, <2>2 DEF Bump, Fail, RestoreFails
  <2> QED BY <2>1, <2>2
<1>12. config' \in {config, "nobody"} /\ (config = h => config' = "nobody")
  <2>1. At(h, "load") \/ At(h, "in") => config # h
    BY Constants DEF IInv, Reading, At
  <2> QED BY <1>2, <2>1 DEF Bump, Fail, LoadFails, RestoreFails
<1>13. config' # config => config = h
  BY DEF Bump, Fail, LoadFails, RestoreFails, IInv, Reading
<1>14. Typed'
  BY <1>2, <1>3, <1>4, <1>8, <1>10, <1>11, <1>12 DEF IInv, Typed, Holder
<1>15. Requested'
  BY <1>4 DEF IInv, Requested, At, Sound
<1>16. OneInside'
  <2>1. \A g \in Handler : handler'[g].at \in Inside => /\ g # h /\ handler'[g] = handler[g]
                                                       /\ handler[g].store \in Store \ {s}
    BY <1>2, <1>4, <1>5 DEF Inside, Request
  <2>2. \A t \in Store : held'[t] # "nobody" => /\ t # s /\ held'[t] = held[t] /\ held[t] \in Handler
                                                /\ handler'[held[t]] = handler[held[t]]
    BY <1>2, <1>4, <1>6 DEF Holder
  <2> QED BY <1>4, <2>1, <2>2 DEF IInv, OneInside
<1>17. Reading'
  <2>1. ASSUME NEW g \in Handler, At(g, "write")'
        PROVE  g # h /\ handler'[g] = handler[g] /\ config = g /\ config' = g /\ version' = version
    <3>1. g # h /\ handler'[g] = handler[g] /\ At(g, "write") /\ config = g
      BY <1>4, <2>1 DEF At, IInv, Reading
    <3>2. ~At(h, "write")
      BY <3>1 DEF IInv, Reading
    <3> QED BY <1>13, <3>1, <3>2 DEF Bump, Fail, LoadFails, RestoreFails
  <2>2. config' # "nobody" => handler'[config'].at = "write"
    BY <1>2, <1>4, <1>12, <1>13 DEF IInv, Reading, At, Holder
  <2> QED BY <2>1, <2>2 DEF IInv, Reading, At
<1>18. Counted'
  BY <1>1, <1>2, <1>3, <1>4, <1>10, OneLess DEF IInv, At, Inside
<1>19. Applied'
  <2>1. \A t \in Store : ~lost'[t] => ~lost[t] /\ Standing(t)' = Standing(t)
    BY <1>8, <1>9
  <2>2. \A g \in Handler : g # h => handler[g].store \in Store
    BY <1>2 DEF Request
  <2>3. \A g \in Handler : handler'[g].at \in {"aside", "in", "texts"} => g # h /\ handler'[g] = handler[g]
    BY <1>4
  <2> QED BY <1>3, <2>1, <2>2, <2>3 DEF IInv, Applied, Base
<1>20. Sorted'
  <2>1. s = "assets" => \A n \in Name \ Slot : live'[s][n] = 0
    <3> SUFFICES ASSUME s = "assets", NEW n \in Name \ Slot PROVE live'[s][n] = 0
      OBVIOUS
    <3>1. live[s][n] = 0 /\ (r.at = "in" => r.old[n] = 0) /\ Nothing[n] = 0
      BY <1>1, Contents DEF IInv, Sorted, At
    <3> QED BY <1>7, <1>8, <3>1
  <2>2. \A g \in Handler : At(g, "in")' => live'[handler'[g].store] = Nothing
    <3>1. \A g \in Handler : g # h /\ At(g, "in") => handler[g].store \in Store \ {s}
      BY <1>2, <1>5 DEF At, Inside, Request
    <3> QED BY <1>4, <1>8, <3>1 DEF IInv, Sorted, At
  <2> QED BY <1>3, <1>4, <1>8, <2>1, <2>2 DEF IInv, Sorted, At
<1>21. NewName'
  <2>1. \A g \in Handler : At(g, "aside")' /\ handler'[g].op = "generate" =>
           g # h /\ handler'[g] = handler[g] /\ handler[g].store = "fillers" /\ s # "fillers"
    <3>1. \A g \in Handler : handler[g].store \in Store
      BY <1>2 DEF Request
    <3>2. \A g \in Handler : At(g, "aside") /\ handler[g].op = "generate" => handler[g].store = "fillers"
      BY <3>1 DEF At, IInv, Requested, Sound, Store
    <3> QED BY <1>4, <1>5, <3>2 DEF At, Inside
  <2> QED BY <1>8, <2>1 DEF IInv, NewName, At, Present, Store
<1>22. Loading'
  <2>1. \A g \in Handler : handler'[g].at \in {"load", "bump", "write"} =>
           /\ handler'[g] = handler[g] /\ handler[g].store \in Store \ {s}
    BY <1>2, <1>4, <1>5 DEF Inside, Request
  <2>2. ~unversioned'["fillers"] => Listed(Standing("fillers"))'
    <3> SUFFICES ASSUME ~unversioned'["fillers"] PROVE Listed(Standing("fillers"))'
      OBVIOUS
    <3>1. At(h, "load") => unversioned["fillers"] /\ s = "fillers"
      BY <1>1, <1>2 DEF IInv, Loading, At
    <3>2. UNCHANGED <<listed, unread>>
      BY <1>10, <1>11, <3>1 DEF At
    <3>3. Standing("fillers")' = Standing("fillers")
      BY <1>8, <1>9 DEF Store
    <3>4. CASE ~unversioned["fillers"]
      BY <1>3, <3>2, <3>3, <3>4 DEF IInv, Loading, Listed
    <3>5. CASE unversioned["fillers"]
      <4>1. s = "fillers" /\ At(h, "write")
        BY <1>10, <3>5 DEF Store
      <4>2. Listed(live["fillers"]) /\ Standing("fillers") = live["fillers"]
        BY <1>1, <1>2, <1>7, <4>1 DEF IInv, Loading, At
      <4> QED BY <1>3, <3>2, <3>3, <4>2 DEF Listed
    <3> QED BY <3>4, <3>5
  <2>3. \A g \in Handler : handler'[g].at \in {"bump", "write"} /\ handler'[g].store = "fillers" =>
           Listed(live["fillers"])'
    <3>1. s # "fillers" => UNCHANGED <<listed, unread>> /\ live'["fillers"] = live["fillers"]
      BY <1>2, <1>8, <1>11 DEF At, Store
    <3> QED BY <1>3, <2>1, <3>1 DEF IInv, Loading, Listed
  <2>4. \A g \in Handler : handler'[g].at \in {"load", "bump", "write"} => unversioned'[handler'[g].store]
    BY <1>10, <2>1 DEF IInv, Loading
  <2> QED BY <2>2, <2>3, <2>4 DEF Loading
<1>23. Told'
  <2>1. ASSUME NEW t \in Store, ~unversioned'[t], ~unversioned[t]
        PROVE  Seen(t)' = Seen(t) /\ (t = "fillers" => listed'.texts = listed.texts)
    <3>1. Standing(t)' = Standing(t)
      BY <1>8, <1>9, <2>1
    <3>2. t = "fillers" => listed' = listed
      BY <1>1, <1>2, <1>11, <2>1 DEF IInv, Loading, At
    <3> QED BY <3>1, <3>2 DEF Seen, Store
  <2> QED BY <1>3, <1>10, <2>1, TellingKeeps
<1> QED BY <1>14, <1>15, <1>16, <1>17, <1>18, <1>19, <1>20, <1>21, <1>22, <1>23 DEF IInv

-----------------------------------------------------------------------------
(* A kill, and a phone.                                                     *)

\* Settings that could not be read are written back: versions start over.
LEMMA ResetKeeps == ASSUME IInv, ResetSettings PROVE IInv'
<1>1. /\ config = "nobody" /\ version' = Defaults /\ era' = era + 1
      /\ faults \in 0 .. MaxFaults /\ faults' \in 0 .. MaxFaults
      /\ UNCHANGED <<live, labels, listed, held, config, handler, phone, cache, writes, applied,
                     unversioned, lost, unread>>
  BY Constants DEF ResetSettings, ConfigFree, Fault, IInv, Typed
<1>2. \A t \in Store : Standing(t)' = Standing(t) /\ Waiting(t)' = Waiting(t)
  BY <1>1 DEF Standing, Between, Waiting, At
<1>3. Typed' /\ \A t \in Store : version'[t] = 1 /\ version[t] \in Nat \ {0}
  BY <1>1, Contents DEF IInv, Typed
<1>4. Requested' /\ OneInside' /\ Applied' /\ Sorted' /\ NewName'
  BY <1>1, <1>2 DEF IInv, Requested, Sound, OneInside, Applied, Base, Sorted, NewName, At, Present
<1>5. Reading'
  BY <1>1, Constants DEF IInv, Reading, At
<1>6. Counted'
  <2>1. \A t \in Store : /\ Cardinality(Waiting(t)) \in Nat /\ IsFiniteSet(Waiting(t))
                         /\ version[t] + Cardinality(Waiting(t)) <= writes
    BY FS_CardinalityType DEF IInv, Counted
  <2>2. writes \in Nat
    BY DEF IInv, Typed
  <2>3. \A t \in Store : 1 + Cardinality(Waiting(t)) <= writes
    BY <1>3, <2>1, <2>2
  <2> QED BY <1>1, <1>2, <1>3, <2>1, <2>3 DEF Counted
<1>7. Loading'
  BY <1>1, <1>2 DEF IInv, Loading, Listed, Store
<1>8. Told'
  <2>1. era \in Nat /\ \A t \in Store : Seen(t)' = Seen(t)
    BY <1>1, <1>2 DEF IInv, Typed, Seen
  <2>2. era' \in {era, era + 1} /\ era' # era
    BY <1>1, <2>1
  <2> QED BY <1>1, <1>3, <2>1, <2>2, TellingKeeps
<1> QED BY <1>3, <1>4, <1>5, <1>6, <1>7, <1>8 DEF IInv

\* What was between the two renames is lost, and nothing else.
LEMMA KillKeeps == ASSUME IInv, Kill PROVE IInv'
<1> DEFINE between == {handler[h].store : h \in {g \in Handler : At(g, "in")}}
           left == [s \in Store |-> unversioned[s] \/ s \in between \/ (s = "fillers" /\ unread)]
<1>1. /\ handler' = [h \in Handler |-> NoRequest] /\ held' = [s \in Store |-> "nobody"]
      /\ config' = "nobody" /\ phone' = NoSync
      /\ lost' = [s \in Store |-> lost[s] \/ s \in between]
      /\ (Loaded({}) /\ unversioned' = left)
         \/ (LoadedPartly /\ unversioned' = [left EXCEPT !["fillers"] = TRUE])
      /\ faults < MaxFaults /\ faults' = faults + 1
      /\ UNCHANGED <<live, version, cache, writes, era>>
  BY DEF Kill, Fault
<1>2. /\ "fillers" \in Store /\ live["fillers"] \in Content /\ labels \in Content
      /\ labels = applied.texts /\ applied \in [files : [Store -> Content], texts : Content]
      /\ handler \in [Handler -> Request] /\ held \in [Store -> Holder]
  BY DEF Store, IInv, Typed, Applied
<1>3. \A s \in Store : Between(s) <=> s \in between
  BY <1>2, Constants DEF IInv, OneInside, Between, At, Inside, Holder
<1>4. \A s \in Store : Standing(s)' = live[s] /\ (s \notin between => Standing(s) = live[s])
  BY <1>1, <1>3 DEF Standing, Between
<1>5. /\ labels' \in Content /\ listed' \in [clips : Content, texts : Content]
      /\ labels' = applied'.texts /\ applied'.files = applied.files
      /\ applied' \in [files : [Store -> Content], texts : Content]
      /\ unread' \in BOOLEAN /\ Listed(live["fillers"])'
      /\ Loaded({}) => /\ listed'.clips = live["fillers"]
                       /\ labels' = Pruned(labels, live["fillers"]) /\ listed'.texts = labels'
  BY <1>1, <1>2, LoadKeeps
<1>6. /\ \A s \in Store : ~lost'[s] => ~lost[s] /\ s \notin between
      /\ \A s \in Store : ~unversioned'[s] => /\ ~unversioned[s] /\ s \notin between
                                              /\ s = "fillers" => ~unread /\ Loaded({})
      /\ lost' \in [Store -> BOOLEAN] /\ unversioned' \in [Store -> BOOLEAN]
  <2>1. left \in [Store -> BOOLEAN] /\ [left EXCEPT !["fillers"] = TRUE] \in [Store -> BOOLEAN]
    OBVIOUS
  <2>2. lost' \in [Store -> BOOLEAN] /\ \A s \in Store : ~lost'[s] => ~lost[s] /\ s \notin between
    BY <1>1
  <2>3. unversioned' \in [Store -> BOOLEAN]
    BY <1>1, <2>1
  <2>4. \A s \in Store : ~unversioned'[s] => /\ ~unversioned[s] /\ s \notin between
                                             /\ s = "fillers" => ~unread /\ Loaded({})
    <3>1. CASE unversioned' = left /\ Loaded({})
      BY <3>1
    <3>2. CASE unversioned' = [left EXCEPT !["fillers"] = TRUE]
      BY <1>2, <3>2
    <3> QED BY <1>1, <3>1, <3>2
  <2> QED BY <2>2, <2>3, <2>4
<1>7. ~unversioned'["fillers"] => listed'.texts = listed.texts /\ listed'.clips = listed.clips
  <2> SUFFICES ASSUME ~unversioned'["fillers"]
               PROVE  listed'.texts = listed.texts /\ listed'.clips = listed.clips
    OBVIOUS
  <2>1. ~unversioned["fillers"] /\ ~unread /\ Loaded({}) /\ Standing("fillers") = live["fillers"]
    BY <1>2, <1>4, <1>6
  <2>2. /\ listed.clips = live["fillers"] /\ listed.texts = labels
        /\ Pruned(labels, live["fillers"]) = labels
    BY <2>1 DEF IInv, Loading, Listed
  <2> QED BY <1>5, <2>1, <2>2
<1> HIDE DEF between, left
<1>8. \A h \in Handler : /\ handler'[h] = NoRequest /\ NoRequest.at = "idle" /\ NoRequest.op = "none"
                         /\ NoRequest.missed = {}
  BY <1>1 DEF NoRequest
<1>9. \A s \in Store : held'[s] = "nobody"
  BY <1>1
<1>10. Typed'
  <2>1. faults' \in 0 .. MaxFaults
    BY <1>1, Constants DEF IInv, Typed
  <2>2. handler' \in [Handler -> Request] /\ held' \in [Store -> Holder] /\ config' \in Holder
    BY <1>1, Contents DEF Holder
  <2> QED BY <1>1, <1>5, <1>6, <2>1, <2>2, Contents DEF IInv, Typed
<1>11. Requested' /\ OneInside' /\ Reading' /\ NewName'
  BY <1>1, <1>8, <1>9 DEF Requested, OneInside, Reading, NewName, At, Inside
<1>12. Counted'
  <2>1. \A s \in Store : Waiting(s)' = {}
    BY <1>8 DEF Waiting, At
  <2>2. IsFiniteSet({}) /\ Cardinality({}) = 0
    BY FS_EmptySet
  <2>3. \A s \in Store : IsFiniteSet(Waiting(s)') /\ Cardinality(Waiting(s)') = 0
    BY <2>1, <2>2
  <2>4. \A s \in Store : /\ Cardinality(Waiting(s)) \in Nat /\ version[s] \in Nat
                         /\ version[s] + Cardinality(Waiting(s)) <= writes
    BY FS_CardinalityType DEF IInv, Counted, Typed
  <2>5. writes \in Nat
    BY DEF IInv, Typed
  <2> QED BY <1>1, <2>3, <2>4, <2>5 DEF Counted
<1>13. Applied'
  BY <1>1, <1>4, <1>5, <1>6, <1>8 DEF IInv, Applied
<1>14. Sorted'
  BY <1>1, <1>5, <1>8 DEF IInv, Sorted, At
<1>15. Loading'
  <2>1. Listed(Standing("fillers"))'
    BY <1>1, <1>2, <1>4, <1>5 DEF Listed
  <2> QED BY <1>8, <2>1 DEF Loading
<1>16. Told'
  <2>1. \A s \in Store : ~unversioned'[s] =>
           /\ ~unversioned[s] /\ Seen(s)' = Seen(s)
           /\ s = "fillers" => listed'.texts = listed.texts
    BY <1>1, <1>4, <1>6, <1>7 DEF Seen, Store
  <2>2. \A s \in Store : /\ Current(s, cache[s].version, cache[s].era)' =>
                                Same(s, cache[s].got, cache[s].texts, Name)'
    BY <1>1, <2>1 DEF IInv, Told, Same, Current
  <2>3. \A s \in Store : Dated(s, cache[s].version, cache[s].era)' /\ phone'.store # s
    BY <1>1, Contents DEF IInv, Told, Store, Dated
  <2> QED BY <1>1, <2>2, <2>3, Contents DEF Told
<1> QED BY <1>10, <1>11, <1>12, <1>13, <1>14, <1>15, <1>16 DEF IInv

\* What a phone does changes nothing of the stores.
LEMMA PhoneKeeps ==
    ASSUME IInv, phone' \in SyncType, cache' \in [Store -> CacheType], Told',
           faults' \in 0 .. MaxFaults,
           UNCHANGED <<live, labels, listed, version, held, config, handler, writes, applied,
                       unversioned, lost, unread, era>>
    PROVE  IInv'
<1>1. Typed' /\ Requested' /\ OneInside' /\ Reading' /\ Counted'
  BY DEF IInv, Typed, Requested, Sound, OneInside, Reading, Counted, Waiting, At
<1>2. Applied' /\ Sorted' /\ NewName' /\ Loading'
  BY DEF IInv, Applied, Base, Sorted, NewName, Present, Loading, Listed, Standing, Between, At
<1> QED BY <1>1, <1>2 DEF IInv

LEMMA SyncKeeps == ASSUME IInv, NEW s \in Store, Sync(s) PROVE IInv'
<1> DEFINE left == IF s = "assets" THEN Slot ELSE Managed(listed.clips)
           texts == IF s = "assets" THEN Nothing ELSE listed.texts
<1>1. PICK v \in {version[s], 1} :
         /\ phone' = [NoSync EXCEPT !.store = s, !.version = v, !.era = era, !.left = left,
                                    !.texts = texts]
         /\ IF v = version[s] THEN UNCHANGED faults ELSE Fault
  BY DEF Sync
<1> DEFINE p == [NoSync EXCEPT !.store = s, !.version = v, !.era = era, !.left = left,
                               !.texts = texts]
<1>2. /\ version[s] \in Nat \ {0} /\ left \subseteq Name /\ texts \in Content
      /\ live \in [Store -> Content] /\ era \in Nat /\ faults \in 0 .. MaxFaults
  BY Constants, Contents DEF IInv, Typed, Managed, Present
<1>3. v \in Nat /\ v <= version[s]
  BY <1>2
<1>4. /\ p \in SyncType /\ p.store = s /\ p.version = v /\ p.left = left /\ p.texts = texts
      /\ p.got = Nothing /\ p.era = era
  BY <1>2, <1>3, Contents DEF SyncType, NoSync
<1>5. /\ phone' = p /\ faults' \in 0 .. MaxFaults
      /\ UNCHANGED <<live, labels, listed, version, held, config, handler, cache, writes,
                     applied, unversioned, lost, unread, era>>
  BY <1>1, <1>2, Constants DEF Sync, Fault
<1> HIDE DEF p
<1>6. \A t \in Store : Seen(t)' = Seen(t)
  BY <1>5 DEF Seen, Standing, Between, At
<1>7. Same(s, Nothing, texts, Name \ left)
  <2>1. ASSUME NEW n \in Name, n \notin left, n # Silence PROVE Seen(s)[n] = 0
    <3>1. CASE s = "assets"
      <4>1. n \notin Slot /\ live[s][n] = 0
        BY <2>1, <3>1 DEF IInv, Sorted
      <4>2. Between(s) => held[s] \in Handler /\ handler[held[s]].store = s
        BY Constants DEF IInv, OneInside, Between, Typed, Holder
      <4> QED BY <3>1, <4>1, <4>2 DEF Seen, Standing, Between, At, IInv, Sorted
    <3>2. CASE s = "fillers"
      BY <2>1, <3>2 DEF Managed, Present, Seen
    <3> QED BY <3>1, <3>2 DEF Store
  <2> QED BY <2>1, Contents DEF Same, Store
<1>8. Told'
  <2>1. \A t \in Store : phone'.store = t => t = s
    BY <1>4, <1>5
  <2>2. Same(s, phone.got, phone.texts, Name \ phone.left)'
    BY <1>4, <1>5, <1>6, <1>7 DEF Same
  <2>3. \A t \in Store : /\ Dated(t, cache[t].version, cache[t].era)'
                         /\ Current(t, cache[t].version, cache[t].era)' =>
                               Same(t, cache[t].got, cache[t].texts, Name)'
    BY <1>5, <1>6 DEF IInv, Told, Same, Dated, Current
  <2>4. Dated(s, phone.version, phone.era)' /\ phone'.store = s
    BY <1>2, <1>3, <1>4, <1>5 DEF Dated
  <2> QED BY <2>1, <2>2, <2>3, <2>4 DEF Told
<1>9. phone' \in SyncType /\ cache' \in [Store -> CacheType]
  BY <1>4, <1>5 DEF IInv, Typed
<1> QED BY <1>5, <1>8, <1>9, PhoneKeeps

LEMMA FetchKeeps == ASSUME IInv, Fetch \/ Keep PROVE IInv'
<1>1. phone \in SyncType /\ live \in [Store -> Content] /\ cache \in [Store -> CacheType]
      /\ version \in [Store -> Nat \ {0}] /\ faults' \in 0 .. MaxFaults
  BY DEF IInv, Typed, Fetch, Keep
<1>2. UNCHANGED <<live, labels, listed, version, held, config, handler, writes, faults, applied,
                  unversioned, lost, unread, era>>
  BY DEF Fetch, Keep
<1>3. \A t \in Store : Seen(t)' = Seen(t)
  BY <1>2 DEF Seen, Standing, Between, At
<1>4. \A t \in Store : /\ Dated(t, cache[t].version, cache[t].era)
                       /\ Current(t, cache[t].version, cache[t].era) =>
                             Same(t, cache[t].got, cache[t].texts, Name)
  BY DEF IInv, Told
<1>5. PICK s : s = phone.store
  OBVIOUS
<1>6. s \in Store => /\ Dated(s, phone.version, phone.era)
                     /\ Current(s, phone.version, phone.era) =>
                           Same(s, phone.got, phone.texts, Name \ phone.left)
  BY <1>5 DEF IInv, Told
<1>7. CASE Keep
  <2> DEFINE c == [version |-> phone.version, era |-> phone.era, got |-> phone.got,
                   texts |-> phone.texts]
  <2>1. s \in Store /\ phone.left = {} /\ c \in CacheType
    BY <1>1, <1>5, <1>7 DEF Keep, SyncType, CacheType
  <2>2. /\ phone' = NoSync /\ cache'[s] = c /\ \A t \in Store : t # s => cache'[t] = cache[t]
        /\ cache' \in [Store -> CacheType]
    BY <1>1, <1>5, <1>7, <2>1 DEF Keep
  <2>3. c.version = phone.version /\ c.era = phone.era /\ c.got = phone.got /\ c.texts = phone.texts
    OBVIOUS
  <2> HIDE DEF c
  <2>4. \A t \in Store : /\ Dated(t, cache'[t].version, cache'[t].era)
                         /\ Current(t, cache'[t].version, cache'[t].era) =>
                               Same(t, cache'[t].got, cache'[t].texts, Name)
    <3>1. Dated(s, c.version, c.era) /\ (Current(s, c.version, c.era) => Same(s, c.got, c.texts, Name))
      BY <1>6, <2>1, <2>3 DEF Dated, Current, Same
    <3> QED BY <1>4, <2>2, <3>1
  <2>5. Told'
    <3>1. phone'.store = "none" /\ phone'.left = {}
      BY <2>2 DEF NoSync
    <3>2. \A t \in Store : /\ Dated(t, cache[t].version, cache[t].era)'
                           /\ Current(t, cache[t].version, cache[t].era)' =>
                                 Same(t, cache[t].got, cache[t].texts, Name)'
      BY <1>2, <1>3, <2>4 DEF Dated, Current, Same
    <3> QED BY <3>1, <3>2 DEF Told, Store
  <2> QED BY <1>1, <1>2, <2>2, <2>5, Contents, PhoneKeeps
<1>8. CASE Fetch
  <2>1. PICK n \in phone.left :
           phone' = IF Served(s, n) THEN [phone EXCEPT !.left = @ \ {n}, !.got[n] = live[s][n]] ELSE NoSync
    BY <1>5, <1>8 DEF Fetch
  <2>2. s \in Store /\ n \in Name /\ cache' = cache
    BY <1>1, <1>5, <1>8, <2>1 DEF Fetch, IInv, Told, SyncType
  <2>3. \A t \in Store : /\ Dated(t, cache[t].version, cache[t].era)'
                         /\ Current(t, cache[t].version, cache[t].era)' =>
                               Same(t, cache[t].got, cache[t].texts, Name)'
    BY <1>2, <1>3, <1>4, <2>2 DEF Dated, Current, Same
  <2>4. CASE ~Served(s, n)
    <3>1. phone' = NoSync /\ phone'.store = "none" /\ phone'.left = {}
      BY <2>1, <2>4 DEF NoSync
    <3>2. Told'
      BY <2>3, <3>1 DEF Told, Store
    <3> QED BY <1>1, <1>2, <2>2, <3>1, <3>2, Contents, PhoneKeeps
  <2>5. CASE Served(s, n)
    <3> DEFINE p == [phone EXCEPT !.left = @ \ {n}, !.got[n] = live[s][n]]
    <3>1. /\ p \in SyncType /\ p.store = s /\ p.version = phone.version /\ p.texts = phone.texts
          /\ p.left = phone.left \ {n} /\ p.era = phone.era
          /\ \A m \in Name : p.got[m] = IF m = n THEN live[s][n] ELSE phone.got[m]
      <4>1. live[s][n] \in Number
        BY <1>1, <2>2 DEF Content, Number
      <4> QED BY <1>1, <1>5, <4>1 DEF SyncType, Content, Number
    <3>2. ~unversioned[s] => Seen(s)[n] = live[s][n]
      <4>1. live[s][n] # 0 /\ Nothing[n] = 0 /\ (s = "fillers" => listed.clips[n] # 0)
        BY <2>2, <2>5, Contents DEF Served
      <4>2. Between(s) => held[s] \in Handler /\ handler[held[s]].store = s
        BY <2>2, Constants DEF IInv, OneInside, Between, Typed, Holder
      <4>3. ~Between(s)
        BY <4>1, <4>2 DEF Between, IInv, Sorted
      <4>4. Standing(s) = live[s]
        BY <4>3 DEF Standing
      <4> QED BY <2>2, <4>1, <4>4 DEF Seen, IInv, Loading, Listed, Store
    <3> HIDE DEF p
    <3>3. phone' = p /\ phone'.store = s
      BY <2>1, <2>5, <3>1 DEF p
    <3>4. /\ Dated(s, phone.version, phone.era)'
          /\ Current(s, phone.version, phone.era)' => Same(s, phone.got, phone.texts, Name \ phone.left)'
      <4>1. Dated(s, phone.version, phone.era)'
        BY <1>2, <1>6, <2>2, <3>1, <3>3 DEF Dated
      <4>2. Current(s, phone.version, phone.era)' =>
               ~unversioned[s] /\ Same(s, phone.got, phone.texts, Name \ phone.left)
        BY <1>2, <1>6, <2>2, <3>1, <3>3 DEF Current
      <4> QED BY <1>2, <1>3, <2>2, <3>1, <3>2, <3>3, <4>1, <4>2 DEF Same
    <3>5. Told'
      BY <2>2, <2>3, <3>3, <3>4 DEF Told
    <3> QED BY <1>1, <1>2, <2>2, <3>1, <3>3, <3>5, PhoneKeeps
  <2> QED BY <2>4, <2>5
<1> QED BY <1>7, <1>8

-----------------------------------------------------------------------------
(* The theorems.                                                            *)

LEMMA StepIInv == IInv /\ [Next]_vars => IInv'
<1> SUFFICES ASSUME IInv, [Next]_vars PROVE IInv'
  OBVIOUS
<1>1. CASE UNCHANGED vars
  BY <1>1, PhoneKeeps DEF vars, IInv, Typed, Told, Same, Seen, Dated, Current, Standing, Between, At
<1>2. CASE ~UNCHANGED vars
  BY <1>2, AskKeeps, BeginKeeps, MoveAsideKeeps, ReplaceKeeps, TextsKeeps, ReadKeeps, LeaveKeeps,
     ResetKeeps, KillKeeps, SyncKeeps, FetchKeeps DEF Next, Handles
<1> QED BY <1>1, <1>2

\* The inductive invariant.
THEOREM Invariance == Spec => []IInv
<1> QED BY InitIInv, StepIInv, PTL DEF Spec

\* Every variable holds a value of its type, and no version is raised without a write.
THEOREM TypeCorrect == Spec => []TypeOK
<1>1. IInv => TypeOK
  <2> SUFFICES ASSUME IInv PROVE TypeOK
    OBVIOUS
  <2>1. \A s \in Store : version[s] \in 1 .. MaxWrites
    <3>1. \A s \in Store : /\ Cardinality(Waiting(s)) \in Nat /\ version[s] \in Nat \ {0}
                           /\ version[s] + Cardinality(Waiting(s)) <= writes
      BY FS_CardinalityType DEF IInv, Counted, Typed
    <3>2. writes \in 1 .. MaxWrites
      BY DEF IInv, Typed
    <3> QED BY <3>1, <3>2, Constants
  <2> QED BY <2>1 DEF IInv, Typed, TypeOK, Holder
<1> QED BY <1>1, Invariance, PTL

\* No change of a request that was carried out is undone by another request, a
\* failure or a kill, and no clip takes another's place: the exceptions are a
\* directory between its renames, and texts and clips that cannot be read.
THEOREM NothingIsUndone == Spec => []ClipsKept
<1>1. IInv => ClipsKept
  <2> SUFFICES ASSUME IInv PROVE ClipsKept
    OBVIOUS
  <2>1. \A s \in Store : Untaken(s) => Standing(s) = live[s]
    BY DEF Untaken, Standing, Between
  <2>2. NothingLost
    BY <2>1 DEF IInv, Applied, NothingLost
  <2>3. NothingReplaced
    BY <2>1 DEF IInv, Applied, Sorted, NewName, NothingReplaced, Store
  <2> QED BY <2>2, <2>3 DEF ClipsKept
<1> QED BY <1>1, Invariance, PTL

\* A phone that got the current version since the settings were last reset holds
\* what is served; and that is all that is there, if it could be read.
THEOREM VersionsTell == Spec => []VersionTells
<1>1. IInv => VersionTells
  <2> SUFFICES ASSUME IInv PROVE VersionTells
    OBVIOUS
  <2>1. \A s \in Store : Untaken(s) => Standing(s) = live[s]
    BY DEF Untaken, Standing, Between
  <2>2. ASSUME NEW s \in Store, Untaken(s), ~unversioned[s] PROVE \A n \in Name : Shown(s)[n] = Seen(s)[n]
    <3>1. s = "fillers" => \A n \in Name : listed.clips[n] # 0 => listed.clips[n] = live[s][n]
      BY <2>1, <2>2 DEF IInv, Loading, Listed
    <3> QED BY <2>1, <2>2, <3>1 DEF Shown, Seen, Store
  <2>3. ASSUME NEW s \in Store, Untaken(s), ~unversioned[s], cache[s].version = version[s],
               cache[s].era = era
        PROVE  /\ \A n \in Name \ {Silence} : cache[s].got[n] = Shown(s)[n]
               /\ s = "fillers" => cache[s].texts = listed.texts
    <3>1. Same(s, cache[s].got, cache[s].texts, Name)
      BY <2>3 DEF IInv, Told, Current
    <3> QED BY <2>2, <2>3, <3>1 DEF Same
  <2>4. ASSUME Untaken("fillers"), ~unversioned["fillers"], ~unread
        PROVE  listed = [clips |-> live["fillers"], texts |-> labels]
    <3>1. listed.clips = live["fillers"] /\ listed.texts = labels
      BY <2>1, <2>4 DEF IInv, Loading, Listed, Store
    <3> QED BY <3>1 DEF IInv, Typed
  <2> QED BY <2>3, <2>4 DEF VersionTells
<1> QED BY <1>1, Invariance, PTL
=============================================================================
