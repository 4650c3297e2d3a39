----------------------------- MODULE MediaStore -----------------------------
(***************************************************************************)
(* The member's pictures and filler clips: two directories that routes     *)
(* replace as a whole under a lock of their own, each with a version in    *)
(* the shared settings that tells phones when to fetch it again.           *)
(***************************************************************************)
EXTENDS Naturals

CONSTANTS Handler,     \* HTTP handler threads
          Slot,        \* pictures (GATEWAY_SLOTS)
          Clip,        \* filler clips a member manages
          Silence,     \* the system clip (silence*), hidden and kept
          MaxWrites,   \* bound: contents written; 1 is what was there
          MaxFaults    \* bound: failures, unreadable files and kills

ASSUME MediaConstants == /\ MaxWrites \in Nat \ {0} /\ MaxFaults \in Nat
                         /\ Slot \cap (Clip \cup {Silence}) = {} /\ Silence \notin Clip
                         /\ "nobody" \notin Handler

Store == {"assets", "fillers"}
Name == Slot \cup Clip \cup {Silence}
Content == [Name -> 0 .. MaxWrites]    \* which write each file is from; 0: no file
Nothing == [n \in Name |-> 0]
Defaults == [s \in Store |-> 1]       \* the versions of settings that cannot be read

VARIABLES live,      \* the directories phones are served from
          labels,    \* the file of filler texts
          listed,    \* FILLER_METADATA: the clips and texts in memory
          version,   \* assets_version, fillers_version
          held,      \* ASSET_LOCK, FILLER_LOCK: who is in
          config,    \* OverlayConfig._lock: who is in
          handler,   \* per handler: its request
          phone, cache,   \* a phone that syncs, and what it keeps per store
          writes, faults, \* contents written; failures so far
          applied,   \* ghost: each finished change applied to the one before
          unversioned,    \* ghost: changed by a write or a restart that ended without a bump
          lost,      \* ghost: killed, or refused twice, while neither content was in place
          unread,    \* ghost: the last load left out what it could not read
          era        \* ghost: how often unreadable settings were written back as defaults

vars == <<live, labels, listed, version, held, config, handler, phone, cache, writes,
          faults, applied, unversioned, lost, unread, era>>

NoRequest == [at |-> "idle", store |-> "assets", op |-> "none", names |-> {}, write |-> 0,
              dir |-> Nothing, texts |-> Nothing, old |-> Nothing,
              read |-> Defaults,    \* the settings it read to write them back
              missed |-> {}]        \* ghost: what it could not read
NoSync == [store |-> "none", left |-> {}, version |-> 0, era |-> 0, got |-> Nothing,
           texts |-> Nothing]

Init ==
    /\ live = [s \in Store |-> [n \in Name |->
                  IF (s = "assets" /\ n \in Slot) \/ (s = "fillers" /\ n = Silence) THEN 1 ELSE 0]]
    /\ labels = Nothing /\ listed = [clips |-> live["fillers"], texts |-> Nothing]
    /\ version = Defaults /\ held = [s \in Store |-> "nobody"] /\ config = "nobody"
    /\ handler = [h \in Handler |-> NoRequest]
    /\ phone = NoSync
    /\ cache = [s \in Store |-> [version |-> 0, era |-> 0, got |-> Nothing, texts |-> Nothing]]
    /\ writes = 1 /\ faults = 0 /\ unread = FALSE /\ era = 0
    /\ applied = [files |-> live, texts |-> Nothing]
    /\ unversioned = [s \in Store |-> FALSE] /\ lost = [s \in Store |-> FALSE]

At(h, l) == handler[h].at = l
Goto(h, l) == handler' = [handler EXCEPT ![h].at = l]
Goes(h, l, s, ns) ==
    handler' = [handler EXCEPT ![h] = [NoRequest EXCEPT !.at = "lock", !.store = s,
                                          !.op = l, !.names = ns, !.write = writes + 1]]
Present(files) == {n \in Name : files[n] # 0}
Fault == faults < MaxFaults /\ faults' = faults + 1

-----------------------------------------------------------------------------
(* The routes: what each makes of the directory and of the texts.           *)

Write(files, ns, w) == [n \in Name |-> IF n \in ns THEN w ELSE files[n]]
Files(r, files) ==
    CASE r.op = "put"    -> [n \in Name |-> IF n \in r.names THEN r.write
                                            ELSE IF n = Silence THEN files[n] ELSE 0]
      [] r.op = "delete" -> Write(files, r.names, 0)
      [] r.op \in {"text", "untext"} -> files
      [] OTHER           -> Write(files, r.names, r.write)
Texts(r, texts) ==
    CASE r.op = "put"   -> Write(Nothing, r.names, r.write)
      [] r.op \in {"delete", "untext"} -> Write(texts, r.names, 0)
      [] r.op = "batch" -> texts
      [] OTHER          -> Write(texts, r.names, r.write)
\* load_fillers drops the texts of clips that are not there.
Pruned(texts, files) == [n \in Name |-> IF files[n] = 0 THEN 0 ELSE texts[n]]

\* A request is validated (a text may be empty: "untext"); the clip to generate
\* gets its name and is spoken before the lock is taken.
Ask(h) ==
    /\ At(h, "idle") /\ writes < MaxWrites /\ writes' = writes + 1
    /\ \/ \E ns \in SUBSET Slot \ {{}} : Goes(h, "batch", "assets", ns)
       \/ Goes(h, "put", "fillers", {})
       \/ \E n \in Clip, op \in {"put", "add", "delete", "text", "untext"} : Goes(h, op, "fillers", {n})
       \/ \E n \in Clip \ Present(live["fillers"]) : Goes(h, "generate", "fillers", {n})
    /\ UNCHANGED <<live, labels, listed, version, held, config, phone, cache, faults, applied,
                   unversioned, lost, unread, era>>

Unlocked(s) == TRUE
Free(s) == held[s] = "nobody"
Release(s) == held' = [held EXCEPT ![s] = "nobody"]
Answer(h) == handler' = [handler EXCEPT ![h] = NoRequest]

\* Under the lock: a clip that is not listed is not found, a generated name
\* that was taken meanwhile is drawn again, and the new directory is staged
\* from the live one, the new texts from those that were read.
Unlisted(r) == r.op \in {"delete", "text", "untext"} /\ ~(r.names \subseteq Present(listed.clips))
NamesFor(r) ==
    IF r.op = "generate" /\ r.names \subseteq Present(live["fillers"])
    THEN {{n} : n \in Clip \ Present(live["fillers"])} ELSE {r.names}
Enter(h, texts, missed) ==
    LET r == handler[h]
    IN /\ held' = [held EXCEPT ![r.store] = h]
       /\ \E ns \in NamesFor(r) :
             LET n == [r EXCEPT !.names = ns]
             IN handler' = [handler EXCEPT ![h] =
                  [n EXCEPT !.at = IF r.op \in {"text", "untext"} THEN "texts" ELSE "aside",
                            !.dir = Files(n, live[r.store]), !.texts = Texts(n, texts),
                            !.missed = missed]]
Begin(h) ==
    /\ At(h, "lock") /\ Free(handler[h].store)
    /\ IF Unlisted(handler[h]) THEN Answer(h) /\ UNCHANGED held ELSE Enter(h, labels, {})
    /\ UNCHANGED <<live, labels, listed, version, config, phone, cache, writes, faults, applied,
                   unversioned, lost, unread, era>>

\* _load_filler_texts: texts that cannot be read are none, and the file is made
\* empty, unless that fails as well.
Emptied ==
    /\ labels' = Nothing /\ applied' = [applied EXCEPT !.texts = Nothing]
    /\ unversioned' = [unversioned EXCEPT !["fillers"] = TRUE]
BeginUnread(h) ==
    /\ At(h, "lock") /\ Free(handler[h].store) /\ Fault
    /\ handler[h].op \notin {"batch", "put"} /\ ~Unlisted(handler[h])
    /\ Enter(h, Nothing, {"texts"})
    /\ Emptied \/ UNCHANGED <<labels, applied, unversioned>>
    /\ UNCHANGED <<live, listed, version, config, phone, cache, writes, lost, unread, era>>

\* _swap_directory: the live directory aside, the staged one in its place.
MoveAside(h) ==
    /\ At(h, "aside")
    /\ LET s == handler[h].store
       IN /\ handler' = [handler EXCEPT ![h].at = "in", ![h].old = live[s]]
          /\ live' = [live EXCEPT ![s] = Nothing]
    /\ UNCHANGED <<labels, listed, version, held, config, phone, cache, writes, faults, applied,
                   unversioned, lost, unread, era>>
Replace(h) ==
    /\ At(h, "in")
    /\ LET r == handler[h]
       IN /\ live' = [live EXCEPT ![r.store] = r.dir]
          /\ Goto(h, IF r.store = "assets" THEN "bump" ELSE "texts")
          /\ applied' = [applied EXCEPT !.files[r.store] = Files(r, @)]
          /\ unversioned' = [unversioned EXCEPT ![r.store] = TRUE]
    /\ UNCHANGED <<labels, listed, version, held, config, phone, cache, writes, faults, lost,
                   unread, era>>

\* _save_filler_texts, then load_fillers.  To a request that could not read
\* the texts there were none.
SaveTexts(h) ==
    /\ At(h, "texts") /\ labels' = handler[h].texts /\ Goto(h, "load")
    /\ applied' = [applied EXCEPT !.texts =
                     Texts(handler[h], IF "texts" \in handler[h].missed THEN Nothing ELSE @)]
    /\ unversioned' = [unversioned EXCEPT !["fillers"] = TRUE]
    /\ UNCHANGED <<live, listed, version, held, config, phone, cache, writes, faults, lost,
                   unread, era>>

\* The clips that can be read are listed, and texts of others are dropped.
\* (A directory that is missing is made; if it cannot be, it is as empty.)
Loaded(skipped) ==
    LET clips == Write(live["fillers"], skipped, 0)
        kept  == Pruned(labels, clips)
    IN /\ labels' = kept /\ listed' = [clips |-> clips, texts |-> kept]
       /\ applied' = [applied EXCEPT !.texts = Pruned(@, clips)]
       /\ unread' = (skipped # {})
\* The texts cannot be read: none is listed, and the file is made empty, if it can be.
LoadedUnread(skipped) ==
    /\ listed' = [clips |-> Write(live["fillers"], skipped, 0), texts |-> Nothing]
    /\ \/ /\ labels' = Nothing /\ applied' = [applied EXCEPT !.texts = Nothing]
          /\ unread' = (skipped # {})
       \/ unread' = TRUE /\ UNCHANGED <<labels, applied>>
LoadedPartly ==
    \E skipped \in SUBSET Present(live["fillers"]) :
       (skipped # {} /\ Loaded(skipped)) \/ LoadedUnread(skipped)

LoadFillers(h) ==
    /\ At(h, "load") /\ Loaded({}) /\ Goto(h, "bump")
    /\ UNCHANGED <<live, version, held, config, phone, cache, writes, faults, unversioned, lost, era>>
LoadPartly(h) ==
    /\ At(h, "load") /\ Fault /\ LoadedPartly /\ Goto(h, "bump")
    /\ UNCHANGED <<live, version, held, config, phone, cache, writes, unversioned, lost, era>>

\* load_fillers has cleared the memory when the listing fails, and filled it
\* again when the dropped texts cannot be saved.
LoadFails(h) ==
    /\ At(h, "load") /\ Fault /\ unread' = TRUE
    /\ listed' \in {[clips |-> Nothing, texts |-> Nothing],
                    [clips |-> live["fillers"], texts |-> Pruned(labels, live["fillers"])]}
    /\ Release("fillers") /\ Answer(h)
    /\ UNCHANGED <<live, labels, version, config, phone, cache, writes, applied, unversioned,
                   lost, era>>

\* OverlayConfig.bump, the last thing done under the store's lock: the settings
\* are read, both versions among them, and written back as a whole.  Settings
\* that cannot be read are the defaults.
Unguarded == TRUE
ConfigFree == config = "nobody"
ReadSettings(h) ==
    /\ At(h, "bump") /\ ConfigFree /\ config' = h
    /\ \/ /\ handler' = [handler EXCEPT ![h].at = "write", ![h].read = version]
          /\ UNCHANGED faults
       \/ /\ handler' = [handler EXCEPT ![h].at = "write", ![h].read = Defaults,
                                        ![h].missed = @ \cup {"settings"}]
          /\ Fault
    /\ UNCHANGED <<live, labels, listed, version, held, phone, cache, writes, applied,
                   unversioned, lost, unread, era>>
BumpedTwice(r) == [r.read EXCEPT ![r.store] = @ + IF r.op = "batch" THEN 1 ELSE 2]
Bumped(r) == [r.read EXCEPT ![r.store] = @ + 1]
Bump(h) ==
    /\ At(h, "write")
    /\ version' = Bumped(handler[h])
    /\ era' = era + IF "settings" \in handler[h].missed THEN 1 ELSE 0
    /\ unversioned' = [unversioned EXCEPT ![handler[h].store] = FALSE]
    /\ config' = "nobody" /\ Release(handler[h].store) /\ Answer(h)
    /\ UNCHANGED <<live, labels, listed, phone, cache, writes, faults, applied, lost, unread>>

\* Another route writes settings back that it could not read (update,
\* commit_voice_pointers).
ResetSettings ==
    /\ ConfigFree /\ Fault /\ version' = Defaults /\ era' = era + 1
    /\ UNCHANGED <<live, labels, listed, held, config, handler, phone, cache, writes, applied,
                   unversioned, lost, unread>>

\* Any step may fail: the request is refused, and what was already done stays.
\* Only a second rename that fails puts the old directory back.
Restored(r) == IF r.at = "in" THEN r.old ELSE live[r.store]
Fail(h) ==
    /\ handler[h].at \notin {"idle", "lock", "load"} /\ Fault
    /\ live' = [live EXCEPT ![handler[h].store] = Restored(handler[h])]
    /\ config' = IF config = h THEN "nobody" ELSE config
    /\ Release(handler[h].store) /\ Answer(h)
    /\ UNCHANGED <<labels, listed, version, phone, cache, writes, applied, unversioned, lost,
                   unread, era>>
\* That rename may fail too: then nothing is there.
RestoreFails(h) ==
    /\ At(h, "in") /\ Fault
    /\ lost' = [lost EXCEPT ![handler[h].store] = TRUE]
    /\ unversioned' = [unversioned EXCEPT ![handler[h].store] = TRUE]
    /\ Release(handler[h].store) /\ Answer(h)
    /\ UNCHANGED <<live, labels, listed, version, config, phone, cache, writes, applied, unread,
                   era>>

\* Killed and started again: requests and memory are gone, files stay as they
\* are, and the fillers are loaded from them, without a bump: nobody is told
\* of what this load or the last one could not read.
Kill ==
    /\ Fault
    /\ handler' = [h \in Handler |-> NoRequest] /\ held' = [s \in Store |-> "nobody"]
    /\ config' = "nobody" /\ phone' = NoSync
    /\ LET between == {handler[h].store : h \in {g \in Handler : At(g, "in")}}
           left    == [s \in Store |-> unversioned[s] \/ s \in between
                                         \/ (s = "fillers" /\ unread)]
       IN /\ lost' = [s \in Store |-> lost[s] \/ s \in between]
          /\ \/ Loaded({}) /\ unversioned' = left
             \/ LoadedPartly /\ unversioned' = [left EXCEPT !["fillers"] = TRUE]
    /\ UNCHANGED <<live, version, cache, writes, era>>

-----------------------------------------------------------------------------
(* A phone: the version first (with the list of the clips), then each file. *)

\* The version is the default if the settings cannot be read.
Managed(files) == Present(files) \ {Silence}
Sync(s) ==
    /\ phone.store = "none" /\ ConfigFree
    /\ s = "fillers" => Free(s)
    /\ \E v \in {version[s], 1} :
          /\ phone' = [NoSync EXCEPT !.store = s, !.version = v, !.era = era,
                          !.left = IF s = "assets" THEN Slot ELSE Managed(listed.clips),
                          !.texts = IF s = "assets" THEN Nothing ELSE listed.texts]
          /\ IF v = version[s] THEN UNCHANGED faults ELSE Fault
    /\ UNCHANGED <<live, labels, listed, version, held, config, handler, cache, writes,
                   applied, unversioned, lost, unread, era>>

\* _do_asset takes no lock; _do_filler_file_get does, and serves what is
\* listed.  A phone that is answered 404 gives up this time.
Served(s, n) == live[s][n] # 0 /\ (s = "fillers" => listed.clips[n] # 0)
Fetch ==
    /\ phone.store = "fillers" => Free("fillers")
    /\ \E n \in phone.left :
          phone' = IF Served(phone.store, n)
                   THEN [phone EXCEPT !.left = @ \ {n}, !.got[n] = live[phone.store][n]]
                   ELSE NoSync
    /\ UNCHANGED <<live, labels, listed, version, held, config, handler, cache, writes, faults,
                   applied, unversioned, lost, unread, era>>
Keep ==
    /\ phone.store # "none" /\ phone.left = {} /\ phone' = NoSync
    /\ cache' = [cache EXCEPT ![phone.store] =
                   [version |-> phone.version, era |-> phone.era, got |-> phone.got,
                    texts |-> phone.texts]]
    /\ UNCHANGED <<live, labels, listed, version, held, config, handler, writes, faults, applied,
                   unversioned, lost, unread, era>>

Handles(h) == Ask(h) \/ Begin(h) \/ BeginUnread(h) \/ MoveAside(h) \/ Replace(h)
              \/ SaveTexts(h) \/ LoadFillers(h) \/ LoadPartly(h) \/ LoadFails(h)
              \/ ReadSettings(h) \/ Bump(h) \/ Fail(h) \/ RestoreFails(h)
Next == (\E h \in Handler : Handles(h)) \/ Kill \/ ResetSettings
        \/ (\E s \in Store : Sync(s)) \/ Fetch \/ Keep
Spec == Init /\ [][Next]_vars

-----------------------------------------------------------------------------
\* Every variable holds a value of its type.
TypeOK ==
    /\ \A s \in Store : live[s] \in Content /\ version[s] \in 1 .. MaxWrites
    /\ labels \in Content /\ listed.clips \in Content /\ listed.texts \in Content
    /\ \A s \in Store : held[s] \in Handler \cup {"nobody"}
    /\ config \in Handler \cup {"nobody"}
    /\ writes \in 1 .. MaxWrites /\ faults \in 0 .. MaxFaults

Untaken(s) == held[s] = "nobody"

\* No change that was carried out is undone by another request, a failure or
\* a kill: outside a replacement the directories and the texts are the changes
\* applied one after the other.  Two exceptions: the directory is missing if
\* the program was killed, or both renames failed, between the two renames of
\* _swap_directory (caty_gateway.py:4034-4043); texts that cannot be read count
\* as emptied by the reader that writes them back (1893-1909), and the text of
\* a clip that cannot be read as dropped by the load that skips it (2062-2079).
NothingLost ==
    /\ \A s \in Store : Untaken(s) /\ ~lost[s] => live[s] = applied.files[s]
    /\ Untaken("fillers") => labels = applied.texts

\* What phones are served of a store.
Shown(s) == IF s = "assets" THEN live[s]
            ELSE [n \in Name |-> IF listed.clips[n] = 0 THEN 0 ELSE live[s][n]]

\* A phone whose version is the current one holds the current pictures, clips
\* and texts, as they are served: there is nothing it will never fetch
\* (caty_gateway.py:4061; a write that was refused half way is told by the next
\* one).  What it fetched before unreadable settings were written back as
\* defaults does not count: versions start over then (caty_config.py:284-292).
\* And all that is there is served, unless the last load could not read it.
VersionTells ==
    /\ \A s \in Store :
          Untaken(s) /\ ~unversioned[s] /\ cache[s].version = version[s] /\ cache[s].era = era =>
             /\ \A n \in Name \ {Silence} : cache[s].got[n] = Shown(s)[n]
             /\ s = "fillers" => cache[s].texts = listed.texts
    /\ Untaken("fillers") /\ ~unversioned["fillers"] /\ ~unread =>
          listed = [clips |-> live["fillers"], texts |-> labels]

\* A generated clip never takes the place of another one that came while it
\* was being spoken (caty_gateway.py:4683-4685), and the silence stays.
NothingReplaced ==
    /\ \A h \in Handler :
          At(h, "aside") /\ handler[h].op = "generate" =>
             handler[h].names \cap Present(live["fillers"]) = {}
    /\ Untaken("fillers") /\ ~lost["fillers"] => live["fillers"][Silence] # 0

\* What was put in the store stays until a request takes it out: no change is
\* undone, and no clip takes another's place.
ClipsKept == NothingLost /\ NothingReplaced
=============================================================================
