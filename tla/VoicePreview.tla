---------------------------- MODULE VoicePreview ----------------------------
(***************************************************************************)
(* voice_preview.VoicePreviewService: a spoken sample of one voice.  A     *)
(* sample is paid for, kept under the voice's source version, and replayed *)
(* when the voice service cannot be asked; those of a voice that was       *)
(* withdrawn are dropped.  Requests for a sample wait for the first one.   *)
(***************************************************************************)
EXTENDS VoiceCatalog, SequencesExt

CONSTANTS MaxVersions,      \* bound: source versions of the voice
          MaxEntries        \* _max_cache_entries

ASSUME PreviewConstants == MaxVersions \in Nat \ {0} /\ MaxEntries \in Nat \ {0}

Key == 1 .. MaxVersions

VARIABLES voice,       \* the service's voice: [version, there]
          samples,     \* _cache, oldest first: keys
          refused,     \* _negative_cache, oldest first: keys
          flights      \* _flights: per key, who leads

previewVars == <<now, handler, snapshots, fetching, latest,
          voice, samples, refused, flights>>

InitPreview ==
    /\ InitCatalog
    /\ voice = [version |-> 1, there |-> TRUE]
    /\ samples = <<>> /\ refused = <<>> /\ flights = [k \in Key |-> Nobody]

Answer(h) == handler' = [handler EXCEPT ![h] = IdleHandler]
\* A key is in a cache once at most; the entry stored last is the youngest.
Without(s, k) == IF Contains(s, k) THEN RemoveAt(s, CHOOSE i \in DOMAIN s : s[i] = k) ELSE s
Renewed(s, k) == Append(Without(s, k), k)
\* move_to_end.
Touched(s, k) == IF Contains(s, k) THEN Renewed(s, k) ELSE s
\* The oldest go while there are too many.
KeepsOneMore(s) == IF Len(s) > MaxEntries + 1 THEN SubSeq(s, Len(s) - MaxEntries, Len(s)) ELSE s
Bounded(s) == IF Len(s) > MaxEntries THEN SubSeq(s, Len(s) - MaxEntries + 1, Len(s)) ELSE s

-----------------------------------------------------------------------------
(* One request.                                                             *)

\* Offline, nothing is asked.
AskPreview(h) ==
    /\ At(h, "idle")
    /\ \E l \in {"resolve", "replay"} : handler' = [handler EXCEPT ![h] = [IdleHandler EXCEPT !.at = l]]
    /\ UNCHANGED <<voice, samples, refused, flights>>

\* resolve_preview: the voice as it is, withdrawn, or an error that may pass
\* (the last sample will do) or may not.
Resolve(h) ==
    /\ At(h, "resolve")
    /\ \/ /\ voice.there
          /\ handler' = [handler EXCEPT ![h].at = "lookup", ![h].key = voice.version]
       \/ ~voice.there /\ GoesTo(h, "withdrawn")
       \/ GoesTo(h, "replay")
       \/ Answer(h)
    /\ UNCHANGED <<voice, samples, refused, flights>>

\* _invalidate_reference: every sample of the voice.
Drop(h) ==
    /\ At(h, "withdrawn") /\ Answer(h)
    /\ samples' = <<>> /\ refused' = <<>>
    /\ UNCHANGED <<voice, flights>>

\* _cached_for_hint: the sample of the version asked for, or the newest.
Replay(h) ==
    /\ At(h, "replay") /\ Answer(h)
    /\ \/ samples = <<>> /\ UNCHANGED samples
       \/ \E i \in DOMAIN samples : samples' = Touched(samples, samples[i])
    /\ UNCHANGED <<voice, refused, flights>>

\* _lookup, then _negative_error: what is there, or was refused lately, is not
\* paid for again.  Each is under the lock by itself.
Lookup(h) ==
    /\ At(h, "lookup")
    /\ LET k == handler[h].key
       IN \/ Contains(samples, k) /\ Answer(h) /\ samples' = Touched(samples, k)
          \/ ~Contains(samples, k) /\ GoesTo(h, "refusals") /\ UNCHANGED samples
    /\ UNCHANGED <<voice, refused, flights>>
Refusals(h) ==
    /\ At(h, "refusals")
    /\ LET k == handler[h].key
       IN \/ Contains(refused, k) /\ Answer(h) /\ refused' = Touched(refused, k)
          \/ ~Contains(refused, k) /\ GoesTo(h, "join") /\ UNCHANGED refused
    /\ UNCHANGED <<voice, samples, flights>>

JoinsNobody(k) == TRUE
NobodySpeaks(k) == flights[k] = Nobody
Join(h) ==
    /\ At(h, "join")
    /\ LET k == handler[h].key
       IN IF NobodySpeaks(k)
          THEN GoesTo(h, "speak") /\ flights' = [flights EXCEPT ![k] = h]
          ELSE /\ handler' = [handler EXCEPT ![h].at = "wait", ![h].leader = flights[k]]
               /\ UNCHANGED flights
    /\ UNCHANGED <<voice, samples, refused>>

\* _generate: audio, audio that is too long or too large, or a failure.
Speak(h) ==
    /\ At(h, "speak")
    /\ \/ GoesTo(h, "store")
       \/ GoesTo(h, "refuse")
       \/ handler' = [handler EXCEPT ![h].at = "over", ![h].ok = FALSE]
    /\ UNCHANGED <<voice, samples, refused, flights>>
Store(h) ==
    /\ At(h, "store")
    /\ samples' = Bounded(Renewed(samples, handler[h].key))
    /\ handler' = [handler EXCEPT ![h].at = "over", ![h].ok = TRUE]
    /\ UNCHANGED <<voice, refused, flights>>
Refuse(h) ==
    /\ At(h, "refuse")
    /\ refused' = Bounded(Renewed(refused, handler[h].key))
    /\ handler' = [handler EXCEPT ![h].at = "over", ![h].ok = FALSE]
    /\ UNCHANGED <<voice, samples, flights>>

\* finally: the flight is over.  A follower is given the leader's error, or
\* looks the sample up: it may be gone again.  A follower may also give up.
Over(h) ==
    /\ At(h, "over") /\ flights' = [flights EXCEPT ![handler[h].key] = Nobody]
    /\ handler' = [g \in Handler |->
          IF g = h \/ (At(g, "wait") /\ handler[g].leader = h /\ ~handler[h].ok) THEN IdleHandler
          ELSE IF At(g, "wait") /\ handler[g].leader = h
               THEN [handler[g] EXCEPT !.at = "collect", !.leader = Nobody]
          ELSE handler[g]]
    /\ UNCHANGED <<voice, samples, refused>>
CollectSample(h) ==
    /\ At(h, "collect") /\ Answer(h) /\ samples' = Touched(samples, handler[h].key)
    /\ UNCHANGED <<voice, refused, flights>>
GiveUp(h) ==
    /\ At(h, "wait") /\ Answer(h) /\ UNCHANGED <<voice, samples, refused, flights>>

-----------------------------------------------------------------------------
(* Time and the voice service.                                              *)

\* Any entry may expire, however lately it was used.
Expire ==
    /\ UNCHANGED <<handler, voice, flights>>
    /\ \E k \in Key :
          \/ Contains(samples, k) /\ samples' = Without(samples, k) /\ UNCHANGED refused
          \/ Contains(refused, k) /\ refused' = Without(refused, k) /\ UNCHANGED samples
Change ==
    /\ \/ voice.version < MaxVersions /\ voice' = [voice EXCEPT !.version = @ + 1]
       \/ voice' = [voice EXCEPT !.there = ~@]
    /\ UNCHANGED <<handler, samples, refused, flights>>

Previews(h) == Resolve(h) \/ Drop(h) \/ Replay(h) \/ Lookup(h) \/ Refusals(h) \/ Join(h)
               \/ Speak(h) \/ Store(h) \/ Refuse(h) \/ Over(h) \/ CollectSample(h) \/ GiveUp(h)
Serves(h) == \/ Lists(h) /\ UNCHANGED <<voice, samples, refused, flights>>
             \/ Previews(h) /\ UNCHANGED <<now, snapshots, fetching, latest>>
NextPreview ==
    \/ \E h \in Handler : Serves(h)
    \/ (Tick \/ \E h \in Handler : ListVoices(h)) /\ UNCHANGED <<voice, samples, refused, flights>>
    \/ (Expire \/ Change \/ \E h \in Handler : AskPreview(h)) /\ UNCHANGED <<now, snapshots, fetching, latest>>

\* Every thread runs; the voice service and the speech synthesis have timeouts.
PreviewSpec == InitPreview /\ [][NextPreview]_previewVars
               /\ \A h \in Handler : WF_previewVars(Serves(h))

-----------------------------------------------------------------------------
\* Every variable holds a value of its type, and the caches their bounds.
PreviewTypeOK ==
    /\ now \in 0 .. MaxTime /\ \A h \in Handler : handler[h].key \in 0 .. MaxVersions
    /\ \A s \in Scope : snapshots[s].began \in 0 .. MaxTime /\ latest[s] \in 0 .. MaxTime
    /\ Len(samples) <= MaxEntries /\ Len(refused) <= MaxEntries
    /\ \A k \in Key : flights[k] \in Handler \cup {Nobody}
    /\ IsInjective(samples) /\ IsInjective(refused)

\* One sample is never paid for by two requests at once
\* (test_single_flight_coalesces_same_miss_to_one_generation).
Paying(k) == {h \in Handler : At(h, "speak") /\ handler[h].key = k}
PaidOnceAtATime == \A k \in Key : Cardinality(Paying(k)) <= 1

\* Every request is answered: no follower waits for a leader that is gone.
EveryCallEnds == \A h \in Handler : ~At(h, "idle") ~> At(h, "idle")
=============================================================================
