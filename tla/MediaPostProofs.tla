--------------------------- MODULE MediaPostProofs ---------------------------
(***************************************************************************)
(* What is proved of the recording page, for any bounds and images.  Only  *)
(* the steps of AudioMemo change what the two invariants speak of, so the  *)
(* induction is over those; all other steps leave memoVars alone, but for  *)
(* TakeFinished, which changes finished only.                              *)
(***************************************************************************)
EXTENDS MediaPost, TLAPS

(* From the first tap on record to storeRecord the player cannot play: the *)
(* play button is off, and the player was stopped.                         *)
TakeLocksPlayer == recorder # "stopped" => ~ playOn /\ player # "playing"

PageInv == TakeLocksPlayer /\ ClockHasReason

(* A step of MediaPost, as far as AudioMemo is concerned: one of the taps  *)
(* and callbacks, or nothing the invariants depend on.                     *)
LEMMA PageStep ==
    ASSUME [Next]_vars
    PROVE  \/ StareRecord
           \/ StoreRecord
           \/ Play
           \/ PlayerEnds
           \/ DidFinishPlaying
           \/ UNCHANGED <<storeOn, playOn, recorder, player, ended, ticking>>
<1>1. CASE Memo
  BY <1>1 DEF Memo, MemoStep, Tick, buttonVars
<1>2. CASE TakeFinished
  BY <1>2 DEF TakeFinished, DidFinishRecording, buttonVars, timerVars
<1>3. CASE UNCHANGED memoVars
  BY <1>3 DEF memoVars, buttonVars, timerVars
<1>4. ASSUME NEW i \in Images, PickImage(i) \/ ImageSent(i) \/ ImageLinked(i)
      PROVE  UNCHANGED memoVars
  BY <1>4 DEF PickImage, ImageSent, ImageLinked
<1>5. ASSUME AudioSent \/ AudioLinked \/ Post \/ Posted
      PROVE  UNCHANGED memoVars
  BY <1>5 DEF AudioSent, AudioLinked, Post, Posted
<1>6. ASSUME UNCHANGED vars
      PROVE  UNCHANGED memoVars
  BY <1>6 DEF vars
<1> QED
  BY <1>1, <1>2, <1>3, <1>4, <1>5, <1>6 DEF Next

(* The buttons and the player: only storeRecord unlocks play, and it stops *)
(* the recorder in the same step.                                          *)
LEMMA LockStep ==
    ASSUME TakeLocksPlayer, [Next]_vars
    PROVE  TakeLocksPlayer'
<1>1. CASE StareRecord
  BY <1>1 DEF StareRecord, RecordButtons, TakeLocksPlayer
<1>2. CASE StoreRecord
  BY <1>2 DEF StoreRecord, StopRecorder, TakeLocksPlayer
<1>3. CASE Play
  BY <1>3 DEF Play, TakeLocksPlayer, buttonVars
<1>4. CASE PlayerEnds
  BY <1>4 DEF PlayerEnds, TakeLocksPlayer, buttonVars
<1>5. CASE DidFinishPlaying
  BY <1>5 DEF DidFinishPlaying, TakeLocksPlayer, buttonVars
<1>6. CASE UNCHANGED <<storeOn, playOn, recorder, player, ended, ticking>>
  BY <1>6 DEF TakeLocksPlayer
<1> QED
  BY <1>1, <1>2, <1>3, <1>4, <1>5, <1>6, PageStep

(* The clock: a tap that takes its reason away stops it, except when a     *)
(* recording cannot begin; TakeLocksPlayer is what rules out that a paused *)
(* take is resumed in vain over a running player.                          *)
LEMMA ClockStep ==
    ASSUME PageInv, [Next]_vars
    PROVE  ClockHasReason'
<1> USE DEF PageInv, ClockHasReason
<1>1. CASE StareRecord
  <2>1. CASE Record
    BY <2>1 DEF Record
  <2>2. CASE recorder # "recording" /\ UNCHANGED <<recorder, take, timerVars>>
    <3>1. storeOn' /\ ended' = ended /\ ticking' = ticking
      BY <1>1, <2>2 DEF StareRecord, RecordButtons, timerVars
    <3>2. CASE recorder = "stopped"
      BY <2>2, <3>1, <3>2
    <3>3. CASE recorder # "stopped"
      BY <2>2, <3>1, <3>3 DEF TakeLocksPlayer
    <3> QED
      BY <3>2, <3>3
  <2>3. CASE PauseTimer
    BY <2>3 DEF PauseTimer
  <2> QED
    BY <1>1, <2>1, <2>2, <2>3 DEF StareRecord
<1>2. CASE StoreRecord
  BY <1>2 DEF StoreRecord, ResetTimer
<1>3. CASE Play
  BY <1>3 DEF Play, PauseTimer, timerVars, buttonVars
<1>4. CASE PlayerEnds
  BY <1>4 DEF PlayerEnds
<1>5. CASE DidFinishPlaying
  BY <1>5 DEF DidFinishPlaying, ResetTimer
<1>6. CASE UNCHANGED <<storeOn, playOn, recorder, player, ended, ticking>>
  BY <1>6
<1> QED
  BY <1>1, <1>2, <1>3, <1>4, <1>5, <1>6, PageStep

(* The page's invariant, from which the theorems below follow: the lock of *)
(* stareRecord and storeRecord on the player, and the clock's reason.       *)
THEOREM PageInvariant == Spec => []PageInv
<1>1. Init => PageInv
  BY DEF Init, MemoInit, PageInv, TakeLocksPlayer, ClockHasReason
<1>2. PageInv /\ [Next]_vars => PageInv'
  BY LockStep, ClockStep DEF PageInv
<1> QED
  BY <1>1, <1>2, PTL DEF Spec

(* However taps and delegate calls of the recording page interleave, the   *)
(* recorder never runs while the player plays.                             *)
THEOREM NeverOverItself == Spec => []NotOverItself
<1>1. PageInv => NotOverItself
  BY DEF PageInv, TakeLocksPlayer, NotOverItself
<1> QED
  BY <1>1, PageInvariant, PTL

(* The timer that pauseTimer and resetTimer can reach never runs without   *)
(* the reason ClockHasReason names.                                        *)
THEOREM ClockAlwaysHasReason == Spec => []ClockHasReason
<1>1. PageInv => ClockHasReason
  BY DEF PageInv
<1> QED
  BY <1>1, PageInvariant, PTL

(* Every step leaves the number of lost timers alone or overwrites a valid *)
(* one.                                                                    *)
LEMMA OrphanStep ==
    ASSUME [Next]_vars
    PROVE  \/ orphans' = orphans
           \/ orphans' = orphans + 1 /\ ticking /\ recorder # "recording"
           \/ orphans' = orphans + 1 /\ ticking /\ playOn
<1>1. CASE Memo
  <2>1. CASE StareRecord
    BY <2>1 DEF StareRecord, StartTimer, PauseTimer, timerVars
  <2>2. CASE Play
    BY <2>2 DEF Play, StartTimer, PauseTimer, timerVars
  <2>3. CASE StoreRecord \/ DidFinishPlaying
    BY <2>3 DEF StoreRecord, DidFinishPlaying, ResetTimer
  <2>4. CASE PlayerEnds \/ Tick
    BY <2>4 DEF PlayerEnds, Tick, timerVars
  <2> QED
    BY <1>1, <2>1, <2>2, <2>3, <2>4 DEF Memo, MemoStep
<1>2. CASE ~ Memo
  BY <1>2 DEF Next, TakeFinished, DidFinishRecording, PickImage, ImageSent, ImageLinked,
              AudioSent, AudioLinked, Post, Posted, vars, memoVars, timerVars
<1> QED
  BY <1>1, <1>2

(* Timers are left behind only by taps around playback, never by           *)
(* recording, pausing and resuming alone.                                  *)
THEOREM OrphansOnlyFromPlayback == Spec => OrphansFromPlayback
<1>1. Spec => [](orphans \in Nat)
  <2>1. Init => orphans \in Nat
    <3>1. Init => orphans = 0
      BY DEF Init, MemoInit
    <3> QED
      BY <3>1
  <2>2. orphans \in Nat /\ [Next]_vars => (orphans \in Nat)'
    BY OrphanStep
  <2> QED
    BY <2>1, <2>2, PTL DEF Spec
<1>2. ASSUME PageInv, orphans \in Nat, [Next]_vars
      PROVE  [orphans' > orphans => \/ player = "playing"
                                    \/ ended
                                    \/ storeOn /\ recorder = "stopped"]_memoVars
  <2> SUFFICES ASSUME orphans' > orphans
               PROVE  \/ player = "playing"
                      \/ ended
                      \/ storeOn /\ recorder = "stopped"
    OBVIOUS
  <2>1. ticking /\ (recorder # "recording" \/ playOn)
    BY <1>2, OrphanStep
  <2> QED
    BY <1>2, <2>1 DEF PageInv, TakeLocksPlayer, ClockHasReason
<1> QED
  BY <1>1, <1>2, PageInvariant, PTL DEF Spec, OrphansFromPlayback

-----------------------------------------------------------------------------
(***************************************************************************)
(* What is posted, and what the page says of it.                           *)
(***************************************************************************)
USE AudioMemoAssumption, MediaPostAssumption

(* Every take is being recorded, waits for its delegate call, is uploaded, *)
(* waits for its link, or is through: the counters stay within the takes.  *)
TakesAccounted ==
    (IF recorder = "stopped" THEN 0 ELSE 1) + finished + sending + asking <= take

(* A link the page holds, or is about to be given, resolves.               *)
HeldLinksResolve ==
    /\ imageURL \in images \cup {NoImage}
    /\ \A i \in Images : upload[i] = "asking" => i \in images
    /\ recordingURL \/ asking > 0 => voice

HonestInv == PostsHonest /\ TakesAccounted /\ HeldLinksResolve

\* The counters of the recording part, and its flags and engines.
MemoCounts == /\ take \in 0 .. MaxTakes /\ finished \in 0 .. MaxTakes
              /\ orphans \in 0 .. MaxOrphans /\ elapsed \in 0 .. MaxSeconds
MemoFlags == /\ storeOn \in BOOLEAN /\ playOn \in BOOLEAN
             /\ recorder \in {"stopped", "recording", "paused"}
             /\ player \in {"none", "idle", "playing"}
             /\ ended \in BOOLEAN /\ ticking \in BOOLEAN

(* Its flags after one of its steps.                                       *)
LEMMA MemoFlagStep == ASSUME MemoFlags, MemoStep PROVE MemoFlags'
<1> USE DEF MemoFlags
<1>1. CASE StareRecord
  BY <1>1 DEF StareRecord, Record, StartTimer, PauseTimer, RecordButtons, timerVars
<1>2. CASE StoreRecord
  BY <1>2 DEF StoreRecord, StopRecorder, ResetTimer
<1>3. CASE Play
  BY <1>3 DEF Play, PauseTimer, StartTimer, timerVars, buttonVars
<1>4. CASE PlayerEnds \/ DidFinishPlaying \/ Tick
  BY <1>4 DEF PlayerEnds, DidFinishPlaying, Tick, ResetTimer, timerVars, buttonVars
<1> QED
  BY <1>1, <1>2, <1>3, <1>4 DEF MemoStep

(* Its counters after one of its steps: only a start from a stopped        *)
(* recorder begins a take, and only storeRecord hands one on.              *)
LEMMA MemoCountStep ==
    ASSUME MemoCounts, sending \in Nat, asking \in Nat, TakesAccounted, MemoStep,
           UNCHANGED <<sending, asking>>
    PROVE  MemoCounts' /\ TakesAccounted'
<1> USE DEF MemoCounts, TakesAccounted
<1>1. CASE StareRecord
  <2>1. finished' = finished
    BY <1>1 DEF StareRecord
  <2>2. CASE recorder # "recording" /\ UNCHANGED <<recorder, take, timerVars>>
    BY <2>1, <2>2 DEF timerVars
  <2>3. CASE recorder = "recording" /\ recorder' = "paused" /\ PauseTimer /\ UNCHANGED take
    BY <2>1, <2>3 DEF PauseTimer
  <2>4. CASE /\ recorder # "recording" /\ (recorder = "stopped" => take < MaxTakes)
             /\ (ticking => orphans < MaxOrphans) /\ Record /\ StartTimer
    BY <2>1, <2>4 DEF Record, StartTimer
  <2> QED
    BY <1>1, <2>2, <2>3, <2>4 DEF StareRecord
<1>2. CASE StoreRecord
  BY <1>2 DEF StoreRecord, StopRecorder, ResetTimer
<1>3. CASE Play
  BY <1>3 DEF Play, PauseTimer, StartTimer, timerVars
<1>4. CASE PlayerEnds \/ DidFinishPlaying
  BY <1>4 DEF PlayerEnds, DidFinishPlaying, ResetTimer, timerVars
<1>5. CASE Tick
  BY <1>5 DEF Tick
<1> QED
  BY <1>1, <1>2, <1>3, <1>4, <1>5 DEF MemoStep

(* The state of the recording part is well typed after its own steps.      *)
LEMMA MemoTypes ==
    ASSUME TypeOK, TakesAccounted, MemoStep, UNCHANGED <<sending, asking>>
    PROVE  MemoTypeOK' /\ TakesAccounted'
<1>1. MemoCounts /\ MemoFlags
  BY DEF TypeOK, MemoTypeOK, MemoCounts, MemoFlags
<1>2. sending \in 0 .. MaxTakes /\ asking \in 0 .. MaxTakes
  BY DEF TypeOK
<1>3. MemoCounts' /\ TakesAccounted'
  BY <1>1, <1>2, MemoCountStep
<1>4. MemoFlags'
  BY <1>1, MemoFlagStep
<1> QED
  BY <1>3, <1>4 DEF MemoTypeOK, MemoCounts, MemoFlags

(* What was written keeps resolving while Storage only grows.              *)
LEMMA WrittenResolves ==
    ASSUME LinksResolve, images \subseteq images', voice => voice', UNCHANGED docVars
    PROVE  LinksResolve'
BY DEF LinksResolve, Written, docVars

(* Every step keeps the invariant.                                         *)
LEMMA NextHonest == HonestInv /\ [Next]_vars => HonestInv'
<1> SUFFICES ASSUME HonestInv, [Next]_vars PROVE HonestInv'
  OBVIOUS
<1>0. /\ TypeOK /\ LinksResolve /\ LabelHonest /\ TakesAccounted /\ HeldLinksResolve
  BY DEF HonestInv, PostsHonest
<1> SUFFICES TypeOK' /\ LinksResolve' /\ LabelHonest' /\ TakesAccounted' /\ HeldLinksResolve'
  BY DEF HonestInv, PostsHonest
<1>m. UNCHANGED memoVars => UNCHANGED <<recorder, take, finished>> /\ (MemoTypeOK => MemoTypeOK')
  BY DEF memoVars, buttonVars, timerVars, MemoTypeOK
<1>n. finished \in Nat /\ take \in 0 .. MaxTakes /\ sending \in Nat /\ asking \in Nat
  <2>1. \A n \in 0 .. MaxTakes : n \in Nat
    OBVIOUS
  <2>2. /\ finished \in 0 .. MaxTakes /\ take \in 0 .. MaxTakes
        /\ sending \in 0 .. MaxTakes /\ asking \in 0 .. MaxTakes
    BY <1>0 DEF TypeOK, MemoTypeOK
  <2> QED
    BY <2>1, <2>2
<1>1. CASE Memo
  <2>1. MemoTypeOK' /\ TakesAccounted'
    BY <1>0, <1>1, MemoTypes DEF Memo, voiceVars
  <2> QED
    BY <1>0, <1>1, <2>1, WrittenResolves
    DEF Memo, TypeOK, LabelHonest, HeldLinksResolve, imageVars, voiceVars, docVars
<1>2. ASSUME NEW i \in Images, PickImage(i) PROVE HonestInv'
  <2>1. TypeOK' /\ TakesAccounted'
    BY <1>0, <1>m, <1>2 DEF PickImage, TypeOK, TakesAccounted, voiceVars, docVars
  <2>2. LabelHonest' /\ HeldLinksResolve'
    BY <1>0, <1>2 DEF PickImage, TypeOK, LabelHonest, HeldLinksResolve, voiceVars, docVars
  <2> QED
    BY <1>0, <1>2, <2>1, <2>2, WrittenResolves
    DEF PickImage, voiceVars, HonestInv, PostsHonest
<1>3. ASSUME NEW i \in Images, ImageSent(i) PROVE HonestInv'
  <2>1. TypeOK' /\ TakesAccounted'
    BY <1>0, <1>m, <1>3 DEF ImageSent, Sent, TypeOK, TakesAccounted, voiceVars, docVars
  <2>2. LabelHonest' /\ HeldLinksResolve'
    BY <1>0, <1>3
    DEF ImageSent, Sent, TypeOK, LabelHonest, HeldLinksResolve, voiceVars, docVars
  <2> QED
    BY <1>0, <1>3, <2>1, <2>2, WrittenResolves
    DEF ImageSent, Sent, voiceVars, HonestInv, PostsHonest
<1>4. ASSUME NEW i \in Images, ImageLinked(i) PROVE HonestInv'
  <2>1. TypeOK' /\ TakesAccounted'
    BY <1>0, <1>m, <1>4 DEF ImageLinked, TypeOK, TakesAccounted, voiceVars, docVars
  <2>2. LabelHonest' /\ HeldLinksResolve'
    BY <1>0, <1>4
    DEF ImageLinked, TypeOK, LabelHonest, HeldLinksResolve, voiceVars, docVars
  <2> QED
    BY <1>0, <1>4, <2>1, <2>2, WrittenResolves
    DEF ImageLinked, voiceVars, HonestInv, PostsHonest
<1>5. CASE TakeFinished
  <2>1. /\ finished' = finished - 1 /\ finished > 0 /\ UNCHANGED <<recorder, take, asking>>
        /\ sending' = sending + 1 \/ sending' = sending
        /\ failed' \in BOOLEAN /\ UNCHANGED recordingURL
    BY <1>0, <1>5
    DEF TakeFinished, DidFinishRecording, UploadAudio, TypeOK
  <2>2. MemoTypeOK'
    <3>1. finished' \in 0 .. MaxTakes
      BY <1>0, <1>n, <2>1 DEF TakesAccounted
    <3>2. UNCHANGED <<storeOn, playOn, recorder, take, player, ended, ticking, orphans, elapsed>>
      BY <1>5 DEF TakeFinished, DidFinishRecording, buttonVars, timerVars
    <3> QED
      BY <1>0, <3>1, <3>2 DEF TypeOK, MemoTypeOK
  <2>4. TakesAccounted' /\ sending' \in 0 .. MaxTakes
    BY <1>0, <1>n, <2>1 DEF TakesAccounted
  <2>5. UNCHANGED <<page, imageVars, asking, voice, label, docVars>>
    BY <1>5 DEF TakeFinished
  <2>6. TypeOK'
    BY <1>0, <2>1, <2>2, <2>4, <2>5 DEF TypeOK, imageVars, docVars
  <2>7. LinksResolve'
    BY <1>0, <2>5, WrittenResolves DEF imageVars
  <2>8. LabelHonest' /\ HeldLinksResolve'
    BY <1>0, <2>1, <2>5 DEF LabelHonest, HeldLinksResolve, imageVars, docVars
  <2> QED
    BY <2>4, <2>6, <2>7, <2>8
<1>6. CASE AudioSent
  <2>1. MemoTypeOK' /\ UNCHANGED <<recorder, take, finished>>
    BY <1>0, <1>6, <1>m DEF AudioSent, TypeOK
  <2>3. TakesAccounted' /\ sending' \in 0 .. MaxTakes /\ asking' \in 0 .. MaxTakes
    BY <1>0, <1>6, <1>n, <2>1 DEF TakesAccounted, AudioSent
  <2>4. TypeOK'
    BY <1>0, <1>6, <2>1, <2>3 DEF TypeOK, AudioSent, imageVars, docVars
  <2>5. LinksResolve'
    BY <1>0, <1>6, WrittenResolves DEF AudioSent, imageVars
  <2>6. LabelHonest' /\ HeldLinksResolve'
    BY <1>0, <1>6 DEF AudioSent, LabelHonest, HeldLinksResolve, imageVars, docVars
  <2> QED
    BY <2>3, <2>4, <2>5, <2>6
<1>7. CASE AudioLinked
  <2>1. MemoTypeOK' /\ UNCHANGED <<recorder, take, finished>>
    BY <1>0, <1>7, <1>m DEF AudioLinked, TypeOK
  <2>3. TakesAccounted' /\ asking' \in 0 .. MaxTakes
    BY <1>0, <1>7, <1>n, <2>1 DEF TakesAccounted, AudioLinked
  <2>4. TypeOK'
    BY <1>0, <1>7, <2>1, <2>3 DEF TypeOK, AudioLinked, imageVars, docVars
  <2>5. LinksResolve'
    BY <1>0, <1>7, WrittenResolves DEF AudioLinked, imageVars
  <2>6. LabelHonest' /\ HeldLinksResolve'
    BY <1>0, <1>7, <1>n DEF AudioLinked, LabelHonest, HeldLinksResolve, imageVars, docVars
  <2> QED
    BY <2>3, <2>4, <2>5, <2>6
<1>8. CASE Post
  <2> DEFINE d == [image |-> imageURL, voice |-> recordingURL]
  <2>1. d \in Doc /\ outbox \in Seq(Doc) /\ outbox' = Append(outbox, d)
    BY <1>0, <1>8 DEF Post, TypeOK, Doc
  <2>2. outbox' \in Seq(Doc) /\ Written' \subseteq Written \cup {d}
    BY <1>8, <2>1 DEF Post, Written
  <2>3. TypeOK' /\ TakesAccounted'
    BY <1>0, <1>8, <1>m, <2>2 DEF Post, TypeOK, TakesAccounted, imageVars, voiceVars
  <2>4. LinksResolve'
    BY <1>0, <1>8, <2>2 DEF Post, LinksResolve, HeldLinksResolve, imageVars, voiceVars
  <2>5. LabelHonest' /\ HeldLinksResolve'
    BY <1>0, <1>8 DEF Post, LabelHonest, HeldLinksResolve, imageVars, voiceVars
  <2> QED
    BY <2>3, <2>4, <2>5
<1>9. CASE Posted
  <2>1. outbox \in Seq(Doc) /\ outbox # <<>>
    BY <1>0, <1>9 DEF Posted, TypeOK
  <2>2. /\ Head(outbox) \in Doc /\ Head(outbox) = outbox[1] /\ 1 \in DOMAIN outbox
        /\ Tail(outbox) \in Seq(Doc) /\ DOMAIN Tail(outbox) = 1..(Len(outbox) - 1)
        /\ DOMAIN outbox = 1..Len(outbox) /\ Len(outbox) \in Nat
        /\ \A k \in 1..(Len(outbox) - 1) : Tail(outbox)[k] = outbox[k + 1]
    BY <2>1
  <2>3. Written' \subseteq Written
    BY <1>9, <2>2 DEF Posted, Written
  <2>4. TypeOK' /\ TakesAccounted'
    BY <1>0, <1>9, <1>m, <2>2 DEF Posted, TypeOK, TakesAccounted, imageVars, voiceVars
  <2>5. LinksResolve'
    BY <1>0, <1>9, <2>3 DEF Posted, LinksResolve, imageVars, voiceVars
  <2>6. LabelHonest' /\ HeldLinksResolve'
    BY <1>0, <1>9 DEF Posted, LabelHonest, HeldLinksResolve, imageVars, voiceVars
  <2> QED
    BY <2>4, <2>5, <2>6
<1>10. CASE UNCHANGED vars
  <2>1. UNCHANGED memoVars /\ UNCHANGED <<page, imageVars, voiceVars, label, docVars>>
    BY <1>10 DEF vars
  <2> QED
    BY <1>0, <1>m, <2>1, WrittenResolves
    DEF TypeOK, TakesAccounted, LabelHonest, HeldLinksResolve,
        imageVars, voiceVars, docVars
<1> QED
  BY <1>1, <1>2, <1>3, <1>4, <1>5, <1>6, <1>7, <1>8, <1>9, <1>10
  DEF Next, HonestInv, PostsHonest

(* However uploads, links and posts overlap, every posted link resolves,   *)
(* and the page says only what is so.                                      *)
THEOREM PostsStayHonest == Spec => []PostsHonest
<1>1. Init => HonestInv
  <2> SUFFICES ASSUME Init PROVE HonestInv
    OBVIOUS
  <2>1. /\ take = 0 /\ finished = 0 /\ orphans = 0 /\ elapsed = 0
        /\ sending = 0 /\ asking = 0
    BY DEF Init, MemoInit
  <2>2. /\ upload = [i \in Images |-> "none"] /\ images = {} /\ imageURL = NoImage
        /\ label = "" /\ ~ recordingURL /\ docs = {}
    BY DEF Init
  <2>3. recorder = "stopped"
    BY DEF Init, MemoInit
  <2>4. outbox = <<>> /\ page \in Pages
    BY DEF Init
  <2>5. /\ MemoCounts /\ TakesAccounted
        /\ sending \in 0 .. MaxTakes /\ asking \in 0 .. MaxTakes
    BY <2>1, <2>3 DEF MemoCounts, TakesAccounted
  <2>6. MemoFlags /\ voice \in BOOLEAN /\ failed \in BOOLEAN /\ recordingURL \in BOOLEAN
    BY DEF Init, MemoInit, MemoFlags
  <2>7. outbox \in Seq(Doc) /\ DOMAIN outbox = {}
    BY <2>4
  <2>8. TypeOK
    BY <2>2, <2>4, <2>5, <2>6, <2>7 DEF TypeOK, MemoTypeOK, MemoCounts, MemoFlags
  <2>9. LinksResolve /\ LabelHonest
    BY <2>2, <2>7 DEF LinksResolve, LabelHonest, Written
  <2>10. HeldLinksResolve
    <3>1. ~ (asking > 0)
      BY <2>1
    <3>2. \A i \in Images : upload[i] # "asking"
      BY <2>2
    <3> QED
      BY <2>2, <3>1, <3>2 DEF HeldLinksResolve
  <2> QED
    BY <2>5, <2>8, <2>9, <2>10 DEF HonestInv, PostsHonest
<1>2. HonestInv => PostsHonest
  BY DEF HonestInv
<1> QED
  BY <1>1, <1>2, NextHonest, PTL DEF Spec
=============================================================================
