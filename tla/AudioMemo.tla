------------------------------ MODULE AudioMemo ------------------------------
(***************************************************************************)
(* The recording part of the pages PostTask and ReplyTask, the same code   *)
(* in both: three buttons, one AVAudioRecorder that writes one file, one   *)
(* AVAudioPlayer made when it is first needed, and a label that counts     *)
(* seconds.  Everything runs on the main thread; the two engines report    *)
(* their end later, through delegates.                                     *)
(*                                                                         *)
(* Assumed of AVFoundation: configure gets its recorder; record() and      *)
(* play(), whose results the code does not look at, succeed; no call or    *)
(* alarm of the system interrupts either engine.                           *)
(***************************************************************************)
EXTENDS Naturals

CONSTANTS MaxTakes,     \* bound: recordings started from a stopped recorder
          MaxOrphans,   \* bound: timers that nobody can stop
          MaxSeconds    \* bound: what the label counts up to

ASSUME AudioMemoAssumption ==
    MaxTakes \in Nat /\ MaxOrphans \in Nat /\ MaxSeconds \in Nat

VARIABLES
    storeOn, playOn,  \* storeButton.isEnabled, playButton.isEnabled
    recorder,         \* what audioRecorder does
    take,             \* number of the take in the file, 0 for none
    finished,         \* takes stopped, their delegate call to come
    player,           \* what audioPlayer does, "none" while it is nil
    ended,            \* the player reached the end, its delegate call to come
    ticking,          \* the timer the page holds is valid
    orphans,          \* valid timers the page does not hold any more
    elapsed           \* elapsedTimeInSecond

buttonVars == <<storeOn, playOn>>
timerVars == <<ticking, orphans, elapsed>>
memoVars == <<buttonVars, recorder, take, finished, player, ended, timerVars>>

(* configure: both buttons off, the recorder prepared. *)
MemoInit == /\ storeOn = FALSE /\ playOn = FALSE
            /\ recorder = "stopped" /\ take = 0 /\ finished = 0
            /\ player = "none" /\ ended = FALSE
            /\ ticking = FALSE /\ orphans = 0 /\ elapsed = 0

-----------------------------------------------------------------------------
(* The timer.                                                              *)

(* startTimer assigns a new timer; the old one, if valid, stays scheduled. *)
StartTimer ==
    /\ orphans' = IF ticking THEN orphans + 1 ELSE orphans
    /\ ticking' = TRUE
    /\ UNCHANGED elapsed

KeepTicking == UNCHANGED timerVars

PauseTimer == ticking' = FALSE /\ UNCHANGED <<orphans, elapsed>>

ZeroOnly == elapsed' = 0 /\ UNCHANGED <<ticking, orphans>>

ResetTimer == ticking' = FALSE /\ elapsed' = 0 /\ UNCHANGED orphans

(* The block of a valid timer. *)
Tick ==
    /\ ticking \/ orphans > 0
    /\ elapsed < MaxSeconds
    /\ elapsed' = elapsed + 1
    /\ UNCHANGED <<buttonVars, recorder, take, finished, player, ended, ticking, orphans>>

-----------------------------------------------------------------------------
(* The buttons.                                                            *)

(* audioRecorder.record(): a stopped recorder writes the file anew. *)
Record ==
    /\ recorder' = "recording"
    /\ take' = IF recorder = "stopped" THEN take + 1 ELSE take

RecordButtonsBoth == storeOn' = TRUE /\ playOn' = TRUE

RecordButtons == storeOn' = TRUE /\ playOn' = FALSE

(* stareRecord: a player that plays is stopped, its delegate not called.   *)
(* Then the recorder starts or resumes, unless the audio session cannot be *)
(* activated, or it pauses; the buttons change in all three cases.         *)
StareRecord ==
    /\ player' = IF player = "playing" THEN "idle" ELSE player
    /\ \/ /\ recorder # "recording"
          /\ recorder = "stopped" => take < MaxTakes
          /\ ticking => orphans < MaxOrphans
          /\ Record
          /\ StartTimer
       \/ /\ recorder # "recording"
          /\ UNCHANGED <<recorder, take, timerVars>>
       \/ /\ recorder = "recording"
          /\ recorder' = "paused"
          /\ PauseTimer
          /\ UNCHANGED take
    /\ RecordButtons
    /\ UNCHANGED <<finished, ended>>

(* audioRecorder.stop(): the delegate hears of a take that was begun. *)
StopRecorder ==
    /\ recorder' = "stopped"
    /\ finished' = IF recorder = "stopped" THEN finished ELSE finished + 1

(* storeRecord. *)
StoreRecord ==
    /\ storeOn
    /\ storeOn' = FALSE /\ playOn' = TRUE
    /\ StopRecorder
    /\ ResetTimer
    /\ UNCHANGED <<take, player, ended>>

(* play: pause, go on, or make the player first, which may fail.  Once     *)
(* made the player is kept, also when the file has a new take.             *)
Play ==
    /\ playOn
    /\ \/ /\ player = "playing"
          /\ player' = "idle"
          /\ PauseTimer
       \/ /\ player # "playing"
          /\ ticking => orphans < MaxOrphans
          /\ player' = "playing"
          /\ StartTimer
       \/ /\ player = "none"
          /\ UNCHANGED <<player, timerVars>>
    /\ UNCHANGED <<buttonVars, recorder, take, finished, ended>>

-----------------------------------------------------------------------------
(* The engines.                                                            *)

(* The sound is over.  Its delegate call is made before the next sound can *)
(* be over.                                                                *)
PlayerEnds ==
    /\ player = "playing"
    /\ ~ ended
    /\ player' = "idle"
    /\ ended' = TRUE
    /\ UNCHANGED <<buttonVars, recorder, take, finished, timerVars>>

(* audioPlayerDidFinishPlaying. *)
DidFinishPlaying ==
    /\ ended
    /\ ended' = FALSE
    /\ ResetTimer
    /\ UNCHANGED <<buttonVars, recorder, take, finished, player>>

(* audioRecorderDidFinishRecording, but for the upload it starts. *)
DidFinishRecording ==
    /\ finished > 0
    /\ finished' = finished - 1
    /\ UNCHANGED <<buttonVars, recorder, take, player, ended, timerVars>>

MemoStep == \/ StareRecord
            \/ StoreRecord
            \/ Play
            \/ PlayerEnds
            \/ DidFinishPlaying
            \/ Tick

-----------------------------------------------------------------------------
MemoTypeOK == /\ storeOn \in BOOLEAN /\ playOn \in BOOLEAN
              /\ recorder \in {"stopped", "recording", "paused"}
              /\ take \in 0 .. MaxTakes
              /\ finished \in 0 .. MaxTakes
              /\ player \in {"none", "idle", "playing"}
              /\ ended \in BOOLEAN
              /\ ticking \in BOOLEAN
              /\ orphans \in 0 .. MaxOrphans
              /\ elapsed \in 0 .. MaxSeconds

(* The microphone never records the page's own player: stareRecord stops   *)
(* the player, and play is disabled from there to storeRecord.             *)
NotOverItself == ~ (recorder = "recording" /\ player = "playing")

(* The timer the page can stop runs only while the page records or plays,  *)
(* until the delegate hears that the sound is over, or after a recording   *)
(* that could not begin (stareRecord stopped the player, not its timer).   *)
(* The timers startTimer left behind are counted by orphans.               *)
ClockHasReason ==
    ticking => \/ recorder = "recording"
               \/ player = "playing"
               \/ ended
               \/ storeOn /\ recorder = "stopped"

(* A timer is left behind only by a tap made while the player plays, or    *)
(* has ended and not told yet, or after a recording that could not begin:  *)
(* recording, pausing and resuming alone never leave one behind.           *)
OrphansFromPlayback ==
    [][orphans' > orphans => \/ player = "playing"
                             \/ ended
                             \/ storeOn /\ recorder = "stopped"]_memoVars
=============================================================================
