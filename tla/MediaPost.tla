------------------------------ MODULE MediaPost ------------------------------
(***************************************************************************)
(* A page on which the user posts a task, a reply or a memory with an      *)
(* image and, but for memories, a recording.  Images and recordings are    *)
(* uploaded in the background; when an upload is through, the page asks    *)
(* for its download URL, and when that is there it keeps it in a field the *)
(* post button reads.  Images get a fresh name in Storage each, recordings *)
(* one name per user (tasks) or one for everybody (replies).               *)
(*                                                                         *)
(* There is a userId: the tab bar lets nobody else through.  A document is *)
(* reduced to its links, a recording to being there or not.                *)
(***************************************************************************)
EXTENDS AudioMemo, Sequences

CONSTANTS Images,     \* the images the user may pick, each once
          MaxPosts,   \* bound: posts not yet at the server
          NoImage

ASSUME MediaPostAssumption ==
    /\ NoImage \notin Images
    /\ MaxPosts \in Nat

VARIABLES
    page,          \* which of the three pages this is
    upload,        \* per image: how far its upload is
    images,        \* Storage: the images
    sending,       \* uploads of the recording on their way
    asking,        \* requests for its download URL on their way
    voice,         \* Storage: something is under the recording's name
    failed,        \* a recording, its upload or its URL failed
    imageURL,      \* imageURL of the page
    recordingURL,  \* recordingURL of the page is set
    label,         \* the text beside the image button
    outbox,        \* issued setData calls
    docs           \* Firestore: the documents posted from here

imageVars == <<upload, images, imageURL>>
voiceVars == <<sending, asking, voice, failed, recordingURL>>
docVars == <<outbox, docs>>
vars == <<memoVars, page, imageVars, voiceVars, label, docVars>>

Pages == {"task", "reply", "memory"}

Doc == [image : Images \cup {NoImage}, voice : BOOLEAN]

Init == /\ MemoInit
        /\ page \in Pages
        /\ upload = [i \in Images |-> "none"] /\ images = {}
        /\ sending = 0 /\ asking = 0 /\ failed = FALSE
        /\ voice = FALSE
        /\ imageURL = NoImage /\ recordingURL = FALSE
        /\ label = ""
        /\ outbox = <<>> /\ docs = {}

-----------------------------------------------------------------------------
(* The image.                                                              *)

(* didFinishPickingMediaWithInfo and putData. *)
PickImage(i) ==
    /\ upload[i] = "none"
    /\ upload' = [upload EXCEPT ![i] = "sending"]
    /\ UNCHANGED <<memoVars, page, images, imageURL, voiceVars, label, docVars>>

(* The image is in Storage: ask for its URL. *)
Sent(i) ==
    /\ upload' = [upload EXCEPT ![i] = "asking"]
    /\ images' = images \cup {i}
    /\ UNCHANGED label

(* putData's callback, after the upload or its failure. *)
ImageSent(i) ==
    /\ upload[i] = "sending"
    /\ \/ Sent(i)
       \/ /\ upload' = [upload EXCEPT ![i] = "over"]
          /\ UNCHANGED <<images, label>>
    /\ UNCHANGED <<memoVars, page, imageURL, voiceVars, docVars>>

(* downloadURL's callback; the page for memories has no text for it. *)
ImageLinked(i) ==
    /\ upload[i] = "asking"
    /\ upload' = [upload EXCEPT ![i] = "over"]
    /\ \/ /\ imageURL' = i
          /\ label' = IF page = "memory" THEN label ELSE "added"
       \/ UNCHANGED <<imageURL, label>>
    /\ UNCHANGED <<memoVars, page, images, voiceVars, docVars>>

-----------------------------------------------------------------------------
(* The recording.                                                          *)

UploadForgotten == UNCHANGED <<sending, recordingURL>>

UploadLinked == sending' = sending + 1 /\ recordingURL' = TRUE

(* uploadAudioToFirebase. *)
UploadAudio == sending' = sending + 1 /\ UNCHANGED recordingURL

(* audioRecorderDidFinishRecording: the upload, if the take is good. *)
TakeFinished ==
    /\ DidFinishRecording
    /\ \/ UploadAudio /\ UNCHANGED failed
       \/ failed' = TRUE /\ UNCHANGED <<sending, recordingURL>>
    /\ UNCHANGED <<page, imageVars, asking, voice, label, docVars>>

(* putFile's callback. *)
AudioSent ==
    /\ sending > 0
    /\ sending' = sending - 1
    /\ \/ voice' = TRUE /\ asking' = asking + 1 /\ UNCHANGED failed
       \/ failed' = TRUE /\ UNCHANGED <<voice, asking>>
    /\ UNCHANGED <<memoVars, page, imageVars, recordingURL, label, docVars>>

(* downloadURL's callback. *)
AudioLinked ==
    /\ asking > 0
    /\ asking' = asking - 1
    /\ \/ recordingURL' = TRUE /\ UNCHANGED failed
       \/ failed' = TRUE /\ UNCHANGED recordingURL
    /\ UNCHANGED <<memoVars, page, imageVars, sending, voice, label, docVars>>

-----------------------------------------------------------------------------
(* Posting.                                                                *)

(* postTask, replyTask, postMemory with title and content: the links the   *)
(* page has by now, which also stay for the next post.                     *)
Post ==
    /\ Len(outbox) < MaxPosts
    /\ outbox' = Append(outbox, [image |-> imageURL, voice |-> recordingURL])
    /\ UNCHANGED <<memoVars, page, imageVars, voiceVars, label, docs>>

(* The document is at the server; two pages say so. *)
Posted ==
    /\ outbox # <<>>
    /\ docs' = docs \cup {Head(outbox)}
    /\ outbox' = Tail(outbox)
    /\ label' = IF page = "reply" THEN label ELSE "posted"
    /\ UNCHANGED <<memoVars, page, imageVars, voiceVars>>

Memo ==
    /\ page # "memory"
    /\ MemoStep
    /\ UNCHANGED <<page, imageVars, voiceVars, label, docVars>>

Next == \/ Memo
        \/ \E i \in Images : PickImage(i) \/ ImageSent(i) \/ ImageLinked(i)
        \/ TakeFinished
        \/ AudioSent
        \/ AudioLinked
        \/ Post
        \/ Posted

(* The recorder calls its delegate; an upload and a request for a URL end, *)
(* if only because their retries run out.                                  *)
Fairness == WF_vars(TakeFinished) /\ WF_vars(AudioSent) /\ WF_vars(AudioLinked)

Spec == Init /\ [][Next]_vars /\ Fairness

-----------------------------------------------------------------------------
TypeOK == /\ MemoTypeOK
          /\ page \in Pages
          /\ upload \in [Images -> {"none", "sending", "asking", "over"}]
          /\ images \subseteq Images
          /\ sending \in 0 .. MaxTakes /\ asking \in 0 .. MaxTakes
          /\ voice \in BOOLEAN /\ failed \in BOOLEAN
          /\ imageURL \in Images \cup {NoImage}
          /\ recordingURL \in BOOLEAN
          /\ label \in {"", "added", "posted"}
          /\ outbox \in Seq(Doc)
          /\ docs \subseteq Doc

(* Everything written to Firestore or waiting to be.                       *)
Written == docs \cup {outbox[k] : k \in DOMAIN outbox}

(* However uploads and posts overlap, no posted document links to an image *)
(* or a recording that is not in Storage.                                  *)
LinksResolve ==
    \A d \in Written : /\ d.image \in images \cup {NoImage}
                       /\ d.voice => voice

(* The page tells the user that the image was added only when a post would *)
(* carry one, and that something was posted only when it is at the server. *)
LabelHonest == /\ label = "added" => imageURL # NoImage
               /\ label = "posted" => docs # {}

(* What the page wrote and what it says, in well-typed state.              *)
PostsHonest == TypeOK /\ LinksResolve /\ LabelHonest

(* A stored take ends up as a link the next post carries, unless recording *)
(* or uploading failed.                                                    *)
StoredTakeGetsLink == finished > 0 ~> (recordingURL \/ failed)
=============================================================================
