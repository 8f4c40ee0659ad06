----------------------------- MODULE ImagePreview -----------------------------
(***************************************************************************)
(* The picture of the last track on the control page.  The dump thread     *)
(* names each finished track in file_to_analyse, the script thread names   *)
(* it again when the page changes a setting (script.c), the image thread   *)
(* draws it and writes /tmp/analysis.png, which the image connection       *)
(* sends whenever a page asks (websocket.c, pauline.js).  script_mutex     *)
(* guards the name.                                                        *)
(*                                                                         *)
(* A track is known by its number, the file of a track by the track.  The  *)
(* scale of the picture is a version number, its decoders a set.           *)
(***************************************************************************)
EXTENDS Integers, FiniteSets

CONSTANTS
  Tracks,    \* number of tracks dumped
  Blank,     \* those of them whose file holds no whole chunk
  Boxes,     \* the decoder boxes of the page that are clicked
  Removable, \* tracks whose file may be removed
  Pages,     \* the times a control page is opened
  Leaving,   \* those of them that it is closed again
  Viewer,    \* the one of them whose picture is looked at
  MaxViews,  \* bound: changes of scale
  MaxClicks  \* bound: clicks on boxes

ASSUME PreviewAssumption ==
  /\ Tracks \in Nat /\ Blank \subseteq 1 .. Tracks
  /\ Removable \subseteq 1 .. Tracks /\ Leaving \subseteq Pages
  /\ Viewer \in Pages
  /\ MaxViews \in Nat /\ MaxClicks \in Nat

VARIABLES
  lock,    \* holder of script_mutex: "dump", "script", "image" or "none"
  file,    \* file_to_analyse; 0 when empty
  last,    \* last_file_to_analyse
  removed, \* files no longer there
  dump,    \* where the dump thread is
  done,    \* tracks whose file it has closed
  script,  \* where the script thread is
  asked,   \* the words of the last decoders command, as the page sent them
  env,     \* the BMPEXPORT_ENABLE variables that are "1"
  view,    \* the preview_image_* settings
  checked, \* the boxes checked on the page
  clicks,
  img,     \* img_connection
  page,    \* where the image connection of each page is: "away", "opening",
           \* "open", "tested", "closing" or "gone"
  seen,    \* what its thread has loaded from img_connection
  image,   \* where the image thread is
  drawing, \* what it draws
  png,     \* what /tmp/analysis.png holds
  shown    \* what the page shows

previewVars == <<lock, file, last, removed, dump, done, script, asked, env,
                 view, checked, clicks, img, page, seen, image, drawing, png,
                 shown>>

linkVars  == <<img, page, seen>>
pageVars  == <<checked, clicks, linkVars, shown>>
dumpVars  == <<dump, done, removed>>
cmdVars   == <<script, asked, env, view>>
imageVars == <<image, drawing, png>>

NoPicture == [track |-> 0, decoders |-> {}, view |-> 0]
Torn      == [track |-> -1, decoders |-> {}, view |-> 0]

\* The variables each word of cmd_set_images_decoders switches.  The word
\* AED6200P is commented out.
Encodings(word) ==
  CASE word = "APPLE"    -> {"APPLEII_GCR1", "APPLEII_GCR2", "APPLEMAC_GCR"}
    [] word = "ARBURG"   -> {"ARBURGDAT", "ARBURGSYS"}
    [] word = "AED6200P" -> {}
    [] OTHER             -> {word}

\* ImageGeneratorThreadProc looks up every variable but three, and keeps one
\* analyzer off.
Unread == {"C64", "VICTOR9K", "QD_MO5"}
Activated(e) == (e \ Unread) \ {"AED6200P"}

\* The boxes of pauline.js whose click sends the words of all checked boxes.
HasHandler(box) == box \notin {"C64", "VICTOR9K", "QD_MO5"}

-----------------------------------------------------------------------------
(* The control page.  A thread of its own serves each image connection.   *)

\* onopen_img: img_connection++ is a load...
OpenPage(p) ==
  /\ page[p] = "away" /\ page' = [page EXCEPT ![p] = "opening"]
  /\ seen' = [seen EXCEPT ![p] = img]
  /\ UNCHANGED <<lock, file, last, checked, clicks, img, shown>>
  /\ UNCHANGED <<dumpVars, cmdVars, imageVars>>

\* ... and a store.
CountPage(p) ==
  /\ page[p] = "opening" /\ page' = [page EXCEPT ![p] = "open"]
  /\ img' = seen[p] + 1 /\ seen' = [seen EXCEPT ![p] = 0]
  /\ UNCHANGED <<lock, file, last, checked, clicks, shown>>
  /\ UNCHANGED <<dumpVars, cmdVars, imageVars>>

\* onclose_img: the test...
ClosePage(p) ==
  /\ p \in Leaving /\ page[p] = "open"
  /\ page' = [page EXCEPT ![p] = IF img > 0 THEN "tested" ELSE "gone"]
  /\ shown' = IF p = Viewer THEN NoPicture ELSE shown
  /\ UNCHANGED <<lock, file, last, checked, clicks, img, seen>>
  /\ UNCHANGED <<dumpVars, cmdVars, imageVars>>

\* ... img_connection-- is a load, the tested value or a later one...
LoadCount(p) ==
  /\ page[p] = "tested" /\ page' = [page EXCEPT ![p] = "closing"]
  /\ seen' = [seen EXCEPT ![p] = img]
  /\ UNCHANGED <<lock, file, last, checked, clicks, img, shown>>
  /\ UNCHANGED <<dumpVars, cmdVars, imageVars>>

\* ... and a store.
UncountPage(p) ==
  /\ page[p] = "closing" /\ page' = [page EXCEPT ![p] = "gone"]
  /\ img' = seen[p] - 1 /\ seen' = [seen EXCEPT ![p] = 0]
  /\ UNCHANGED <<lock, file, last, checked, clicks, shown>>
  /\ UNCHANGED <<dumpVars, cmdVars, imageVars>>

\* imageTimer and onmessage_img: the file as it is, unless it is empty.
AskPicture ==
  /\ page[Viewer] = "open" /\ png # NoPicture /\ shown' = png
  /\ UNCHANGED <<lock, file, last, checked, clicks, linkVars>>
  /\ UNCHANGED <<dumpVars, cmdVars, imageVars>>

\* updatedecoders: the page sends the words of its checked boxes.
Click(box) ==
  /\ clicks < MaxClicks /\ clicks' = clicks + 1 /\ script = "idle"
  /\ checked' = (checked \ {box}) \cup ({box} \ checked)
  /\ IF HasHandler(box)
     THEN asked' = checked' /\ script' = "decoders"
     ELSE UNCHANGED <<asked, script>>
  /\ UNCHANGED <<lock, file, last, env, view, linkVars, shown>>
  /\ UNCHANGED <<dumpVars, imageVars>>

\* updatepreviewsettings
MoveSlider ==
  /\ script = "idle" /\ view < MaxViews
  /\ script' = "settings"
  /\ UNCHANGED <<lock, file, last, asked, env, view>>
  /\ UNCHANGED <<pageVars, dumpVars, imageVars>>

-----------------------------------------------------------------------------
(* script_mutex                                                            *)

\* Mutation: the image thread keeps the mutex while it waits for a name.
Released_ByOwner(who) == IF lock = who /\ who # "image" THEN "none" ELSE lock

\* pthread_mutex_unlock on the default mutex of the C library: whoever calls
\* it, the mutex is free.
Released(who) == "none"

-----------------------------------------------------------------------------
(* The dump thread: end of readdisk's loop body                            *)

CloseTrack ==
  /\ dump = "run" /\ done < Tracks
  /\ done' = done + 1 /\ dump' = "want"
  /\ UNCHANGED <<lock, file, last, removed>>
  /\ UNCHANGED <<pageVars, cmdVars, imageVars>>

LockDump ==
  /\ dump = "want" /\ lock = "none"
  /\ lock' = "dump" /\ dump' = "file"
  /\ UNCHANGED <<file, last, removed, done>>
  /\ UNCHANGED <<pageVars, cmdVars, imageVars>>

NameTrack ==
  /\ dump = "file" /\ file' = done /\ dump' = "last"
  /\ UNCHANGED <<lock, last, removed, done>>
  /\ UNCHANGED <<pageVars, cmdVars, imageVars>>

NameLast ==
  /\ dump = "last" /\ last' = done /\ dump' = "unlock"
  /\ UNCHANGED <<lock, file, removed, done>>
  /\ UNCHANGED <<pageVars, cmdVars, imageVars>>

UnlockDump ==
  /\ dump = "unlock" /\ lock' = Released("dump") /\ dump' = "run"
  /\ UNCHANGED <<file, last, removed, done>>
  /\ UNCHANGED <<pageVars, cmdVars, imageVars>>

\* Environment: the file of a track that is to be drawn is removed.
RemoveFile(t) ==
  /\ t = file /\ t \notin removed /\ removed' = removed \cup {t}
  /\ UNCHANGED <<lock, file, last, dump, done>>
  /\ UNCHANGED <<pageVars, cmdVars, imageVars>>

-----------------------------------------------------------------------------
(* The script thread                                                       *)

LockScript ==
  /\ script \in {"decoders", "settings"} /\ lock = "none"
  /\ lock' = "script"
  /\ script' = IF script = "decoders" THEN "setDecoders" ELSE "setView"
  /\ UNCHANGED <<file, last, asked, env, view>>
  /\ UNCHANGED <<pageVars, dumpVars, imageVars>>

\* cmd_set_images_settings
SetImagesSettings ==
  /\ script = "setView" /\ view' = view + 1 /\ script' = "again"
  /\ UNCHANGED <<lock, file, last, asked, env>>
  /\ UNCHANGED <<pageVars, dumpVars, imageVars>>

\* cmd_set_images_decoders
SetImagesDecoders ==
  /\ script = "setDecoders" /\ env' = UNION {Encodings(w) : w \in asked}
  /\ script' = "again"
  /\ UNCHANGED <<lock, file, last, asked, view>>
  /\ UNCHANGED <<pageVars, dumpVars, imageVars>>

\* Mutation: the picture is not drawn again.
DrawAgain_Not ==
  /\ script = "again" /\ script' = "unlock"
  /\ UNCHANGED <<lock, file, last, asked, env, view>>
  /\ UNCHANGED <<pageVars, dumpVars, imageVars>>

\* strcpy(file_to_analyse, last_file_to_analyse)
DrawAgain ==
  /\ script = "again" /\ file' = last /\ script' = "unlock"
  /\ UNCHANGED <<lock, last, asked, env, view>>
  /\ UNCHANGED <<pageVars, dumpVars, imageVars>>

UnlockScript ==
  /\ script = "unlock" /\ lock' = Released("script") /\ script' = "idle"
  /\ UNCHANGED <<file, last, asked, env, view>>
  /\ UNCHANGED <<pageVars, dumpVars, imageVars>>

-----------------------------------------------------------------------------
(* The image thread: ImageGeneratorThreadProc                              *)

Top ==
  /\ image = "top" /\ image' = IF img # 0 THEN "lock" ELSE "else"
  /\ UNCHANGED <<lock, file, last, drawing, png>>
  /\ UNCHANGED <<pageVars, dumpVars, cmdVars>>

\* Nobody watches: it unlocks a mutex it has not locked.
UnlockUnheld ==
  /\ image = "else" /\ lock' = Released("image") /\ image' = "top"
  /\ UNCHANGED <<file, last, drawing, png>>
  /\ UNCHANGED <<pageVars, dumpVars, cmdVars>>

\* Mutation: the image thread does not wait for the mutex.
LockImage_NoWait ==
  /\ image = "lock" /\ lock' = "image" /\ image' = "look"
  /\ UNCHANGED <<file, last, drawing, png>>
  /\ UNCHANGED <<pageVars, dumpVars, cmdVars>>

LockImage ==
  /\ image = "lock" /\ lock = "none" /\ lock' = "image" /\ image' = "look"
  /\ UNCHANGED <<file, last, drawing, png>>
  /\ UNCHANGED <<pageVars, dumpVars, cmdVars>>

\* No track is named: it lets the mutex go for 20 ms.
NothingNamed ==
  /\ image = "look" /\ file = 0 /\ lock' = Released("image")
  /\ image' = "lock"
  /\ UNCHANGED <<file, last, drawing, png>>
  /\ UNCHANGED <<pageVars, dumpVars, cmdVars>>

OpenTrack ==
  /\ image = "look" /\ file # 0 /\ file \notin removed
  /\ drawing' = [NoPicture EXCEPT !.track = file] /\ file' = 0
  /\ lock' = Released("image") /\ image' = "draw"
  /\ UNCHANGED <<last, png>> /\ UNCHANGED <<pageVars, dumpVars, cmdVars>>

\* fopen fails: back to the top with the mutex locked.
OpenFails ==
  /\ image = "look" /\ file \in removed
  /\ image' = "top"
  /\ UNCHANGED <<lock, file, last, drawing, png>>
  /\ UNCHANGED <<pageVars, dumpVars, cmdVars>>

\* The file holds no chunk that can be read.
NoChunk ==
  /\ image = "draw" /\ drawing.track \in Blank
  /\ drawing' = NoPicture /\ image' = "top"
  /\ UNCHANGED <<lock, file, last, png>>
  /\ UNCHANGED <<pageVars, dumpVars, cmdVars>>

\* The whole file is decoded, with the settings as they are now; they are
\* read without the mutex.
Draw ==
  /\ image = "draw" /\ drawing.track \notin Blank
  /\ drawing' = [drawing EXCEPT !.decoders = Activated(env), !.view = view]
  /\ image' = "write"
  /\ UNCHANGED <<lock, file, last, png>>
  /\ UNCHANGED <<pageVars, dumpVars, cmdVars>>

\* write_png_file truncates the file; a page that asks may get a part...
BeginPng ==
  /\ image = "write" /\ png' = Torn /\ image' = "written"
  /\ UNCHANGED <<lock, file, last, drawing>>
  /\ UNCHANGED <<pageVars, dumpVars, cmdVars>>

\* ... and fills it.
EndPng ==
  /\ image = "written" /\ png' = drawing /\ drawing' = NoPicture
  /\ image' = "top"
  /\ UNCHANGED <<lock, file, last>> /\ UNCHANGED <<pageVars, dumpVars, cmdVars>>

-----------------------------------------------------------------------------
PreviewInit ==
  /\ lock = "none" /\ file = 0 /\ last = 0 /\ removed = {}
  /\ dump = "run" /\ done = 0
  /\ script = "idle" /\ asked = {} /\ env = {} /\ view = 0
  /\ checked = {} /\ clicks = 0
  /\ img = 0 /\ page = [p \in Pages |-> "away"] /\ seen = [p \in Pages |-> 0]
  /\ image = "top" /\ drawing = NoPicture /\ png = NoPicture
  /\ shown = NoPicture

Link(p) == CountPage(p) \/ LoadCount(p) \/ UncountPage(p)
Page   == \/ \E p \in Pages : OpenPage(p) \/ Link(p) \/ ClosePage(p)
          \/ AskPicture \/ MoveSlider
          \/ \E box \in Boxes : Click(box)
Dump   == CloseTrack \/ LockDump \/ NameTrack \/ NameLast \/ UnlockDump
Script == \/ LockScript \/ SetImagesSettings \/ SetImagesDecoders
          \/ DrawAgain \/ UnlockScript
Image  == \/ Top \/ UnlockUnheld \/ LockImage \/ NothingNamed \/ OpenTrack
          \/ OpenFails \/ NoChunk \/ Draw \/ BeginPng \/ EndPng

PreviewNext == \/ Page \/ Dump \/ Script \/ Image
               \/ \E t \in Removable : RemoveFile(t)

\* The threads are scheduled and the mutex is let go for 20 ms at a time, so
\* that whoever asks for it again and again gets it; a page's timer fires.
PreviewFairness ==
  /\ WF_previewVars(Dump) /\ SF_previewVars(LockDump)
  /\ WF_previewVars(Script) /\ SF_previewVars(LockScript)
  /\ WF_previewVars(Image) /\ SF_previewVars(LockImage)
  /\ WF_previewVars(AskPicture) /\ \A p \in Pages : WF_previewVars(Link(p))

PreviewSpec == PreviewInit /\ [][PreviewNext]_previewVars /\ PreviewFairness

-----------------------------------------------------------------------------
(* Properties                                                              *)

InSection ==
  (IF dump \in {"file", "last", "unlock"} THEN {"dump"} ELSE {})
  \cup (IF script \in {"setView", "setDecoders", "again", "unlock"}
        THEN {"script"} ELSE {})
  \cup (IF image = "look" THEN {"image"} ELSE {})

\* script_mutex does its work: at most one thread is between its lock and its
\* unlock, and that one holds it.
Exclusive == InSection \subseteq {lock}

\* The image thread is about to unlock what another thread has locked: it read
\* img_connection when no page was counted.
Intrudes == image = "else" /\ InSection # {}

\* There is one place of the program where the mutex is lost: no step of any
\* thread, on any path, breaks the exclusion but the unlock of the image thread
\* without a page, and that only while another thread is in its section.
ExclusionKept == [][~Intrudes => (Exclusive => Exclusive')]_previewVars

\* Two threads are in the middle of img_connection++ or --.
Counting == {p \in Pages : page[p] \in {"opening", "tested", "closing"}}

\* What PreviewFollows takes for granted: no file is removed before it is
\* drawn, pages come and go one at a time, the mutex is not lost.
Undisturbed == /\ removed = {} /\ Cardinality(Counting) <= 1 /\ ~Intrudes

Wanted(picture) ==
  last \notin Blank \cup {0} =>
    /\ picture.track = last /\ picture.view = view
    /\ picture.decoders = UNION {Encodings(w) : w \in asked}

\* A page that stays open comes to show the last track that was dumped, at the
\* scale and with the decoders that were asked for last, however the drawing,
\* the dump, the settings, the timers and the other pages' coming and going
\* interleave; unless that track cannot be drawn.
PreviewFollows ==
  []Undisturbed /\ <>[](page[Viewer] = "open") =>
    <>[]Wanted(shown)

\* Neither a finished track nor a setting waits for the mutex for ever, with
\* pages or without and though the image thread unlocks what it does not hold,
\* while no file is removed: the image thread that cannot open one keeps it.
LockGiven ==
  [](removed = {}) => /\ (dump = "want") ~> (dump = "run")
                      /\ (script # "idle") ~> (script = "idle")

\* The page: every decoder whose box is checked is in the picture.
BoxesHonoured ==
  []Undisturbed /\ <>[](page[Viewer] = "open") =>
    <>[](last \notin Blank \cup {0} =>
           shown.decoders = UNION {IF b = "APPLE" \/ b = "ARBURG"
                                   THEN Encodings(b) ELSE {b} : b \in checked})

\* A page that stays open is followed whatever the others do.
PagesCounted ==
  [](removed = {} /\ ~Intrudes) /\ <>[](page[Viewer] = "open") =>
    <>[]Wanted(shown)

=============================================================================
