------------------------------- MODULE Desktop -------------------------------
(***************************************************************************)
(* The desktop application: the main process (src/client/src/main), which  *)
(* owns the files, the dialogs and the window, and its page, which owns    *)
(* the canvas.  They talk over two ordered channels.                       *)
(*                                                                         *)
(* What is on a canvas or in a file is a set of items: strokes the user    *)
(* has drawn, and pages that files held at the start.  A file is opened in *)
(* one piece.  Canvas is about what happens inside the page.               *)
(***************************************************************************)
EXTENDS Naturals, Sequences, FiniteSets, Functions

CONSTANTS
  Stroke,
  File,           \* the files there are; a file holds a page of its name
  Kind,           \* the extension of a file
  Null, Undefined,
  Garbage,        \* what cannot be read
  MaxSaves,       \* bound: saves under way
  MaxOdd          \* bound: the user acts while odd has no more members

ASSUME DesktopAssumption ==
  /\ Kind \in [File -> {"pdf", "zip", "png"}]
  /\ MaxSaves \in Nat /\ MaxOdd \in Nat
  /\ Null \notin File /\ Undefined \notin File /\ Null # Undefined

Torn == {Garbage}
Content == SUBSET (Stroke \cup File) \cup {Torn}

VARIABLES
  path,        \* currentFilePath
  changed,     \* fileHasChanged
  saving,      \* fileIsSaving
  choosing,    \* the dialog of openFilesAsBase64Images is shown
  saves,       \* the calls of saveBase64 and saveBase64As under way
  closed,      \* the window has been closed
  disk,        \* the files
  toPage,      \* webContents.send
  toMain,      \* ipcRenderer.send
  canvas,      \* the page's layer
  loading,     \* openFile calls of the page that wait for their images
  pasting,     \* images being pasted, and shapes being cut
  isLoading,   \* the progress window covers the page
  consent,     \* history: the canvas the user agreed to give up
  odd          \* history: what has happened that the flags do not know of

main == <<path, changed, saving, choosing, saves, closed, disk>>
page == <<canvas, loading, pasting, isLoading>>
vars == <<main, page, toPage, toMain, consent, odd>>

Slot == 1..MaxSaves
Idle == [stage |-> "idle"]
Save == [stage : {"ask"}, pages : Content]
        \cup [stage : {"opening", "write", "rest"}, at : File, pages : Content]
        \cup {Idle}

ToPage == [do : {"newFile", "saveFile", "saveFileAs"}]
          \cup [do : {"openFile"}, of : File, pages : Content]
ToMain == [do : {"newFile", "fileHasChanged", "fileHasOpened"}]
          \cup [do : {"saveFile", "saveFileAs"}, pages : Content]

TypeOK ==
  /\ path \in File \cup {Null, Undefined}
  /\ {changed, saving, choosing, closed, isLoading} \subseteq BOOLEAN
  /\ saves \in [Slot -> Save]
  /\ disk \in [File -> Content]
  /\ toPage \in Seq(ToPage) /\ toMain \in Seq(ToMain)
  /\ canvas \in Content /\ loading \subseteq File \X {"reading", "rendering", "inserting"} \X Content /\ pasting \subseteq {"image", "cut"} \X Stroke
  /\ consent \in Content \cup {Null}
  /\ odd \subseteq {"left", "forgot", "raced", "unread", "misnamed"}

Tell(m) == toMain' = Append(toMain, m)
Menu(m) == toPage' = Append(toPage, m)

(* The canvas has strokes, is in no file and is not being saved.           *)
Saving(i) == saves[i].stage # "idle"
UnderWay == {saves[i].pages : i \in {j \in Slot : Saving(j)}}
            \cup {m.pages : m \in {n \in Range(toMain) : n.do \in {"saveFile", "saveFileAs"}}}
Unsaved == canvas \cap Stroke # {} /\ canvas \notin UnderWay /\ \A f \in File : disk[f] # canvas

(* getFileAsBase64Imgs, of what the file holds now.                        *)
Read(f) == [do |-> "openFile", of |-> f, pages |-> disk[f]]

(* dom-ready: the window may be given a file in its arguments.             *)
Init ==
  /\ disk = [f \in File |-> {f}]
  /\ path \in File \cup {Null}
  /\ toPage = IF path = Null THEN <<>> ELSE <<Read(path)>>
  /\ changed = FALSE /\ saving = FALSE /\ choosing = FALSE /\ closed = FALSE
  /\ saves = [i \in Slot |-> Idle]
  /\ toMain = <<>>
  /\ canvas = {} /\ loading = {} /\ pasting = {} /\ isLoading = FALSE
  /\ consent = Null /\ odd = {}

----------------------------------------------------------------------------
(* The user.  A dialog keeps the window from being used, and what the      *)
(* processes tell each other arrives before the user's next click; reading *)
(* and writing files takes longer.                                         *)

Attending == ~closed /\ toPage = <<>> /\ toMain = <<>> /\ Cardinality(odd) <= MaxOdd
User == Attending /\ ~choosing /\ \A i \in Slot : saves[i].stage # "ask"

(* A new content of the canvas, or a save, is under way.                   *)
Changing == choosing \/ loading # {} \/ UnderWay # {} \/ toPage # <<>>
Blame(reason, if) == odd' = IF if THEN odd \cup {reason} ELSE odd

(* A stroke is drawn, erased, moved away, undone or redone.                *)
Change(s) ==
  /\ User /\ ~isLoading
  /\ <<"cut", s>> \in pasting => s \in canvas
  /\ canvas' = IF s \in canvas THEN canvas \ {s} ELSE canvas \cup {s}
  /\ Tell([do |-> "fileHasChanged"])
  /\ Blame("raced", Changing)
  /\ UNCHANGED <<main, loading, pasting, isLoading, toPage, consent>>

(* The mouse leaves the canvas while it draws: the stroke is kept, and     *)
(* handleFileChange is not called.                                         *)
DrawAndLeave(s) ==
  /\ User /\ ~isLoading
  /\ s \notin canvas /\ <<"cut", s>> \notin pasting
  /\ canvas' = canvas \cup {s}
  /\ Blame("left", TRUE)
  /\ UNCHANGED <<main, loading, pasting, isLoading, toPage, toMain, consent>>

(* The change is told at once; an image comes when it has been loaded, and *)
(* shapes that are cut go when they have been drawn for the clipboard.     *)
Idles(s) == \A how \in {"image", "cut"} : <<how, s>> \notin pasting
Promise(how, s) ==
  /\ User /\ ~isLoading /\ Idles(s)
  /\ pasting' = pasting \cup {<<how, s>>}
  /\ Tell([do |-> "fileHasChanged"])
  /\ Blame("raced", Changing)
  /\ UNCHANGED <<main, canvas, loading, isLoading, toPage, consent>>
Land(how, s) ==
  /\ ~closed
  /\ <<how, s>> \in pasting /\ pasting' = pasting \ {<<how, s>>}
  /\ Blame("raced", Changing)
  /\ UNCHANGED <<main, loading, isLoading, toPage, toMain, consent>>

Paste(s) == s \notin canvas /\ Promise("image", s)
ImagePasted(s) == Land("image", s) /\ canvas' = canvas \cup {s}
Cut(s) == s \in canvas /\ Promise("cut", s)
CutDone(s) == Land("cut", s) /\ canvas' = canvas \ {s}

----------------------------------------------------------------------------
(* The menu (getTemplate) and the window, in the main process.             *)

(* exitAlert, answered with "go on"; another answer changes nothing.       *)
GoOn == consent' = canvas
Unasked == UNCHANGED consent

(* handleNewFile.                                                          *)
NewFile ==
  /\ User
  /\ \/ changed /\ ~saving /\ GoOn /\ path' = Null
     \/ ~(changed /\ ~saving) /\ Unasked /\ UNCHANGED path
  /\ Menu([do |-> "newFile"])
  /\ UNCHANGED <<changed, saving, choosing, saves, closed, disk, page, toMain, odd>>

(* handleOpenFile, up to the dialog.                                       *)
OpenFile ==
  /\ User
  /\ \/ changed /\ GoOn
     \/ ~changed /\ Unasked
  /\ choosing' = TRUE
  /\ Blame("raced", UnderWay # {})
  /\ UNCHANGED <<path, changed, saving, saves, closed, disk, page, toPage, toMain>>

(* A zip that cannot be read throws; a png is not written back.            *)
OpenChosen(f) ==
  /\ Attending /\ choosing
  /\ choosing' = FALSE
  /\ \/ /\ Kind[f] = "zip" /\ disk[f] = Torn
        /\ UNCHANGED <<path, changed, toPage>>
     \/ /\ Kind[f] # "zip" \/ disk[f] # Torn
        /\ Menu(Read(f))
        /\ path' = IF Kind[f] = "png" THEN Undefined ELSE f
        /\ changed' = FALSE
  /\ UNCHANGED <<saving, saves, closed, disk, page, toMain, consent, odd>>

(* The page is sent an openFile without data, which it ignores.            *)
OpenCanceled ==
  /\ Attending /\ choosing
  /\ choosing' = FALSE
  /\ changed' = FALSE
  /\ Blame("forgot", changed)
  /\ UNCHANGED <<path, saving, saves, closed, disk, page, toPage, toMain, consent>>

SaveMenu(do) ==
  /\ User
  /\ \E i \in Slot : saves[i] = Idle
  /\ Menu([do |-> do])
  /\ Blame("raced", Changing)
  /\ UNCHANGED <<main, page, toMain, consent>>

(* Mutant: asks about changes only while they are being saved.             *)
CloseSwapped ==
  /\ User
  /\ ~(saving /\ path # Null)
  /\ \/ changed /\ saving /\ GoOn
     \/ ~(changed /\ saving) /\ Unasked
  /\ closed' = TRUE
  /\ UNCHANGED <<path, changed, saving, choosing, saves, disk, page, toPage, toMain, odd>>

(* win.on('close').                                                        *)
Close ==
  /\ User
  /\ ~(saving /\ path # Null)
  /\ \/ changed /\ ~saving /\ GoOn
     \/ ~(changed /\ ~saving) /\ Unasked
  /\ closed' = TRUE
  /\ UNCHANGED <<path, changed, saving, choosing, saves, disk, page, toPage, toMain, odd>>

----------------------------------------------------------------------------
(* The page: runCommand and openFile.                                      *)

FromMenu(do) == ~closed /\ toPage # <<>> /\ Head(toPage).do = do /\ toPage' = Tail(toPage)

PageNew ==
  /\ FromMenu("newFile")
  /\ Tell([do |-> "newFile"])
  /\ canvas' = {}
  /\ Blame("raced", pasting # {} \/ loading # {})
  /\ UNCHANGED <<main, loading, pasting, isLoading, consent>>

(* A pdf is read from its path, the images of a zip have been sent.        *)
PageOpen ==
  /\ FromMenu("openFile")
  /\ canvas' = {}
  /\ LET m == Head(toPage) IN loading' = loading \cup {<<m.of, "reading", m.pages>>}
  /\ Blame("raced", pasting # {} \/ loading # {})
  /\ UNCHANGED <<main, pasting, isLoading, toMain, consent>>

PdfStarts(job) ==
  /\ ~closed
  /\ job \in loading /\ Kind[job[1]] = "pdf" /\ job[2] = "reading" /\ disk[job[1]] # Torn
  /\ loading' = (loading \ {job}) \cup {<<job[1], "rendering", disk[job[1]]>>}
  /\ isLoading' = TRUE
  /\ UNCHANGED <<main, canvas, pasting, toPage, toMain, consent, odd>>

(* Mutant: the window is closed by the update to the last page only, and   *)
(* the update is forgotten.                                                *)
PdfDoneSilent(job) ==
  /\ ~closed
  /\ job \in loading /\ job[2] = "rendering"
  /\ canvas' = canvas \cup job[3]
  /\ loading' = loading \ {job}
  /\ Tell([do |-> "fileHasOpened"])
  /\ UNCHANGED <<main, isLoading, pasting, toPage, consent, odd>>

PdfDone(job) ==
  /\ ~closed
  /\ job \in loading /\ job[2] = "rendering"
  /\ canvas' = canvas \cup job[3]
  /\ loading' = loading \ {job}
  /\ isLoading' = FALSE
  /\ Tell([do |-> "fileHasOpened"])
  /\ UNCHANGED <<main, pasting, toPage, consent, odd>>

(* The page shows the error, and still the progress if it has started; the *)
(* main process has taken the path.                                        *)
PdfFails(job) ==
  /\ ~closed
  /\ job \in loading /\ Kind[job[1]] = "pdf"
  /\ loading' = loading \ {job}
  /\ Blame("unread", TRUE)
  /\ UNCHANGED <<main, canvas, pasting, isLoading, toPage, toMain, consent>>

(* The first image tells the size of all; an image that cannot be shown    *)
(* calls nothing back.                                                     *)
SizeKnown(job) ==
  /\ ~closed
  /\ job \in loading /\ Kind[job[1]] # "pdf" /\ job[2] = "reading" /\ job[3] # Torn
  /\ loading' = (loading \ {job}) \cup {<<job[1], "inserting", job[3]>>}
  /\ Tell([do |-> "fileHasOpened"])
  /\ UNCHANGED <<main, canvas, pasting, isLoading, toPage, consent, odd>>

ImagesInserted(job) ==
  /\ ~closed
  /\ job \in loading /\ job[2] = "inserting"
  /\ loading' = loading \ {job}
  /\ canvas' = canvas \cup job[3]
  /\ UNCHANGED <<main, pasting, isLoading, toPage, toMain, consent, odd>>

PageSave(do) ==
  /\ FromMenu(do)
  /\ Tell([do |-> do, pages |-> canvas])
  /\ Blame("raced", pasting # {})
  /\ UNCHANGED <<main, page, consent>>

----------------------------------------------------------------------------
(* The main process: its listeners, and what it awaits.                    *)

FromPage(do) == ~closed /\ toMain # <<>> /\ Head(toMain).do = do /\ toMain' = Tail(toMain)

(* Mutant: the listener leaves the path.                                   *)
MainNewForgets ==
  /\ FromPage("newFile")
  /\ UNCHANGED <<main, page, toPage, consent, odd>>

MainNew ==
  /\ FromPage("newFile")
  /\ path' = Null
  /\ UNCHANGED <<changed, saving, choosing, saves, closed, disk, page, toPage, consent, odd>>

MainChanged ==
  /\ FromPage("fileHasChanged")
  /\ changed' = TRUE
  /\ UNCHANGED <<path, saving, choosing, saves, closed, disk, page, toPage, consent, odd>>

MainOpened ==
  /\ FromPage("fileHasOpened")
  /\ changed' = FALSE
  /\ UNCHANGED <<path, saving, choosing, saves, closed, disk, page, toPage, consent, odd>>

Opening(f, pages) == [stage |-> "opening", at |-> f, pages |-> pages]

MainSave(do) ==
  /\ FromPage(do)
  /\ saving' = TRUE
  /\ \E i \in Slot :
       /\ saves[i] = Idle
       /\ LET pages == Head(toMain).pages
          IN saves' = [saves EXCEPT ![i] =
               IF do = "saveFile" /\ path \in File THEN Opening(path, pages)
               ELSE [stage |-> "ask", pages |-> pages]]
  /\ UNCHANGED <<path, changed, choosing, closed, disk, page, toPage, consent, odd>>

SaveAnswered(i, f) ==
  /\ Attending /\ saves[i].stage = "ask"
  /\ saves' = [saves EXCEPT ![i] = Opening(f, @.pages)]
  /\ UNCHANGED <<path, changed, saving, choosing, closed, disk, page, toPage, toMain, consent, odd>>

(* The listener of a save goes on: with the path of the file if it is told *)
(* so, with undefined if the dialog was canceled, and with the old path if *)
(* the call was rejected.                                                  *)
Returned(file) ==
  /\ path' = file
  /\ changed' = FALSE /\ saving' = FALSE
  /\ UNCHANGED <<choosing, closed, page, toPage, toMain, consent>>

SaveCanceled(i) ==
  /\ Attending /\ saves[i].stage = "ask"
  /\ saves' = [saves EXCEPT ![i] = Idle]
  /\ Returned(Undefined)
  /\ Blame("forgot", TRUE)
  /\ UNCHANGED disk

(* createWriteStream truncates the file, or cannot open it.                *)
FileOpened(i) ==
  /\ ~closed
  /\ saves[i].stage = "opening"
  /\ saves' = [saves EXCEPT ![i].stage = "write"]
  /\ disk' = [disk EXCEPT ![saves[i].at] = Torn]
  /\ Blame("misnamed", Kind[saves[i].at] = "png")
  /\ UNCHANGED <<path, changed, saving, choosing, closed, page, toPage, toMain, consent>>

FileLocked(i) ==
  /\ ~closed
  /\ saves[i].stage = "opening"
  /\ saves' = [saves EXCEPT ![i] = Idle]
  /\ Returned(path)
  /\ Blame("forgot", TRUE)
  /\ UNCHANGED disk

(* What is written is a pdf or a zip, whatever the file is called; two     *)
(* streams into one file garble it.                                        *)
Written(i) ==
  LET f == saves[i].at
      alone == \A j \in Slot \ {i} : saves[j].stage \in {"write", "rest"} => saves[j].at # f
  IN disk' = [disk EXCEPT ![f] = IF alone /\ Kind[f] # "png" THEN saves[i].pages ELSE Torn]

(* "finish", or "drain" after all of a zip.                                *)
WriteOk(i) ==
  /\ ~closed
  /\ saves[i].stage = "write"
  /\ Written(i)
  /\ saves' = [saves EXCEPT ![i] = Idle]
  /\ Returned(saves[i].at)
  /\ Blame("forgot", canvas # saves[i].pages)

(* "drain" in the middle of a pdf.                                         *)
WriteDrains(i) ==
  /\ ~closed
  /\ saves[i].stage = "write" /\ Kind[saves[i].at] = "pdf"
  /\ saves' = [saves EXCEPT ![i].stage = "rest"]
  /\ Returned(saves[i].at)
  /\ Blame("forgot", canvas # saves[i].pages)
  /\ UNCHANGED disk

(* Mutant: only an error of the stream ends the wait.                      *)
WriteTimeoutSilent(i) ==
  /\ ~closed
  /\ saves[i].stage = "write"
  /\ saves' = [saves EXCEPT ![i].stage = "rest"]
  /\ UNCHANGED <<path, changed, saving, choosing, closed, disk, page, toPage, toMain, consent, odd>>

(* After five seconds: the disk is slow, or the zip so small that nothing  *)
(* is ever drained.                                                        *)
WriteTimeout(i) ==
  /\ ~closed
  /\ saves[i].stage = "write"
  /\ saves' = [saves EXCEPT ![i].stage = "rest"]
  /\ Returned(path)
  /\ Blame("forgot", TRUE)
  /\ UNCHANGED disk

WriteEnds(i) ==
  /\ ~closed
  /\ saves[i].stage = "rest"
  /\ Written(i)
  /\ saves' = [saves EXCEPT ![i] = Idle]
  /\ UNCHANGED <<path, changed, saving, choosing, closed, page, toPage, toMain, consent, odd>>

----------------------------------------------------------------------------
Next ==
  \/ \E s \in Stroke : Change(s)
  \/ \E s \in Stroke : DrawAndLeave(s)
  \/ \E s \in Stroke : Paste(s)
  \/ \E s \in Stroke : ImagePasted(s)
  \/ \E s \in Stroke : Cut(s)
  \/ \E s \in Stroke : CutDone(s)
  \/ NewFile \/ OpenFile \/ OpenCanceled \/ Close
  \/ \E f \in File : OpenChosen(f)
  \/ \E do \in {"saveFile", "saveFileAs"} : SaveMenu(do)
  \/ \E do \in {"saveFile", "saveFileAs"} : PageSave(do)
  \/ \E do \in {"saveFile", "saveFileAs"} : MainSave(do)
  \/ PageNew \/ PageOpen
  \/ \E job \in loading : PdfStarts(job)
  \/ \E job \in loading : PdfDone(job)
  \/ \E job \in loading : PdfFails(job)
  \/ \E job \in loading : SizeKnown(job)
  \/ \E job \in loading : ImagesInserted(job)
  \/ MainNew \/ MainChanged \/ MainOpened
  \/ \E i \in Slot, f \in File : SaveAnswered(i, f)
  \/ \E i \in Slot : SaveCanceled(i)
  \/ \E i \in Slot : FileOpened(i)
  \/ \E i \in Slot : FileLocked(i)
  \/ \E i \in Slot : WriteOk(i)
  \/ \E i \in Slot : WriteDrains(i)
  \/ \E i \in Slot : WriteTimeout(i)
  \/ \E i \in Slot : WriteEnds(i)

Spec == Init /\ [][Next]_vars

(* A stream ends, or its timer does; so does the work on a pdf.            *)
FairSpec ==
  /\ Spec
  /\ WF_vars(\E job \in loading : PdfDone(job) \/ PdfFails(job))
  /\ \A i \in Slot : WF_vars(FileOpened(i) \/ FileLocked(i) \/ WriteOk(i) \/ WriteTimeout(i))

----------------------------------------------------------------------------
Replaced == toPage' # toPage /\ Len(toPage') < Len(toPage) /\ canvas' = {}

(* The user is asked before work that is in no file is dropped, by a new   *)
(* file, by opening one or by closing the window (main.ts:72, 78, 98),     *)
(* unless something has happened that fileHasChanged cannot show: see odd. *)
AskedFirst ==
  [][Unsaved /\ (Replaced \/ closed' # closed) => canvas = consent' \/ odd' # {}]_vars

(* A file is overwritten without asking, because it is currentFilePath,    *)
(* only by a canvas that shows its pages: the path is taken when a file is *)
(* chosen (main.ts:66) and the pages are shown, if ever, later.            *)
PagesKept ==
  [][\A i \in Slot : saves[i] = Idle /\ saves'[i].stage = "opening" =>
       LET f == saves'[i].at IN f \in disk[f] => f \in saves'[i].pages \/ odd # {}]_vars

(* A window that refuses to be closed because of a save (main.ts:96) can   *)
(* be closed later.                                                        *)
CloseUnblocked ==
  (saving /\ path # Null /\ \E i \in Slot : saves[i].stage \in {"opening", "write"}) ~> ~(saving /\ path # Null)

(* The window that shows the progress of reading a pdf goes away           *)
(* (ImageUtils.ts:75), unless a page could not be rendered.                *)
ProgressEnds == isLoading ~> (~isLoading \/ "unread" \in odd \/ closed)
=============================================================================
