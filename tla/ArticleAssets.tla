--------------------------- MODULE ArticleAssets ---------------------------
(***************************************************************************)
(* The pictures of one article.  Its row names them by key; the objects    *)
(* themselves lie in the object store, which no transaction covers.  An    *)
(* upload puts a picture below temp/, saving the article copies it to the  *)
(* key of the article and deletes the upload, and what a save or the final *)
(* deletion of the article leaves without use moves below deleted/.        *)
(*                                                                         *)
(* Saving reads the article, prepares the pictures and writes the row      *)
(* without a lock that spans them, so that any number of requests overlap. *)
(* A request may stop between any two steps, and any call of the store or  *)
(* the database may fail.                                                  *)
(***************************************************************************)
EXTENDS FiniteSets

CONSTANTS
    Images,         \* pictures; the file name is the hash of the content
    Editors        \* the requests that save or delete the article

ASSUME ArticleAssetsAssumption == IsFiniteSet(Images)

Places == {"temp", "formal", "deleted"}

VARIABLES
    article,        \* the row: status of its life, and the pictures it names
    objects,        \* where in the store there is an object of which picture
    edit,           \* where a request is, and what it has read and done
    withdrawn,      \* pictures whose copy a failed save takes back although it has committed
    tangled         \* pictures two requests dealt with at the same time

articleVars == <<article, objects, edit, withdrawn, tangled>>

NoEdit == [pc |-> "idle", old |-> {}, uploads |-> {}, kept |-> {}, todo |-> {},
           absent |-> {}, copied |-> {}]

\* The pictures the content and the covers name once they are normalised.
Wanted(r) == edit[r].uploads \cup edit[r].kept

Editing(r) == edit[r].pc # "idle"

Formal(i) == <<"formal", i>>

ArticleInit ==
    /\ article = [row |-> "absent", refs |-> {}]
    /\ objects = {"temp"} \X Images
    /\ edit = [r \in Editors |-> NoEdit]
    /\ withdrawn = {} /\ tangled = {}

EditTo(r, changes) == edit' = [edit EXCEPT ![r] = changes]

\* The request is answered, with or without an error, or its process has stopped. An
\* article whose creation did not commit has lost its id.
EndEdit(r) == EditTo(r, NoEdit)
Abandoned(r) ==
    article' = IF edit[r].pc = "create" THEN [article EXCEPT !.row = "gone"] ELSE article
-----------------------------------------------------------------------------
(* Saving.                                                                 *)

UploadArticleImage(i) ==
    /\ objects' = objects \cup {<<"temp", i>>}
    /\ UNCHANGED <<article, edit, withdrawn>>

\* The old content is read before the transaction; the new one names uploads and pictures
\* the article has.
SaveExisting(r) ==
    /\ ~Editing(r)
    /\ article.row = "live"
    /\ \E uploads, kept \in SUBSET Images :
            /\ uploads \cap kept = {}
            /\ EditTo(r, [NoEdit EXCEPT !.pc = "prepare", !.old = article.refs, !.uploads = uploads,
                                    !.kept = kept, !.todo = uploads \cup kept])
    /\ UNCHANGED <<article, objects, withdrawn>>

\* The row of a new article is inserted first, for its id; nobody sees it yet.
SaveNew(r) ==
    /\ ~Editing(r)
    /\ article.row = "absent"
    /\ article' = [article EXCEPT !.row = "creating"]
    /\ \E uploads \in SUBSET Images :
            EditTo(r, [NoEdit EXCEPT !.pc = "create", !.uploads = uploads, !.todo = uploads])
    /\ UNCHANGED <<objects, withdrawn>>

Preparing(r) == edit[r].pc \in {"prepare", "create"}

\* Mutation of FindImage: an upload is copied without a look at the target.
FindImageUnasked(r, i) ==
    /\ Preparing(r)
    /\ i \in edit[r].todo /\ edit[r].absent = {}
    /\ \/ /\ Formal(i) \in objects /\ i \in edit[r].kept
          /\ EditTo(r, [edit[r] EXCEPT !.todo = @ \ {i}])
       \/ /\ i \in edit[r].uploads
          /\ EditTo(r, [edit[r] EXCEPT !.absent = {i}])
    /\ UNCHANGED <<article, objects, withdrawn>>

\* The pictures are looked at one by one. A picture of the article must exist; so must the
\* target of an upload, or it is copied.
FindImage(r, i) ==
    /\ Preparing(r)
    /\ i \in edit[r].todo /\ edit[r].absent = {}
    /\ \/ /\ Formal(i) \in objects
          /\ EditTo(r, [edit[r] EXCEPT !.todo = @ \ {i}])
       \/ /\ Formal(i) \notin objects /\ i \in edit[r].uploads
          /\ EditTo(r, [edit[r] EXCEPT !.absent = {i}])
    /\ UNCHANGED <<article, objects, withdrawn>>

CopyImage(r, i) ==
    /\ Preparing(r)
    /\ i \in edit[r].absent
    /\ <<"temp", i>> \in objects
    /\ objects' = objects \cup {Formal(i)}
    /\ EditTo(r, [edit[r] EXCEPT !.absent = {}, !.todo = @ \ {i},
                                  !.copied = @ \cup {i}])
    /\ UNCHANGED <<article, withdrawn>>

\* The update goes by id and misses an article that has been deleted meanwhile, without
\* an error. A picture the row now names counts as there, whatever happened to it before.
CommitArticle(r) ==
    /\ Preparing(r)
    /\ edit[r].todo = {}
    /\ IF article.row \in {"live", "creating"}
       THEN /\ article' = [row |-> "live", refs |-> Wanted(r)]
            /\ withdrawn' = withdrawn \ Wanted(r)
       ELSE UNCHANGED <<article, withdrawn>>
    /\ EditTo(r, [edit[r] EXCEPT !.pc = "saved"])
    /\ UNCHANGED objects

\* A failed transaction: the copies are deleted one after the other.
CommitFails(r) ==
    /\ Preparing(r)
    /\ edit[r].todo = {}
    /\ Abandoned(r)
    /\ EditTo(r, [NoEdit EXCEPT !.pc = "undo", !.todo = edit[r].copied,
                                !.uploads = edit[r].uploads])
    /\ UNCHANGED <<objects, withdrawn>>

DeleteCopy(r, i) ==
    /\ edit[r].pc = "undo"
    /\ i \in edit[r].todo
    /\ objects' = objects \ {Formal(i)}
    /\ EditTo(r, [edit[r] EXCEPT !.todo = @ \ {i}])
    /\ UNCHANGED <<article, withdrawn>>

\* The read after the commit, FindAdminDetail, finds an article in the trash as well; one
\* whose row is gone is answered without any cleaning up (StopEdit).
FindSaved(r) ==
    /\ edit[r].pc = "saved"
    /\ article.row \in {"live", "trashed"}
    /\ EditTo(r, [edit[r] EXCEPT !.pc = "uploads", !.todo = edit[r].uploads, !.copied = {}])
    /\ UNCHANGED <<article, objects, withdrawn>>

\* This read, or the answer to the commit, fails: the save counts as failed, and the copies
\* the committed row names are deleted like those of CommitFails.
FindSavedFails(r) ==
    /\ edit[r].pc = "saved"
    /\ withdrawn' = withdrawn \cup edit[r].copied
    /\ EditTo(r, [NoEdit EXCEPT !.pc = "undo", !.todo = edit[r].copied,
                                !.uploads = edit[r].uploads])
    /\ UNCHANGED <<article, objects>>

DeleteUpload(r, i) ==
    /\ edit[r].pc = "uploads"
    /\ i \in edit[r].todo
    /\ objects' = objects \ {<<"temp", i>>}
    /\ EditTo(r, [edit[r] EXCEPT !.todo = @ \ {i}])
    /\ UNCHANGED <<article, withdrawn>>

\* What the old content named and the new one does not; a new article had none.
StartMoves(r) ==
    /\ edit[r].pc = "uploads"
    /\ edit[r].todo = {}
    /\ EditTo(r, [edit[r] EXCEPT !.pc = "move", !.todo = edit[r].old \ Wanted(r)])
    /\ UNCHANGED <<article, objects, withdrawn>>

\* A move is a copy and a deletion; copying an object that is gone is an error.
CopyToDeleted(r, i) ==
    /\ edit[r].pc \in {"move", "retire"}
    /\ i \in edit[r].todo \ edit[r].copied
    /\ Formal(i) \in objects
    /\ objects' = objects \cup {<<"deleted", i>>}
    /\ EditTo(r, [edit[r] EXCEPT !.copied = {i}])
    /\ UNCHANGED <<article, withdrawn>>

DeleteMoved(r, i) ==
    /\ edit[r].pc \in {"move", "retire"}
    /\ i \in edit[r].todo \cap edit[r].copied
    /\ objects' = objects \ {Formal(i)}
    /\ EditTo(r, [edit[r] EXCEPT !.todo = @ \ {i}, !.copied = {}])
    /\ UNCHANGED <<article, withdrawn>>
-----------------------------------------------------------------------------
(* Deleting.                                                               *)

SoftDelete ==
    /\ article.row = "live"
    /\ article' = [article EXCEPT !.row = "trashed"]
    /\ UNCHANGED <<objects, edit, withdrawn>>

\* The pictures are moved before the row is deleted.
FindDeleted(r) ==
    /\ ~Editing(r)
    /\ article.row = "trashed"
    /\ EditTo(r, [NoEdit EXCEPT !.pc = "retire", !.old = article.refs, !.todo = article.refs])
    /\ UNCHANGED <<article, objects, withdrawn>>

PermanentDelete(r) ==
    /\ edit[r].pc = "retire"
    /\ edit[r].todo = {}
    /\ article' = [article EXCEPT !.row = "gone"]
    /\ EndEdit(r)
    /\ UNCHANGED <<objects, withdrawn>>

\* The answer, an error of the store or the database, or a stop of the process: an open
\* transaction is rolled back. The failures that have the copies deleted are CommitFails and
\* FindSavedFails. This is also how preparing fails, when a picture is not there
\* or a call goes wrong: the copies made so far are handed over only with the complete
\* result, so that nobody deletes them.
StopEdit(r) ==
    /\ Editing(r)
    /\ Abandoned(r)
    /\ EndEdit(r)
    /\ UNCHANGED <<objects, withdrawn>>
-----------------------------------------------------------------------------
\* The pictures a request has read, names or is about to remove.
ConcernedBy(r) == IF Editing(r) THEN edit[r].old \cup Wanted(r) ELSE {}

Tangle == {i \in Images : \E r, s \in Editors :
                r # s /\ i \in ConcernedBy(r) \cap ConcernedBy(s)}

EditorStep(r) ==
    \/ SaveExisting(r) \/ SaveNew(r) \/ CommitArticle(r) \/ CommitFails(r)
    \/ FindSaved(r) \/ FindSavedFails(r) \/ StartMoves(r)
    \/ FindDeleted(r) \/ PermanentDelete(r) \/ StopEdit(r)
    \/ \E i \in Images :
            \/ FindImage(r, i) \/ CopyImage(r, i) \/ DeleteCopy(r, i) \/ DeleteUpload(r, i)
            \/ CopyToDeleted(r, i) \/ DeleteMoved(r, i)

ArticleNext ==
    /\ \/ \E r \in Editors : EditorStep(r)
       \/ \E i \in Images : UploadArticleImage(i)
       \/ SoftDelete
    /\ tangled' = tangled \cup Tangle'

ArticleSpec == ArticleInit /\ [][ArticleNext]_articleVars
-----------------------------------------------------------------------------
\* What is promised: a save that fails half-way does not break pictures of the article. The
\* code does not keep it: see FindSavedFails.
NoBrokenPictures ==
    article.row = "live" => \A i \in article.refs \ tangled : Formal(i) \in objects

\* What the code does keep. The pictures a live article names can be fetched, those of a
\* trashed one can still be fetched or lie below deleted/, and a picture once uploaded is never
\* lost altogether, however requests fail or stop half-way: what a failed save deletes are
\* copies it made itself, and what a save moves away the article names no more. The exceptions:
\* a picture whose copy a save took back after its commit, which a live article still has below
\* temp/ until a later save puts it back; and pictures that two requests dealt with at the same
\* time, for neither locks the article.
PicturesKept ==
    /\ article.row = "live" =>
            \A i \in article.refs \ tangled :
                Formal(i) \in objects \/ (i \in withdrawn /\ <<"temp", i>> \in objects)
    /\ article.row = "trashed" =>
            \A i \in article.refs \ (tangled \cup withdrawn) :
                objects \cap {Formal(i), <<"deleted", i>>} # {}
    /\ \A i \in Images \ tangled : \E p \in Places : <<p, i>> \in objects
=============================================================================
