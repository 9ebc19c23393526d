----------------------------- MODULE LogUploader -----------------------------
(***************************************************************************)
(* CurlStub: the log uploader.  Threads post entries to a queue under      *)
(* queue_lock; a background thread flushes the queue to the log server, in *)
(* batches above a threshold while the stub is in use, and whatever is     *)
(* left when it is destroyed.  The flush calls curl_post with the lock     *)
(* held.  sink_ulog_fn, the library's use, makes a stub for every log      *)
(* line, posts that line and destroys the stub: one poster, one entry.     *)
(*                                                                         *)
(* An entry stands for its text: it is the thread that posted it.          *)
(***************************************************************************)
EXTENDS Integers, Sequences, FiniteSets

CONSTANTS
    Posters,      \* the threads that log
    Threshold,    \* CurlStub::threshold
    MaxPosts      \* bound: entries posted to one stub

ASSUME ThresholdAssumption == Threshold \in Nat
ASSUME PostsAssumption == MaxPosts \in Nat

VARIABLES
    post_data_queue,
    locked,           \* queue_lock is held by the background thread
    thread_exit,
    pc,               \* the background thread
    last,             \* it is in the flush after the loop
    posting,          \* the threads inside post()
    owner,            \* the thread that made the stub
    exited,           \* the process ended: exit(1), or terminate()
    accepted,         \* history: entries in the order post() took them
    handed            \* history: entries in the order curl_post was given them

vars == <<post_data_queue, locked, thread_exit, pc, last, posting, owner,
          exited, accepted, handed>>
histories == <<accepted, handed>>

Init ==
    /\ post_data_queue = <<>> /\ locked = FALSE /\ thread_exit = FALSE
    /\ pc = "test" /\ last = FALSE
    /\ posting = {} /\ owner = "using" /\ exited = FALSE
    /\ accepted = <<>> /\ handed = <<>>

Alive == ~exited

-----------------------------------------------------------------------------
(* post(), and the stub's owner *)

PostBegins(p) ==
    /\ Alive /\ owner = "using" /\ p \notin posting
    /\ Len(accepted) + Cardinality(posting) < MaxPosts
    /\ posting' = posting \union {p}
    /\ UNCHANGED <<post_data_queue, locked, thread_exit, pc, last, owner,
                   exited, histories>>

\* The lock, the push and the unlock: nothing else is done while a poster
\* holds the lock, so the three are one step.
Push(p) ==
    /\ Alive /\ p \in posting /\ ~locked
    /\ post_data_queue' = Append(post_data_queue, p)
    /\ accepted' = Append(accepted, p)
    /\ posting' = posting \ {p}
    /\ UNCHANGED <<locked, thread_exit, pc, last, owner, exited, handed>>

NotToldSlip ==
    /\ Alive /\ owner = "using" /\ posting = {}
    /\ owner' = "joining"
    /\ UNCHANGED <<post_data_queue, locked, thread_exit, pc, last, posting,
                   exited, histories>>

\* ~CurlStub; a thread inside post() when the stub is destroyed would be the
\* owner's mistake.
DestructorBegins ==
    /\ Alive /\ owner = "using" /\ posting = {}
    /\ thread_exit' = TRUE
    /\ owner' = "joining"
    /\ UNCHANGED <<post_data_queue, locked, pc, last, posting, exited,
                   histories>>

DestructorReturns ==
    /\ Alive /\ owner = "joining" /\ pc = "over"
    /\ owner' = "gone"
    /\ UNCHANGED <<post_data_queue, locked, thread_exit, pc, last, posting,
                   exited, histories>>

-----------------------------------------------------------------------------
(* background_thread_func *)

\* The loop's test of thread_exit, and the flush it leads to.
TestExit ==
    /\ Alive /\ pc = "test"
    /\ pc' = "lock" /\ last' = thread_exit
    /\ UNCHANGED <<post_data_queue, locked, thread_exit, posting, owner, exited,
                   histories>>

Lock ==
    /\ Alive /\ pc = "lock" /\ ~locked
    /\ locked' = TRUE /\ pc' = "size"
    /\ UNCHANGED <<post_data_queue, thread_exit, last, posting, owner, exited,
                   histories>>

Thresh == IF last THEN 0 ELSE Threshold

AfterFlush == IF last THEN "over" ELSE "test"

StillLockedSlip ==
    /\ Alive /\ pc = "size" /\ Len(post_data_queue) <= Thresh
    /\ pc' = AfterFlush
    /\ UNCHANGED <<post_data_queue, locked, thread_exit, last, posting, owner,
                   exited, histories>>

TooFew ==
    /\ Alive /\ pc = "size" /\ Len(post_data_queue) <= Thresh
    /\ locked' = FALSE /\ pc' = AfterFlush
    /\ UNCHANGED <<post_data_queue, thread_exit, last, posting, owner, exited,
                   histories>>

\* A flush that gives the lock back while it talks to the server.
UploadUnlockedSlip ==
    /\ Alive /\ pc = "size" /\ Len(post_data_queue) > Thresh
    /\ pc' = "upload" /\ locked' = FALSE
    /\ handed' = handed \o post_data_queue
    /\ UNCHANGED <<post_data_queue, thread_exit, last, posting, owner, exited,
                   accepted>>

\* The queue as a whole, as JSON, to curl_post; the lock stays held.
Upload ==
    /\ Alive /\ pc = "size" /\ Len(post_data_queue) > Thresh
    /\ pc' = "upload"
    /\ handed' = handed \o post_data_queue
    /\ UNCHANGED <<post_data_queue, locked, thread_exit, last, posting, owner,
                   exited, accepted>>

\* Where a text is not UTF-8 dump() throws, before curl_post is called; nothing
\* on the background thread catches it, which ends the process.
DumpThrows ==
    /\ Alive /\ pc = "size" /\ Len(post_data_queue) > Thresh
    /\ exited' = TRUE
    /\ UNCHANGED <<post_data_queue, locked, thread_exit, pc, last, posting,
                   owner, histories>>

\* curl_post returns, the batch delivered or not: its result is ignored.
UploadReturns ==
    /\ Alive /\ pc = "upload"
    /\ pc' = "clear"
    /\ UNCHANGED <<post_data_queue, locked, thread_exit, last, posting, owner,
                   exited, histories>>

\* get_cookies cannot read the cookies, and ends the process.
UploadExits ==
    /\ Alive /\ pc = "upload"
    /\ exited' = TRUE
    /\ UNCHANGED <<post_data_queue, locked, thread_exit, pc, last, posting,
                   owner, histories>>

Clear ==
    /\ Alive /\ pc = "clear"
    /\ post_data_queue' = <<>>
    /\ locked' = FALSE /\ pc' = AfterFlush
    /\ UNCHANGED <<thread_exit, last, posting, owner, exited, histories>>

Background ==
    TestExit \/ Lock \/ TooFew \/ Upload \/ Clear

Next ==
    \/ \E p \in Posters : PostBegins(p) \/ Push(p)
    \/ DestructorBegins \/ DestructorReturns
    \/ Background \/ DumpThrows \/ UploadReturns \/ UploadExits

Spec == Init /\ [][Next]_vars

\* Both threads go on while they can.  Nothing makes curl_post return: it sets
\* no time-out.  Nothing makes a poster win the lock from a background thread
\* that takes it again and again without a pause.
FairSpec == Spec /\ WF_vars(Background) /\ WF_vars(DestructorReturns)

-----------------------------------------------------------------------------
(* Properties *)

\* Every variable keeps its type, and the lock is held inside flush_queue.
TypeOK ==
    /\ post_data_queue \in Seq(Posters)
    /\ locked \in BOOLEAN /\ thread_exit \in BOOLEAN /\ last \in BOOLEAN
    /\ pc \in {"test", "lock", "size", "upload", "clear", "over"}
    /\ posting \in SUBSET Posters
    /\ owner \in {"using", "joining", "gone"}
    /\ exited \in BOOLEAN
    /\ accepted \in Seq(Posters) /\ handed \in Seq(Posters)
    /\ locked <=> pc \in {"size", "upload", "clear"}

\* Where each entry is: handed over, or still in the queue; during the upload
\* and until the queue is cleared it is in both.
EntriesConserved ==
    accepted = IF pc \in {"upload", "clear"} THEN handed
               ELSE handed \o post_data_queue

\* The background thread is over only after the last flush, and the last
\* flush begins only when nobody may post any more.
LastFlushLast ==
    /\ thread_exit => owner # "using" /\ posting = {}
    /\ last => thread_exit
    /\ pc = "over" => last /\ post_data_queue = <<>>
    /\ owner = "gone" => pc = "over"
    /\ pc \in {"upload", "clear"} => Len(post_data_queue) > 0

Contract == INSTANCE UploadContract WITH gone <- (owner = "gone")

\* CurlStub keeps its promise: every entry post() took is handed to curl_post
\* once, in order, and all of them before the destructor returns.
KeepsContract == Contract!Spec

\* The destructor returns: the one place where it can wait for ever is inside
\* curl_post.
DestructorEnds ==
    <>[](Alive /\ owner = "joining") => <>[](pc = "upload")
=============================================================================
