------------------------------ MODULE NewsScout ------------------------------
(***************************************************************************)
(* The news scout of one server: scans that save a candidate for each      *)
(* story in the news, and the administrators who edit, approve and reject  *)
(* candidates.                                                             *)
(*                                                                         *)
(* One scan runs at a time, in the worker or in a request.  An approval    *)
(* reads the candidate, saves a poll for each of its choices, and records  *)
(* the review; each of these is a store transaction of its own, and others *)
(* edit, approve and reject the candidate meanwhile.                       *)
(*                                                                         *)
(* A story is its fingerprint.  The content of a candidate is a version,   *)
(* of which the choices matter; a poll's slug is made from the candidate,  *)
(* the version (the title) and the choice.                                 *)
(***************************************************************************)
EXTENDS Naturals

CONSTANTS
    Stories,
    Versions,
    AllChoices,
    ChoicesOf,   \* ChoicesOf[v]: the choices of version v, one unless multiple
    Scanners,    \* the worker, and concurrently served POST /admin/news/run
    Reviewers,   \* concurrently served approvals
    NoStory,
    NoVersion

ASSUME NewsAssumption ==
    /\ ChoicesOf \in [Versions -> (SUBSET AllChoices) \ {{}}]
    /\ NoStory \notin Stories /\ NoVersion \notin Versions

VARIABLES
    candidates,  \* the NewsCandidate nodes
    polls,       \* the status of the poll of each slug
    running,     \* Agent.running
    scanners,    \* the local state of every scan
    reviewers    \* the local state of every approval

newsVars == <<candidates, polls, running, scanners, reviewers>>

----------------------------------------------------------------------------
(* Types *)

NoCandidate == [status |-> "none", version |-> NoVersion, poll |-> NoVersion]
IdleScanner == [pc |-> "idle", todo |-> {}]
IdleReviewer == [pc |-> "idle", story |-> NoStory, version |-> NoVersion,
                 todo |-> {}]

NewsTypeOK ==
    /\ candidates \in [Stories ->
          [status : {"none", "pending", "approved", "rejected"},
           version : Versions \cup {NoVersion},
           poll : Versions \cup {NoVersion}]]
    /\ polls \in [Stories \X Versions \X AllChoices ->
                     {"none", "draft", "published"}]
    /\ running \in BOOLEAN
    /\ scanners \in [Scanners -> [pc : {"idle", "fetch", "save", "end"},
                                  todo : SUBSET Stories]]
    /\ reviewers \in [Reviewers ->
          [pc : {"idle", "polls", "review"}, story : Stories \cup {NoStory},
           version : Versions \cup {NoVersion}, todo : SUBSET AllChoices]]

NewsInit ==
    /\ candidates = [s \in Stories |-> NoCandidate]
    /\ polls = [p \in Stories \X Versions \X AllChoices |-> "none"]
    /\ running = FALSE
    /\ scanners = [n \in Scanners |-> IdleScanner]
    /\ reviewers = [r \in Reviewers |-> IdleReviewer]

----------------------------------------------------------------------------
(* ScanWithFilter *)

Scans(n, state) == scanners' = [scanners EXCEPT ![n] = state]

\* Mutant: the flag is not asked for.
StartsAlways == TRUE

MayStart == ~running

\* Start and adminRunNewsAgent: a scan that finds another one running is refused.
ScanWithFilter(n) ==
    /\ scanners[n].pc = "idle"
    /\ MayStart
    /\ running' = TRUE
    /\ Scans(n, [IdleScanner EXCEPT !.pc = "fetch"])
    /\ UNCHANGED <<candidates, polls, reviewers>>

\* The workflow: retrieve, screen, draft.  It fails, or yields some stories.
InvokeWorkflow(n) ==
    /\ scanners[n].pc = "fetch"
    /\ \/ \E todo \in SUBSET Stories :
             Scans(n, [pc |-> IF todo = {} THEN "end" ELSE "save", todo |-> todo])
       \/ Scans(n, [IdleScanner EXCEPT !.pc = "end"])
    /\ UNCHANGED <<candidates, polls, running, reviewers>>

\* Mutant: a story that is drafted anew replaces its candidate.
Redrafted(s, v) == [NoCandidate EXCEPT !.status = "pending", !.version = v]

\* MERGE ... ON CREATE: a story that has a candidate leaves it as it is.
CandidateOf(s, v) ==
    IF candidates[s].status # "none" THEN candidates[s]
    ELSE [NoCandidate EXCEPT !.status = "pending", !.version = v]

\* A failure ends the scan, the rest of its stories unsaved.
CreateNewsCandidateIfMissing(n, s, v) ==
    LET todo == scanners[n].todo \ {s} IN
    /\ scanners[n].pc = "save"
    /\ s \in scanners[n].todo
    /\ \/ /\ candidates' = [candidates EXCEPT ![s] = CandidateOf(s, v)]
          /\ Scans(n, [pc |-> IF todo = {} THEN "end" ELSE "save", todo |-> todo])
       \/ /\ Scans(n, [IdleScanner EXCEPT !.pc = "end"])
          /\ UNCHANGED candidates
    /\ UNCHANGED <<polls, running, reviewers>>

\* The deferred function.
EndScan(n) ==
    /\ scanners[n].pc = "end"
    /\ running' = FALSE
    /\ Scans(n, IdleScanner)
    /\ UNCHANGED <<candidates, polls, reviewers>>

----------------------------------------------------------------------------
(* The administrators *)

UpdatePendingNewsCandidate(s, v) ==
    /\ candidates[s].status = "pending"
    /\ candidates' = [candidates EXCEPT ![s].version = v]
    /\ UNCHANGED <<polls, running, scanners, reviewers>>

AdminRejectNewsCandidate(s) ==
    /\ candidates[s].status = "pending"
    /\ candidates' = [candidates EXCEPT ![s].status = "rejected"]
    /\ UNCHANGED <<polls, running, scanners, reviewers>>

Reviews(r, state) == reviewers' = [reviewers EXCEPT ![r] = state]

\* GetNewsCandidate, and the checks on what it returns.
AdminApproveNewsCandidate(r, s) ==
    LET v == candidates[s].version IN
    /\ reviewers[r].pc = "idle"
    /\ candidates[s].status = "pending"
    /\ Reviews(r, [pc |-> "polls", story |-> s, version |-> v,
                   todo |-> ChoicesOf[v]])
    /\ UNCHANGED <<candidates, polls, running, scanners>>

\* Mutant: a choice that cannot be saved is passed over.
PassedOver(r, todo) ==
    [reviewers[r] EXCEPT !.todo = todo,
                         !.pc = IF todo = {} THEN "review" ELSE "polls"]

AfterFailure(r, todo) == IdleReviewer

\* UpsertPoll for one of the choices (createMultiChoicePolls, in some order) or
\* for the only poll: a draft, whatever the poll of that slug has become.
UpsertPoll(r, c) ==
    LET todo == reviewers[r].todo \ {c} IN
    /\ reviewers[r].pc = "polls"
    /\ c \in reviewers[r].todo
    /\ \/ /\ polls' = [polls EXCEPT
                 ![<<reviewers[r].story, reviewers[r].version, c>>] = "draft"]
          /\ Reviews(r, [reviewers[r] EXCEPT !.todo = todo,
                            !.pc = IF todo = {} THEN "review" ELSE "polls"])
       \/ /\ Reviews(r, AfterFailure(r, todo))
          /\ UNCHANGED polls
    /\ UNCHANGED <<candidates, running, scanners>>

\* ReviewNewsCandidate: it finds the candidate pending still, or the polls are
\* left without an approval.
ReviewNewsCandidate(r) ==
    LET s == reviewers[r].story IN
    /\ reviewers[r].pc = "review"
    /\ candidates' = IF candidates[s].status = "pending"
                     THEN [candidates EXCEPT ![s].status = "approved",
                                             ![s].poll = reviewers[r].version]
                     ELSE candidates
    /\ Reviews(r, IdleReviewer)
    /\ UNCHANGED <<polls, running, scanners>>

\* An administrator publishes a draft by hand.
PublishPoll(p) ==
    /\ polls[p] = "draft"
    /\ polls' = [polls EXCEPT ![p] = "published"]
    /\ UNCHANGED <<candidates, running, scanners, reviewers>>

\* The server stops and comes back, or loses an approval.
NewsRestart ==
    /\ running' = FALSE
    /\ scanners' = [n \in Scanners |-> IdleScanner]
    /\ reviewers' = [r \in Reviewers |-> IdleReviewer]
    /\ UNCHANGED <<candidates, polls>>

----------------------------------------------------------------------------
(* Specification *)

NewsNext ==
    \/ \E n \in Scanners :
          \/ ScanWithFilter(n)
          \/ InvokeWorkflow(n)
          \/ \E s \in Stories, v \in Versions : CreateNewsCandidateIfMissing(n, s, v)
          \/ EndScan(n)
    \/ \E s \in Stories :
          \/ \E v \in Versions : UpdatePendingNewsCandidate(s, v)
          \/ AdminRejectNewsCandidate(s)
          \/ \E r \in Reviewers : AdminApproveNewsCandidate(r, s)
    \/ \E r \in Reviewers :
          \/ \E c \in AllChoices : UpsertPoll(r, c)
          \/ ReviewNewsCandidate(r)
    \/ \E p \in DOMAIN polls : PublishPoll(p)
    \/ NewsRestart

NewsSpec == NewsInit /\ [][NewsNext]_newsVars

----------------------------------------------------------------------------
(* Properties *)

\* "news agent scan is already running" (ScanWithFilter): the flag is up exactly
\* while a scan goes on, and one scan goes on at a time, whichever step of a scan
\* fails and whoever started it.
OneScan ==
    LET active == {n \in Scanners : scanners[n].pc # "idle"} IN
    /\ running <=> active # {}
    /\ \A n1, n2 \in active : n1 = n2

\* An approved candidate has a poll for every choice of the version that was
\* approved, though edits, rejections, other approvals and failures come between
\* the polls and the review (adminApproveNewsCandidate).
ApprovedHasItsPolls ==
    \A s \in Stories : candidates[s].status = "approved" =>
        /\ candidates[s].poll \in Versions
        /\ \A c \in ChoicesOf[candidates[s].poll] :
              polls[<<s, candidates[s].poll, c>>] # "none"

\* "news candidate has already been reviewed" (adminApproveNewsCandidate): what a
\* review decided stands, against late edits, reviews and scans of the same story.
ReviewIsFinal ==
    [][\A s \in Stories :
          candidates[s].status \in {"approved", "rejected"}
             => candidates'[s] = candidates[s]]_newsVars

=============================================================================
