------------------------------- MODULE Reviews -------------------------------
(* Reviews of the items of one product, the stars they move, the votes they get *)
(* and the thread between buyer and vendor (modules/trust).  A statement reads  *)
(* with the snapshot of its start; its effects are there when its transaction   *)
(* commits.                                                                     *)
EXTENDS Integers, FiniteSets

CONSTANTS
    Desks,      \* requests open at the same time
    Items,      \* delivered order items of the product
    Readers,    \* buyers who vote
    MaxEdits,   \* decisions of the moderators
    MaxLetters  \* messages of the thread

ASSUME ReviewsAssumption == {MaxEdits, MaxLetters} \subseteq Nat

VARIABLES
    review,     \* reviews.status of each item
    everShown,  \* reviews that were published at some time
    answered,   \* reviews with a vendor_reply
    stars,      \* the reviews in products.rating_avg and rating_count
    votes,      \* review_votes
    helpful,    \* reviews.helpful_count
    desk,       \* the open transaction of a request
    edits,
    thread      \* one conversation: status, letters sent, letters seen, vendor_unread

ratings == <<review, everShown, answered, stars>>
reviewsVars == <<ratings, votes, helpful, desk, edits, thread>>

Unused == [op |-> "unused"]
\* Mutant: a review that waits for a moderator moves stars.
Shown_held(r) == {i \in Items : r[i] \in {"pending", "published"}}
Shown(r) == {i \in Items : r[i] = "published"}

ReviewsInit ==
    /\ review = [i \in Items |-> "none"]
    /\ everShown = {} /\ answered = {}
    /\ stars = {}
    /\ votes = [i \in Items |-> {}]
    /\ helpful = [i \in Items |-> 0]
    /\ desk = [d \in Desks |-> Unused]
    /\ edits = 0
    /\ thread = [status |-> "none", sent |-> 0, seen |-> 0, unread |-> 0]

\* A transaction that writes status to for the review of item and, when it has to,
\* begins refresh_ratings(), which counts with the snapshot of its start.
Begins(d, op, item, to, refreshes) ==
    desk' = [desk EXCEPT ![d] =
        [op |-> op, item |-> item, to |-> to, refreshes |-> refreshes,
         counts |-> Shown([review EXCEPT ![item] = to])]]

\* create_review(): held back when the store moderates or the filter flags the text.
\* The item has at most one review (a unique key); the loser's request fails.
WriteReview(d, i) ==
    /\ desk[d] = Unused
    /\ review[i] = "none"
    /\ \A e \in Desks : desk[e].op = "write" => desk[e].item # i
    /\ \E to \in {"pending", "published"} : Begins(d, "write", i, to, to = "published")
    /\ UNCHANGED <<ratings, votes, helpful, edits, thread>>

\* moderate_review(): any decision at any time.
Moderate(d, i) ==
    /\ desk[d] = Unused
    /\ review[i] # "none"
    /\ \A e \in Desks : desk[e].op \in {"write", "moderate"} => desk[e].item # i
    /\ edits < MaxEdits
    /\ edits' = edits + 1
    /\ \E to \in {"published", "rejected", "hidden"} : Begins(d, "moderate", i, to, TRUE)
    /\ UNCHANGED <<ratings, votes, helpful, thread>>

ReviewCommits(d) ==
    LET x == desk[d] IN
    /\ x.op \in {"write", "moderate"}
    /\ review' = [review EXCEPT ![x.item] = x.to]
    /\ everShown' = IF x.to = "published" THEN everShown \cup {x.item} ELSE everShown
    /\ stars' = IF x.refreshes THEN x.counts ELSE stars
    /\ desk' = [desk EXCEPT ![d] = Unused]
    /\ UNCHANGED <<answered, votes, helpful, edits, thread>>

\* reply_to_review(): once, and only what buyers see, as far as the request has read.
Answerable(i) == review[i] = "published" /\ i \notin answered
ReplyReads(d, i) ==
    /\ desk[d] = Unused
    /\ review[i] # "none" /\ Answerable(i)
    /\ desk' = [desk EXCEPT ![d] = [op |-> "reply", item |-> i]]
    /\ UNCHANGED <<ratings, votes, helpful, edits, thread>>

ReplyCommits(d) ==
    LET x == desk[d] IN
    /\ x.op = "reply"
    /\ \A e \in Desks : desk[e].op = "moderate" => desk[e].item # x.item
    /\ answered' = answered \cup {x.item}
    /\ desk' = [desk EXCEPT ![d] = Unused]
    /\ UNCHANGED <<review, everShown, stars, votes, helpful, edits, thread>>

ReviewFails(d) ==
    /\ desk[d] # Unused
    /\ desk' = [desk EXCEPT ![d] = Unused]
    /\ UNCHANGED <<ratings, votes, helpful, edits, thread>>

\* vote_helpful(): counted only when the vote is new.
CountsVote(r, i) == r \notin votes[i]
VoteHelpful(r, i) ==
    /\ review[i] # "none"
    /\ votes' = [votes EXCEPT ![i] = @ \cup {r}]
    /\ helpful' = [helpful EXCEPT ![i] = IF CountsVote(r, i) THEN @ + 1 ELSE @]
    /\ UNCHANGED <<ratings, desk, edits, thread>>

-----------------------------------------------------------------------------
\* ensure_conversation() of the buyer: the thread of the sub-order, or a new one.
EnsureConversation == thread.status \in {"none", "open"}

\* send_message() of the buyer: the status was read before.
SendReads(d) ==
    /\ desk[d] = Unused
    /\ EnsureConversation
    /\ desk' = [desk EXCEPT ![d] = [op |-> "send", begins |-> thread.status = "none"]]
    /\ UNCHANGED <<ratings, votes, helpful, edits, thread>>

\* A thread is begun once: the second insert fails on the unique key.
SendCommits(d) ==
    /\ desk[d].op = "send" /\ thread.sent < MaxLetters
    /\ desk[d].begins => thread.status = "none"
    /\ thread' = [thread EXCEPT !.status = IF @ = "none" THEN "open" ELSE @, !.sent = @ + 1, !.unread = @ + 1]
    /\ desk' = [desk EXCEPT ![d] = Unused]
    /\ UNCHANGED <<ratings, votes, helpful, edits>>

\* The vendor opens the thread: it lists the letters and then resets the counter.
ThreadLists(d) ==
    /\ desk[d] = Unused /\ thread.status # "none"
    /\ desk' = [desk EXCEPT ![d] = [op |-> "read", upto |-> thread.sent]]
    /\ UNCHANGED <<ratings, votes, helpful, edits, thread>>

MarkRead(d) ==
    LET x == desk[d] IN
    /\ x.op = "read"
    /\ thread' = [thread EXCEPT !.seen = IF x.upto > @ THEN x.upto ELSE @, !.unread = 0]
    /\ desk' = [desk EXCEPT ![d] = Unused]
    /\ UNCHANGED <<ratings, votes, helpful, edits>>

BlockConversation ==
    /\ thread.status = "open"
    /\ thread' = [thread EXCEPT !.status = "blocked"]
    /\ UNCHANGED <<ratings, votes, helpful, desk, edits>>

-----------------------------------------------------------------------------
ReviewsNext ==
    \/ BlockConversation
    \/ \E d \in Desks :
         \/ ReviewCommits(d) \/ ReplyCommits(d) \/ ReviewFails(d)
         \/ SendReads(d) \/ SendCommits(d) \/ ThreadLists(d) \/ MarkRead(d)
         \/ \E i \in Items : WriteReview(d, i) \/ Moderate(d, i) \/ ReplyReads(d, i)
    \/ \E r \in Readers, i \in Items : VoteHelpful(r, i)

ReviewsSpec == ReviewsInit /\ [][ReviewsNext]_reviewsVars

-----------------------------------------------------------------------------
Statuses == {"none", "pending", "published", "rejected", "hidden"}

\* The types of the rows and of the open requests.
ReviewsTypeOK ==
    /\ review \in [Items -> Statuses] /\ everShown \subseteq Items /\ answered \subseteq Items /\ stars \subseteq Items
    /\ votes \in [Items -> SUBSET Readers] /\ helpful \in [Items -> Nat]
    /\ edits \in 0 .. MaxEdits
    /\ thread \in [status : {"none", "open", "blocked"}, sent : 0 .. MaxLetters, seen : 0 .. MaxLetters,
                   unread : 0 .. MaxLetters]
    /\ desk \in [Desks ->
         {Unused} \cup [op : {"send"}, begins : BOOLEAN] \cup [op : {"reply"}, item : Items] \cup [op : {"read"}, upto : 0 .. MaxLetters]
         \cup [op : {"write", "moderate"}, item : Items, to : Statuses \ {"none"},
               refreshes : BOOLEAN, counts : SUBSET Items]]

\* A review that was never published moves no star and has no answer, however
\* decisions, refreshes and answers race.  (Two refreshes at the same time can still
\* leave a withdrawn review in the stars, or a published one out of them, until the
\* product's next review.)
StarsWereShown == stars \cup answered \subseteq everShown

\* helpful_count is the number of buyers who found the review helpful, whoever votes
\* how often.
VotesCount == \A i \in Items : helpful[i] = Cardinality(votes[i])

\* The counter never promises letters that are not there.  (It can miss one that came
\* between the vendor's query and the reset.)
UnreadIsThere == thread.unread <= thread.sent - thread.seen

\* What reviews and conversations keep in every state (trust/service.py, router.py):
\* rows of their types, stars of published reviews, votes that count, and no unread
\* letter that is not there.
ReviewsSafe == ReviewsTypeOK /\ StarsWereShown /\ VotesCount /\ UnreadIsThere
=============================================================================
