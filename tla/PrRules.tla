------------------------------ MODULE PrRules ------------------------------
(***************************************************************************)
(* The pure rules of the pr-bot: how a review moves a PR's review status,  *)
(* how the status is derived anew from GitHub's list of reviews, which     *)
(* emoji a message should carry for the rows of the PRs it links, and who  *)
(* gets a DM.  A row keeps the columns of the table prs that an emoji      *)
(* depends on; of the label categories it keeps "ready", the only one the  *)
(* code treats specially, and merged and closed are one field, life.       *)
(***************************************************************************)
EXTENDS Sequences, SequencesExt

Statuses   == {"none", "commented", "approved", "changes_requested"}
Lives      == {"open", "closed", "merged"}
Row        == [review: Statuses, life: Lives, ready: BOOLEAN, failing: BOOLEAN, resolved: BOOLEAN]
DefaultRow == [review |-> "none", life |-> "open", ready |-> FALSE, failing |-> FALSE, resolved |-> FALSE]

(* A review of GitHub's list: self_comment is a comment of the PR's author, *)
(* which never asks for attention.                                          *)
Reviews == {"approved", "changes_requested", "commented", "self_comment", "dismissed"}

(* The status after one more review, or after the dismissal of one. *)
BugReviewed(status, review) == IF review = "commented" /\ status # "none" THEN status ELSE review
Reviewed(status, review) ==
    CASE review = "dismissed" -> "none"
      [] review \in {"approved", "changes_requested"} -> review
      [] review = "commented" /\ status = "none" -> "commented"
      [] OTHER -> status

(* The status GitHub's list of reviews amounts to. *)
Derived(reviews) == FoldLeft(Reviewed, "none", reviews)
-----------------------------------------------------------------------------
Emoji    == {"approved", "changes", "ready", "checks_failed", "merged", "closed", "question"}
Terminal == {"merged", "closed"}

IsTerminal(row) == row.life \in Terminal
AllTerminal(rows) == \A row \in rows : IsTerminal(row)

NeedsChanges(row) ==
    \/ row.review = "changes_requested"
    \/ row.review = "commented" /\ ~row.resolved

(* The emoji of a message that links PRs with these rows. *)
Desired(rows) ==
    LET open == {row \in rows : ~IsTerminal(row)}
        Shown(emoji) ==
            CASE emoji = "question"      -> rows = {}
              [] emoji = "approved"      -> rows # {} /\ \A row \in rows : row.review = "approved"
              [] emoji = "changes"       -> \E row \in open : NeedsChanges(row)
              [] emoji = "ready"         -> \E row \in open : row.ready
              [] emoji = "checks_failed" -> \E row \in open : row.failing
              [] OTHER                   -> open = {} /\ \E row \in rows : row.life = emoji
    IN {emoji \in Emoji : Shown(emoji)}
-----------------------------------------------------------------------------
Prefs == {"off", "review_comments", "any_review", "all"}
ReviewTransitions == Statuses \ {"none"}
Transitions == ReviewTransitions \cup Terminal \cup {"checks_failed"}

(* Does a user with this preference get a DM for this transition? *)
ShouldDm(pref, transition) ==
    /\ pref # "off"
    /\ \/ transition = "checks_failed" \/ pref = "all"
       \/ transition \in {"approved", "changes_requested"}
       \/ transition = "commented" /\ pref = "any_review"
=============================================================================
