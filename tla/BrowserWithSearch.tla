------------------------- MODULE BrowserWithSearch -------------------------
(***************************************************************************)
(* The browser over the text search of the store: Answers is what          *)
(* RunDeepSearch finds in an archive (internal/app/browser, Store.Deep-    *)
(* Search of internal/canonical/store.go).                                 *)
(***************************************************************************)
EXTENDS Browser, DeepSearch

CONSTANTS
    Archive,  \* a sequence of conversations with what they say
    TermsOf   \* [Queries -> sequences of terms]

StoreDeepSearch(query) == RunDeepSearch(Archive, TermsOf[query], Conversations)

ASSUME AnswersAssumption ==
    Answers = [query \in Queries |-> {found.key : found \in ToSet(StoreDeepSearch(query))}]

(* A list that answers the query shows only conversations that say all of   *)
(* its terms where the reader can see them.                                 *)
ListSaysIt ==
    m.status = "idle" /\ m.applied = m.revision /\ m.query # NoQuery =>
        \A c \in ToSet(Archive) : c.key \in m.visible =>
            \A term \in ToSet(TermsOf[m.query]) : \E text \in SaidIn(c) : term \in Stretches(text)

(* The search answers what its definition gives, and so does the list.      *)
SearchRight == ChunksRight /\ SearchFinds /\ ListSaysIt
=============================================================================
