---------------------------- MODULE MCRequests ----------------------------
(***************************************************************************)
(* The requests of a small account for TLC.  The invitations, the          *)
(* questions and the public pages of requests share no state that another  *)
(* of them reads here, so a run checks them side by side and not as a      *)
(* product: the first state says which of them moves.  Requests, questions *)
(* and workers are interchangeable.                                        *)
(***************************************************************************)
EXTENDS Invitations, TLC

CONSTANTS
    Questions, NoQuestion, OpenPlaces, RequestsFree, MaxMessages,
    Readers, Addresses, Reads, Files, NoAddress, NoFile, Nobody

VARIABLES
    part,
    item, closed, thread, hand, proved, unsent, unasked, raced,
    held, locked, address, session, page, file, links, sentTo, knew, shown

Q == INSTANCE Questions WITH People <- Workers

G == INSTANCE RecipientPages WITH Browsers <- Readers

\* TLC: each reads a mailbox of their own, which has their name.
OwnMailbox == [b \in Readers |-> {b}]

ASSUME Q!QuestionAssumption /\ G!RecipientAssumption

questionVars == <<item, closed, thread, hand, proved, unsent, unasked, raced>>
pageVars == <<held, locked, address, session, page, file, links, sentTo, knew, shown>>

\* The others rest in a state of their own.
PartInit ==
    /\ Init /\ Q!Init /\ G!Init
    /\ part \in {"invitations", "questions", "pages"}
    /\ part # "invitations" => verified
    /\ part # "questions" => proved
    /\ part # "pages" => ~held /\ ~locked /\ address = CHOOSE a \in Addresses : TRUE

PartNext ==
    \/ part = "invitations" /\ Next /\ UNCHANGED <<part, questionVars, pageVars>>
    \/ part = "questions" /\ Q!Next /\ UNCHANGED <<part, vars, pageVars>>
    \/ part = "pages" /\ G!Next /\ UNCHANGED <<part, vars, questionVars>>

PartSpec == PartInit /\ [][PartNext]_<<part, vars, questionVars, pageVars>>

Symmetry == Permutations(Requests) \cup Permutations(Questions)
            \cup Permutations(Workers)

-----------------------------------------------------------------------------
(* The plan's places for questions; see Questions.                          *)
AskedWithinPlaces == Q!AskedWithinPlaces

(* A question's state is where its conversation stands; see Questions.      *)
StateFollowsThread == Q!StateFollowsThread

(* Whose files a link shows; see RecipientPages.                            *)
FilesForTheirReader == G!FilesForTheirReader
=============================================================================
