---------------------------- MODULE MCConversation ----------------------------
(***************************************************************************)
(* `Conversation` over a new thread, or one an earlier version left, whose *)
(* two searches of one step both numbered their chunks from one.           *)
(***************************************************************************)
EXTENDS Conversation

OldCall(j) == [id |-> <<2, j>>, tool |-> "search_filings"]

OldThread ==
    <<Human, AI(<<OldCall(1), OldCall(2)>>), Reply(OldCall(1), <<1>>),
      Reply(OldCall(2), <<1>>), AI(<<>>)>>

NewOrOld == {<<>>, OldThread}
OnlyNew == {<<>>}
===============================================================================
