---------------------------- MODULE MCOffsetPages -----------------------------
(* A small instance of OffsetPages: every answer in every order, but the     *)
(* list by priority, which does less than the list by rank (the same order,  *)
(* and no rerank).                                                           *)
EXTENDS OffsetPages

SomeAnswers == AllAnswers \ {<<"list", "priority">>}

OneSentTwice == <<1, 2, 1>>

=============================================================================
