--------------------------- MODULE MCSubscriptions ---------------------------
(* Two urls whose lists overlap, and every way a list can be refused. The urls
   are alike. *)
EXTENDS Subscriptions, TLC

Alike == Permutations(Urls)

Body(size, encoding, lines) == [kind |-> "body", size |-> size, encoding |-> encoding, lines |-> lines]
MCReplies ==
    {[NoReply EXCEPT !.kind = "error"], [NoReply EXCEPT !.kind = "notModified"],
     Body(1, "plain", <<"a", "", "b">>), Body(1, "base64", <<"b">>),
     Body(1, "plain", <<"a", Junk>>), Body(2, "plain", <<"a">>), Body(1, "other", <<"a">>),
     Body(1, "plain", <<"a", "b", "a">>)}
=============================================================================
