----------------------------- MODULE ChildSetupMC -----------------------------
EXTENDS ChildSetup

MCValues == {<<"a">>, <<"b", "a">>}

\* No PATH at all; PATH and another key, the first of two entries counting.
MCEnvirons ==
  {<<[key |-> "K", value |-> <<"a">>]>>,
   <<[key |-> "PATH", value |-> <<"a">>], [key |-> "K", value |-> <<"b", "a">>],
     [key |-> "PATH", value |-> <<"b", "a">>]>>}
=============================================================================
