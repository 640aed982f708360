------------------------------ MODULE MCPages ------------------------------
EXTENDS PagesProperties

\* One name that the server stores and one that is too short for it.
MCName == {<<"w", "-", "w">>, <<"x">>}

\* Two payments that the filters tell apart.
MCKind == {[currency |-> "USD", amount |-> 1], [currency |-> "EUR", amount |-> 2]}
=============================================================================
