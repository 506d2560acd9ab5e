--------------------------- MODULE MCMessageView ---------------------------
EXTENDS MessageView
MCMail == {<<"ann", "html">>, <<"bob", "html">>, <<"bob", "damaged">>}
=============================================================================
