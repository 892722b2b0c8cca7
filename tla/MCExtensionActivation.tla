----------------------- MODULE MCExtensionActivation -----------------------
\* Two extensions for one event; b depends on a.
EXTENDS ExtensionActivation

MCEvents == {"e"}
MCExtensions == {"a", "b"}
MCDependencies == [x \in MCExtensions |-> IF x = "b" THEN <<"a">> ELSE <<>>]
MCActivatedBy == [x \in MCExtensions |-> {"e"}]
=============================================================================
