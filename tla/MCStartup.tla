------------------------------ MODULE MCStartup ------------------------------
\* Instances of Startup.  In the first list one address has both schemes, and without
\* a certificate https is refused when the listener for http is open already; one
\* address and one peer have four goroutines that can report an error, and errc has
\* three places.  In the second list there are two listeners.
EXTENDS Startup

McUrlLists == {
  <<[addr |-> "a1", scheme |-> "http"], [addr |-> "a1", scheme |-> "https"]>>,
  <<[addr |-> "a1", scheme |-> "https"], [addr |-> "a2", scheme |-> "unix"]>>}
McOneUrl == {<<[addr |-> "a1", scheme |-> "http"]>>}
=============================================================================
