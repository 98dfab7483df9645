---------------------------- MODULE ChannelBook ----------------------------
(***************************************************************************)
(* What the gateway promises about its channels, whatever tasks, locks and *)
(* lookups it takes to keep the promise: the channels that were ever       *)
(* opened, the guests and the session of each, and the collection of those *)
(* nobody uses.                                                            *)
(***************************************************************************)
CONSTANTS
  Channels,  \* every ChannelState there can be
  Names,     \* channel names
  Clients,   \* who may be in a channel
  Absent     \* the title of a channel that was not opened

VARIABLES
  title,      \* the name each channel was opened for
  collected,  \* the channels the GC has taken
  guests,     \* the clients in each channel
  running     \* the channels that have a session

Opened == {x \in Channels : title[x] # Absent}

Init ==
  /\ title = [x \in Channels |-> Absent]
  /\ collected = {}
  /\ guests = [x \in Channels |-> {}]
  /\ running = {}

\* A name gets a new channel only when every one it had has been collected.
Open(x, n) ==
  /\ x \notin Opened
  /\ \A y \in Opened : title[y] = n => y \in collected
  /\ title' = [title EXCEPT ![x] = n]
  /\ UNCHANGED <<collected, guests, running>>

\* Only a channel without guests and without a session is collected.
Collect(x) ==
  /\ x \in Opened \ (collected \cup running)
  /\ guests[x] = {}
  /\ collected' = collected \cup {x}
  /\ UNCHANGED <<title, guests, running>>

\* A client comes in; if the channel has no session it may get one.  The
\* channel may have been collected by then: Spawn does not look again.
Enter(x, c) ==
  /\ x \in Opened
  /\ guests' = [guests EXCEPT ![x] = @ \cup {c}]
  /\ running' \in {running, running \cup {x}}
  /\ UNCHANGED <<title, collected>>

\* Guests leave; their session stays.
Leave(x, gone) ==
  /\ guests' = [guests EXCEPT ![x] = @ \ gone]
  /\ UNCHANGED <<title, collected, running>>

\* A session ends while the channel is open; its guests stay.
End(x) ==
  /\ x \in running \ collected
  /\ running' = running \ {x}
  /\ UNCHANGED <<title, collected, guests>>

Next == \E x \in Channels :
  \/ \E n \in Names : Open(x, n)
  \/ Collect(x)
  \/ \E c \in Clients : Enter(x, c)
  \/ \E gone \in SUBSET guests[x] : Leave(x, gone)
  \/ End(x)

Spec == Init /\ [][Next]_<<title, collected, guests, running>>
=============================================================================
