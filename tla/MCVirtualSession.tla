-------------------------- MODULE MCVirtualSession ---------------------------
(* Session files for the runs of VirtualSession. *)
EXTENDS VirtualSession

Archive(entry, enabled, analog, atype, unitsize) ==
  [entry |-> entry, enabled |-> enabled, analog |-> analog, atype |-> atype,
   unitsize |-> unitsize]

L(c, b) == <<<<"L", c>>, b>>
A(b) == <<<<"A", 0>>, b>>
C(base, n) == <<base, n>>

\* Chunks, one of them empty and one longer than a read, and two analog channels.
Chunked ==
  Archive(C(Logic, 1) :> 6 @@ C(Logic, 2) :> 0 @@ C(Logic, 3) :> 2
          @@ C(AnalogBase(1), 1) :> 4 @@ C(AnalogBase(1), 2) :> 6 @@ C(AnalogBase(2), 1) :> 2,
          <<0>>, 2, "analog", 2)
Single == Archive(C(Logic, 0) :> 5, <<0, 1>>, 0, "analog", 1)
PureAnalog == Archive(C(AnalogBase(1), 1) :> 6 @@ C(AnalogBase(2), 1) :> 4, <<>>, 2, "analog", 0)

\* Three channels, which fill a byte and a half, the third without its first
\* block, an empty block, and analog data.
Interleaved ==
  Archive(L(0, 0) :> 2 @@ L(1, 0) :> 2 @@ L(0, 1) :> 0 @@ L(1, 1) :> 0 @@ L(2, 1) :> 0
          @@ L(0, 2) :> 1 @@ L(1, 2) :> 1 @@ L(2, 2) :> 1 @@ A(0) :> 4 @@ A(1) :> 2,
          <<0, 1, 2>>, 2, "analog", 2)
PxvAnalogOnly == Archive(A(0) :> 4 @@ A(1) :> 4, <<>>, 1, "analog", 0)
Missing == Archive([e \in {} |-> 0], <<0>>, 0, "analog", 1)

\* Three DSO channels, the second without a chunk.
Scope == Archive(DsoEntry(0) :> 3 @@ DsoEntry(2) :> 4, <<>>, 3, "dso", 0)

\* Logic data, but no unit size.
NoUnit == Archive(C(Logic, 1) :> 3, <<0>>, 0, "analog", 0)

SomeFiles == {Chunked, Single, PureAnalog, Interleaved, PxvAnalogOnly, Missing, Scope, NoUnit}

ASSUME RegularFiles == \A f \in SomeFiles : Regular(f)
=============================================================================
