------------------------------- MODULE MCFlight -------------------------------
(* Flight for TLC: batches of two rows, pages of up to four. *)
EXTENDS Flight

T(columns, limit, offset) ==
  [known |-> TRUE, boxed |-> TRUE, columns |-> columns, limit |-> limit,
   offset |-> offset]

MCDefault == <<"id", "geometry">>
MCTickets ==
  {T(None, None, None), T(<<"x", "id">>, 4, 1), T(<<"id">>, 0, None),
   T(<<>>, None, None), T(<<"id", "id">>, None, None), T(<<"bad">>, None, None),
   T(None, 5, None), T(None, -1, None), T(None, None, -1)}
    \cup {[T(None, None, None) EXCEPT !.known = FALSE],
          [T(None, None, None) EXCEPT !.boxed = FALSE]}
=============================================================================
