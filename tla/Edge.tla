-------------------------------- MODULE Edge --------------------------------
(***************************************************************************)
(* What `consoleApi` (http/app.ts) mounts in front of the routes, and in   *)
(* which order: "load-bearing", as the file says of it.  A request walks   *)
(* the mounts of its area from the first, and stays with the first that    *)
(* answers it and does not call next().                                    *)
(*                                                                         *)
(* A request is a method, an area of the paths, where its Origin points,   *)
(* and a body.  What a gate decides from elsewhere comes in as facts:      *)
(* whether the session verifies, and whether the meter has room (Meter).   *)
(***************************************************************************)
EXTENDS Naturals, Sequences

Areas == {"lights", "events", "session", "health", "elsewhere"}

ChangesNothing == {"GET", "HEAD", "OPTIONS"}
Changes(q) == q.method \notin ChangesNothing

On(gate, areas) == [gate |-> gate, areas |-> areas]

(* Mutant: the meters count in the routes, once the body has been parsed.  *)
MountsCountingLate ==
    << On("csrfGuard",      Areas),
       On("requireSession", {"lights", "events"}),
       On("json",           Areas),
       On("meterMutations", {"lights"}),
       On("loginRateLimit", {"session"}),
       On("routes",         Areas),
       On("unservedPath",   Areas) >>

Mounts ==
    << On("csrfGuard",      Areas),
       On("requireSession", {"lights"}),
       On("meterMutations", {"lights"}),
       On("requireSession", {"events"}),
       On("loginRateLimit", {"session"}),
       On("json",           Areas),
       On("routes",         Areas),
       On("unservedPath",   Areas) >>

(* The routes there are. *)
Serves(q) ==
    <<q.method, q.area>> \in
        {<<"GET", "lights">>, <<"PATCH", "lights">>, <<"GET", "events">>,
         <<"POST", "session">>, <<"DELETE", "session">>, <<"GET", "health">>}

(* The gate answers, and nothing mounted after it sees the request. *)
Ends(gate, q, facts) ==
    \/ gate = "csrfGuard"      /\ Changes(q) /\ q.origin # "own"
    \/ gate = "requireSession" /\ ~facts.verified
    \/ gate = "meterMutations" /\ Changes(q) /\ ~facts.room
    \/ gate = "loginRateLimit" /\ q.method = "POST" /\ ~facts.room
    \/ gate = "json"           /\ q.body = "unreadable"
    \/ gate = "routes"         /\ Serves(q)
    \/ gate = "unservedPath"

(* The gates a request gets to. *)
Reached(q, facts) ==
    {Mounts[i].gate : i \in
        {i \in DOMAIN Mounts :
            /\ q.area \in Mounts[i].areas
            /\ \A j \in 1..(i - 1) :
                  q.area \in Mounts[j].areas => ~Ends(Mounts[j].gate, q, facts)}}

EndsAt(gate, q, facts) == gate \in Reached(q, facts) /\ Ends(gate, q, facts)
=============================================================================
