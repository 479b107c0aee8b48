------------------------------ MODULE HostProofs ------------------------------
(***************************************************************************)
(* Proofs about module Host: the pins that devices hold, the identity they *)
(* know the server by, and the files of the state directory, whatever is   *)
(* killed and whoever runs at the same time.                               *)
(***************************************************************************)
EXTENDS Host, FiniteSetTheorems, TLAPS

---------------------------------------------------------------------------
\* The inductive invariant

\* The sub-steps of a step that takes several.
SaveSteps == {"save", "write_config"}
IdentitySteps == {"identity", "truncate_identity", "write_identity"}
ResignSteps == {"resign", "truncate_cert", "rewrite_cert"}
TlsSteps == {"tls", "read_cert", "read_key", "write_key", "write_cert"}
LastSteps == {"idle", "bind", "hand_out", "service_mode"}

\* Where a command can be: its step, and the steps after it.
Positions ==
    ({"config"} \X {Tail(StartServer), Tail(CmdPairOpen), Tail(CmdDoctor),
                    Tail(CmdCertRotateLeaf)})
    \cup ({"unused"} \X {Tail(CmdInit)})
    \cup ({"prefill"} \X {Tail(Onboard)})
    \cup ({"form"} \X {<<"save", "identity", "tls", "service_mode">>})
    \cup (SaveSteps \X {<<"identity", "tls">>, <<"identity", "tls", "service_mode">>})
    \cup (IdentitySteps \X {<<"tls", "bind">>, <<"tls">>, <<"tls", "service_mode">>})
    \cup (ResignSteps \X {<<"tls">>})
    \cup (TlsSteps \X {<<"bind">>, <<"hand_out">>, <<"service_mode">>, << >>})
    \cup (LastSteps \X {<< >>})

Steps == {"config", "unused", "prefill", "form"} \cup SaveSteps \cup IdentitySteps
            \cup ResignSteps \cup TlsSteps \cup LastSteps

Remainders ==
    {<<"identity", "tls", "bind">>, <<"tls", "hand_out">>, <<"tls">>, <<"resign", "tls">>,
     <<"save", "identity", "tls">>, <<"form", "save", "identity", "tls", "service_mode">>,
     <<"save", "identity", "tls", "service_mode">>, <<"identity", "tls">>,
     <<"identity", "tls", "service_mode">>, <<"tls", "bind">>, <<"tls", "service_mode">>,
     <<"bind">>, <<"hand_out">>, <<"service_mode">>, << >>}

TlsKind == {"self", "external"}
KeysOf(tls) == IF tls = "self" THEN Keys ELSE ExtKeys

Records == [step : Steps, todo : Remainders, cfg : Configs \cup {Absent},
            id : Ids \cup {Absent}, pem : Keys \cup ExtKeys \cup {Absent}]

ServerRecords == [listen : {c.listen : c \in Configs}, tls : TlsKind,
                  key : Keys \cup ExtKeys, id : Ids]

\* What the steps a command has behind it have left in its record.
Sound(r) ==
    /\ r \in Records
    /\ <<r.step, r.todo>> \in Positions
    /\ r.step \notin {"idle", "config", "unused", "prefill"} => r.cfg \in Configs
    /\ r.step \in {"truncate_identity", "write_identity"} => r.id \in Ids
    /\ r.step = "bind" \/ r.todo = <<"bind">> => r.id \in Ids
    /\ r.step \in {"write_key", "write_cert", "truncate_cert", "rewrite_cert"}
        => r.cfg.tls = "self" /\ r.pem \in Keys
    /\ r.step \in {"read_key", "bind", "hand_out"} => r.pem \in KeysOf(r.cfg.tls)

Shapes ==
    /\ run \in [Procs -> Records]
    /\ \A p \in Procs : Sound(run[p])
    /\ server \in [Servers -> ServerRecords \cup {Off}]
    /\ ids \subseteq Ids

\* Two processes that write the same files at once are remembered.
Alone ==
    \A f \in {"tls", "identity"} :
        f \notin raced => \A p, q \in Writing(f) : p = q

\* A key is replaced only before there is a certificate for it, and only
\* what has been read as a pair is pinned or served.
TlsRecord(r) ==
    /\ r.step = "write_key" => cert = Absent
    /\ r.step = "write_cert" => cert = Absent /\ key = r.pem
    /\ r.step \in {"truncate_cert", "rewrite_cert"} => key = r.pem
    /\ r.step \in {"read_key", "bind", "hand_out"} /\ r.cfg.tls = "self"
        => cert # Absent /\ key = r.pem

TlsSafe ==
    "tls" \notin raced =>
        /\ cert \in {Absent, Torn, key}
        /\ cert # Absent => key # Absent
        /\ \A p \in Procs : TlsRecord(run[p])
        /\ \A p \in Servers : server[p] # Off /\ server[p].tls = "self"
                              => cert # Absent /\ key = server[p].key
        /\ \A pin \in pins \cap Keys : cert # Absent /\ key = pin

\* An identity is written only where none is, and kept in memory only as it
\* is on disk.
IdRecord(r) ==
    /\ r.step = "truncate_identity" => identity = Absent
    /\ r.step = "write_identity" => identity = Torn
    /\ r.id = Absent \/ r.step \in {"truncate_identity", "write_identity"} \/ r.id = identity

IdSafe ==
    "identity" \notin raced =>
        /\ ids \subseteq {identity}
        /\ \A p \in Procs : IdRecord(run[p])

\* An unreadable file has a writer, or had one that was killed.
Whole ==
    /\ config = Torn => "config" \in damaged \/ \E p \in Procs : At(p, "write_config")
    /\ identity = Torn => "identity" \in damaged \/ \E p \in Procs : At(p, "write_identity")
    /\ cert = Torn => "cert" \in damaged \/ \E p \in Procs : At(p, "rewrite_cert")

FileTypes ==
    /\ config \in Configs \cup {Absent, Torn}
    /\ identity \in Ids \cup {Absent, Torn}
    /\ key \in Keys \cup {Absent}
    /\ cert \in Keys \cup {Absent, Torn}
    /\ ext \in ExtKeys

ServerTypes ==
    \A p \in Servers : server[p] # Off =>
        /\ server[p].id \in Ids
        /\ server[p].key \in KeysOf(server[p].tls)

UiTypes ==
    /\ open \in BOOLEAN /\ wanted \in BOOLEAN /\ shown \in BOOLEAN
    /\ run["tui"] # Idle \/ server["tui"] # Off \/ closing # {} => open
    /\ manager \in Managers
    /\ raced \subseteq {"tls", "identity"}
    /\ damaged \subseteq {"config", "identity", "cert"}
    /\ mishaps \in 0..MaxMishaps

IInv ==
    /\ FileTypes /\ ServerTypes /\ UiTypes /\ Shapes
    /\ Alone /\ TlsSafe /\ IdSafe /\ Whole

---------------------------------------------------------------------------
\* Programs and records

\* The programs begin with their first step, and Tail is what is left.
LEMMA Programs ==
    /\ Head(StartServer) = "config" /\ Tail(StartServer) = <<"identity", "tls", "bind">>
    /\ Head(CmdInit) = "unused" /\ Tail(CmdInit) = <<"save", "identity", "tls">>
    /\ Head(CmdPairOpen) = "config" /\ Tail(CmdPairOpen) = <<"tls", "hand_out">>
    /\ Head(CmdDoctor) = "config" /\ Tail(CmdDoctor) = <<"tls">>
    /\ Head(CmdCertShow) = "config" /\ Tail(CmdCertShow) = <<"tls">>
    /\ Head(CmdCertRotateLeaf) = "config" /\ Tail(CmdCertRotateLeaf) = <<"resign", "tls">>
    /\ Head(Onboard) = "prefill"
    /\ Tail(Onboard) = <<"form", "save", "identity", "tls", "service_mode">>
BY DEF StartServer, CmdInit, CmdPairOpen, CmdDoctor, CmdCertShow, CmdCertRotateLeaf, Onboard

\* What is left after the later steps.
LEMMA Rests ==
    /\ Head(<<"form", "save", "identity", "tls", "service_mode">>) = "form"
    /\ Tail(<<"form", "save", "identity", "tls", "service_mode">>)
         = <<"save", "identity", "tls", "service_mode">>
    /\ Head(<<"save", "identity", "tls", "service_mode">>) = "save"
    /\ Tail(<<"save", "identity", "tls", "service_mode">>)
         = <<"identity", "tls", "service_mode">>
    /\ Head(<<"save", "identity", "tls">>) = "save"
    /\ Tail(<<"save", "identity", "tls">>) = <<"identity", "tls">>
    /\ Head(<<"identity", "tls", "service_mode">>) = "identity"
    /\ Tail(<<"identity", "tls", "service_mode">>) = <<"tls", "service_mode">>
    /\ Head(<<"identity", "tls", "bind">>) = "identity"
    /\ Tail(<<"identity", "tls", "bind">>) = <<"tls", "bind">>
    /\ Head(<<"identity", "tls">>) = "identity" /\ Tail(<<"identity", "tls">>) = <<"tls">>
    /\ Head(<<"resign", "tls">>) = "resign" /\ Tail(<<"resign", "tls">>) = <<"tls">>
    /\ Head(<<"tls", "service_mode">>) = "tls"
    /\ Tail(<<"tls", "service_mode">>) = <<"service_mode">>
    /\ Head(<<"tls", "bind">>) = "tls" /\ Tail(<<"tls", "bind">>) = <<"bind">>
    /\ Head(<<"tls", "hand_out">>) = "tls" /\ Tail(<<"tls", "hand_out">>) = <<"hand_out">>
    /\ Head(<<"tls">>) = "tls" /\ Tail(<<"tls">>) = << >>
    /\ Head(<<"bind">>) = "bind" /\ Tail(<<"bind">>) = << >>
    /\ Head(<<"hand_out">>) = "hand_out" /\ Tail(<<"hand_out">>) = << >>
    /\ Head(<<"service_mode">>) = "service_mode" /\ Tail(<<"service_mode">>) = << >>
OBVIOUS

\* What can be left at each step.
LEMMA Todo ==
    ASSUME NEW r, <<r.step, r.todo>> \in Positions
    PROVE  /\ r.step = "config" =>
                r.todo \in {<<"identity", "tls", "bind">>, <<"tls", "hand_out">>, <<"tls">>,
                            <<"resign", "tls">>}
           /\ r.step = "unused" => r.todo = <<"save", "identity", "tls">>
           /\ r.step = "prefill" => r.todo = <<"form", "save", "identity", "tls", "service_mode">>
           /\ r.step = "form" => r.todo = <<"save", "identity", "tls", "service_mode">>
           /\ r.step \in SaveSteps =>
                r.todo \in {<<"identity", "tls">>, <<"identity", "tls", "service_mode">>}
           /\ r.step \in IdentitySteps =>
                r.todo \in {<<"tls", "bind">>, <<"tls">>, <<"tls", "service_mode">>}
           /\ r.step \in ResignSteps => r.todo = <<"tls">>
           /\ r.step \in TlsSteps =>
                r.todo \in {<<"bind">>, <<"hand_out">>, <<"service_mode">>, << >>}
           /\ r.step \in LastSteps => r.todo = << >>
<1> DEFINE s == r.step
           t == r.todo
<1>1. /\ s = "config" => t \in {Tail(StartServer), Tail(CmdPairOpen), Tail(CmdDoctor),
                               Tail(CmdCertRotateLeaf)}
      /\ s = "unused" => t = Tail(CmdInit)
      /\ s = "prefill" => t = Tail(Onboard)
      /\ s = "form" => t = <<"save", "identity", "tls", "service_mode">>
  BY DEF Positions, SaveSteps, IdentitySteps, ResignSteps, TlsSteps, LastSteps
<1>2. /\ s \in SaveSteps =>
           t \in {<<"identity", "tls">>, <<"identity", "tls", "service_mode">>}
      /\ s \in IdentitySteps => t \in {<<"tls", "bind">>, <<"tls">>, <<"tls", "service_mode">>}
      /\ s \in ResignSteps => t = <<"tls">>
  BY DEF Positions, SaveSteps, IdentitySteps, ResignSteps, TlsSteps, LastSteps
<1>3. /\ s \in TlsSteps => t \in {<<"bind">>, <<"hand_out">>, <<"service_mode">>, << >>}
      /\ s \in LastSteps => t = << >>
  BY DEF Positions, SaveSteps, IdentitySteps, ResignSteps, TlsSteps, LastSteps
<1> QED BY <1>1, <1>2, <1>3, Programs

\* Only the steps on the certificate are followed by the bind alone.
LEMMA BindNext ==
    ASSUME NEW r, <<r.step, r.todo>> \in Positions, r.todo = <<"bind">>
    PROVE  r.step \in TlsSteps
<1>1. /\ <<"identity", "tls", "bind">> # <<"bind">> /\ <<"tls", "hand_out">> # <<"bind">>
      /\ <<"tls">> # <<"bind">> /\ <<"resign", "tls">> # <<"bind">>
      /\ <<"save", "identity", "tls">> # <<"bind">>
      /\ <<"form", "save", "identity", "tls", "service_mode">> # <<"bind">>
  OBVIOUS
<1>2. /\ <<"save", "identity", "tls", "service_mode">> # <<"bind">>
      /\ <<"identity", "tls">> # <<"bind">>
      /\ <<"identity", "tls", "service_mode">> # <<"bind">>
      /\ <<"tls", "bind">> # <<"bind">>
      /\ <<"tls", "service_mode">> # <<"bind">> /\ << >> # <<"bind">>
  OBVIOUS
<1>3. r.step \in Steps
  BY DEF Positions, Steps
<1> QED BY <1>1, <1>2, <1>3, Todo DEF Steps

\* The converse: these pairs are positions.
LEMMA Places ==
    /\ \A t \in {<<"identity", "tls", "bind">>, <<"tls", "hand_out">>, <<"tls">>,
                 <<"resign", "tls">>} : <<"config", t>> \in Positions
    /\ <<"unused", <<"save", "identity", "tls">> >> \in Positions
    /\ <<"prefill", <<"form", "save", "identity", "tls", "service_mode">> >> \in Positions
    /\ <<"form", <<"save", "identity", "tls", "service_mode">> >> \in Positions
    /\ \A s \in SaveSteps :
         \A t \in {<<"identity", "tls">>, <<"identity", "tls", "service_mode">>} :
            <<s, t>> \in Positions
    /\ \A s \in IdentitySteps :
         \A t \in {<<"tls", "bind">>, <<"tls">>, <<"tls", "service_mode">>} : <<s, t>> \in Positions
    /\ \A s \in ResignSteps : <<s, <<"tls">> >> \in Positions
    /\ \A s \in TlsSteps :
         \A t \in {<<"bind">>, <<"hand_out">>, <<"service_mode">>, << >>} : <<s, t>> \in Positions
    /\ \A s \in LastSteps : <<s, << >> >> \in Positions
BY Programs DEF Positions

\* The two halves of a position.
LEMMA PlaceTypes ==
    ASSUME NEW s, NEW t, <<s, t>> \in Positions
    PROVE  s \in Steps /\ t \in Remainders
<1>1. s \in Steps
  BY DEF Positions, Steps
<1> DEFINE r == [step |-> s, todo |-> t]
<1>2. r.step = s /\ r.todo = t
  OBVIOUS
<1>3. <<r.step, r.todo>> \in Positions
  BY <1>2
<1> HIDE DEF r
<1>4. t \in Remainders
  BY <1>1, <1>2, <1>3, Todo DEF Steps, Remainders
<1> QED BY <1>1, <1>4

\* A process that does nothing.
LEMMA IdleSound ==
    /\ Sound(Idle) /\ Idle.step = "idle" /\ Idle.id = Absent
    /\ Idle \in Records
<1>1. <<Idle.step, Idle.todo>> \in Positions
  BY Places DEF Idle, LastSteps
<1>2. Idle \in Records
  BY <1>1, PlaceTypes DEF Idle, Records
<1>3. /\ Idle.step = "idle" /\ Idle.id = Absent
      /\ Idle.todo # <<"bind">>
  BY DEF Idle
<1> QED BY <1>1, <1>2, <1>3 DEF Sound

StartSteps == {"config", "unused", "prefill"}
Commands == {StartServer, CmdInit, CmdPairOpen, CmdDoctor, CmdCertShow, CmdCertRotateLeaf, Onboard}

\* A command that begins.
LEMMA StartedSound ==
    ASSUME NEW program \in Commands
    PROVE  /\ Sound(Started(program))
           /\ Started(program).step \in StartSteps /\ Started(program).id = Absent
<1> DEFINE r == Started(program)
<1>1. /\ Head(program) \in StartSteps
      /\ <<Head(program), Tail(program)>> \in Positions
      /\ Tail(program) # <<"bind">>
  <2>1. /\ <<"identity", "tls", "bind">> # <<"bind">> /\ <<"tls", "hand_out">> # <<"bind">>
        /\ <<"tls">> # <<"bind">> /\ <<"resign", "tls">> # <<"bind">>
        /\ <<"save", "identity", "tls">> # <<"bind">>
        /\ <<"form", "save", "identity", "tls", "service_mode">> # <<"bind">>
    OBVIOUS
  <2>2. /\ Tail(program) # <<"bind">>
        /\ Head(program) \in StartSteps
    BY <2>1, Programs DEF Commands, StartSteps
  <2>3. <<Head(program), Tail(program)>> \in Positions
    BY Programs, Places DEF Commands
  <2> QED BY <2>2, <2>3
<1>2. /\ r.step = Head(program) /\ r.todo = Tail(program) /\ r.cfg = Absent
      /\ r.id = Absent /\ r.pem = Absent
  BY DEF Started, Idle
<1>3. r \in Records
  BY <1>1, PlaceTypes DEF Started, Idle, Records
<1>4. Sound(r)
  <2> HIDE DEF r
  <2> QED BY <1>1, <1>2, <1>3 DEF Sound, StartSteps
<1> QED BY <1>1, <1>2, <1>4

\* A step that is not the last one is followed by the next.
LEMMA Advance ==
    ASSUME NEW r \in Records, <<r.step, r.todo>> \in Positions, r.todo # << >>
    PROVE  /\ <<Returned(r).step, Returned(r).todo>> \in Positions
           /\ Returned(r) \in Records
           /\ Returned(r).cfg = r.cfg /\ Returned(r).id = r.id /\ Returned(r).pem = r.pem
           /\ Returned(r).step \in {"identity", "tls", "resign", "save", "form", "bind",
                                    "hand_out", "service_mode"}
           /\ Returned(r).step \in {"bind", "hand_out"} => r.step \in TlsSteps
           /\ Returned(r).step = "bind" => r.todo = <<"bind">>
           /\ Returned(r).todo = <<"bind">> => r.step \in IdentitySteps
<1> DEFINE s == Head(r.todo)
           t == Tail(r.todo)
<1>1. /\ Returned(r) = [r EXCEPT !.step = s, !.todo = t]
      /\ Returned(r).step = s /\ Returned(r).todo = t
      /\ Returned(r).cfg = r.cfg /\ Returned(r).id = r.id /\ Returned(r).pem = r.pem
  BY DEF Returned, Records
<1>2. r.step \in Steps
  BY PlaceTypes
<1>3. <<s, t>> \in Positions /\ s \in Steps
      /\ (s \in {"bind", "hand_out"} => r.step \in TlsSteps)
      /\ (s = "bind" => r.todo = <<"bind">>)
      /\ (t = <<"bind">> => r.step \in IdentitySteps)
      /\ s \in {"identity", "tls", "resign", "save", "form", "bind", "hand_out", "service_mode"}
  <2>1. CASE r.step = "config"
    <3>1. <<"tls", "bind">> # <<"bind">> /\ <<"hand_out">> # <<"bind">>
          /\ << >> # <<"bind">> /\ <<"tls">> # <<"bind">>
      OBVIOUS
    <3>2. <<s, t>> \in {<<"identity", <<"tls", "bind">> >>, <<"tls", <<"hand_out">> >>,
                       <<"tls", << >> >>, <<"resign", <<"tls">> >>}
      BY <2>1, Todo, Rests
    <3>3. <<s, t>> \in Positions
      BY <3>2, Places DEF IdentitySteps, TlsSteps, ResignSteps
    <3> HIDE DEF s, t
    <3>4. s \in {"identity", "tls", "resign"} /\ t # <<"bind">>
      BY <3>1, <3>2
    <3> QED BY <3>3, <3>4, PlaceTypes
  <2>2. CASE r.step \in {"unused", "prefill", "form"}
    BY <2>2, Todo, Rests, Places
    DEF Steps, SaveSteps, IdentitySteps, ResignSteps, TlsSteps, LastSteps
  <2>3. CASE r.step \in SaveSteps
    BY <2>3, Todo, Rests, Places
    DEF Steps, SaveSteps, IdentitySteps, ResignSteps, TlsSteps, LastSteps
  <2>4. CASE r.step \in IdentitySteps
    BY <2>4, Todo, Rests, Places
    DEF Steps, SaveSteps, IdentitySteps, ResignSteps, TlsSteps, LastSteps
  <2>5. CASE r.step \in ResignSteps
    <3>1. s = "tls" /\ t = << >> /\ << >> # <<"bind">>
      BY <2>5, Todo, Rests
    <3>2. <<s, t>> \in Positions
      BY <3>1, Places DEF TlsSteps
    <3> QED BY <3>1, <3>2, PlaceTypes
  <2>6. CASE r.step \in TlsSteps
    <3>1. /\ s \in {"bind", "hand_out", "service_mode"} /\ t = << >>
          /\ s = "bind" => r.todo = <<"bind">>
      BY <2>6, Todo, Rests
    <3>2. << >> # <<"bind">>
      OBVIOUS
    <3>3. <<s, t>> \in Positions
      BY <3>1, Places DEF LastSteps
    <3> HIDE DEF s, t
    <3> QED BY <2>6, <3>1, <3>2, <3>3, PlaceTypes
  <2>7. CASE r.step \in LastSteps
    BY <2>7, Todo
  <2> QED BY <1>2, <2>1, <2>2, <2>3, <2>4, <2>5, <2>6, <2>7 DEF Steps
<1>4. t \in Remainders
  BY <1>3, PlaceTypes
<1> HIDE DEF s, t
<1>5. Returned(r) \in Records
  BY <1>1, <1>3, <1>4 DEF Records
<1> QED BY <1>1, <1>3, <1>5

InnerSteps == {"truncate_identity", "write_identity", "write_key", "write_cert", "truncate_cert",
          "rewrite_cert", "read_key", "write_config"}

\* What a step has to leave behind for the record to be sound when it returns.
LEMMA ReturnedSound ==
    ASSUME NEW r \in Records, <<r.step, r.todo>> \in Positions,
           r.cfg \in Configs,
           r.step \in IdentitySteps => r.id \in Ids,
           r.todo = <<"bind">> => r.id \in Ids,
           r.step \in TlsSteps => r.pem \in KeysOf(r.cfg.tls)
    PROVE  /\ Sound(Returned(r))
           /\ Returned(r).step \notin InnerSteps
           /\ Returned(r).step \in {"bind", "hand_out"} =>
                r.step \in TlsSteps /\ Returned(r).pem = r.pem /\ Returned(r).cfg = r.cfg
           /\ Returned(r).id \in {r.id, Absent}
<1>1. CASE r.todo = << >>
  BY <1>1, IdleSound DEF Returned, InnerSteps
<1>2. CASE r.todo # << >>
  <2> DEFINE n == Returned(r)
  <2>1. /\ <<n.step, n.todo>> \in Positions
        /\ n \in Records
        /\ n.cfg = r.cfg /\ n.id = r.id /\ n.pem = r.pem
        /\ n.step \in {"identity", "tls", "resign", "save", "form", "bind", "hand_out",
                       "service_mode"}
        /\ n.step \in {"bind", "hand_out"} => r.step \in TlsSteps
        /\ n.step = "bind" => r.todo = <<"bind">>
        /\ n.todo = <<"bind">> => r.step \in IdentitySteps
    BY <1>2, Advance
  <2> HIDE DEF n
  <2>2. n.step \notin InnerSteps
    BY <2>1 DEF InnerSteps
  <2>3. Sound(n)
    BY <2>1 DEF Sound
  <2>4. n.id \in {r.id, Absent}
        /\ (n.step \in {"bind", "hand_out"} =>
              r.step \in TlsSteps /\ n.pem = r.pem /\ n.cfg = r.cfg)
    BY <2>1
  <2> QED BY <2>2, <2>3, <2>4 DEF n
<1> QED BY <1>1, <1>2

---------------------------------------------------------------------------
\* Overlapping writers

\* A set of processes with at most one member.
LEMMA AtMostOne ==
    ASSUME NEW S \in SUBSET Procs, ~(Cardinality(S) > 1), NEW p \in S, NEW q \in S
    PROVE  p = q
<1>1. IsFiniteSet(S)
  <2>1. IsFiniteSet(Procs)
    <3>1. IsFiniteSet({"tui"}) /\ IsFiniteSet({"cli"}) /\ IsFiniteSet({"service"})
      BY FS_Singleton
    <3>2. IsFiniteSet({"tui"} \cup {"cli"})
      BY <3>1, FS_Union
    <3>3. IsFiniteSet(({"tui"} \cup {"cli"}) \cup {"service"})
      BY <3>1, <3>2, FS_Union
    <3> QED BY <3>3 DEF Procs
  <2> QED BY <2>1, FS_Subset
<1>2. SUFFICES ASSUME p # q PROVE FALSE
  OBVIOUS
<1>3. /\ IsFiniteSet(S \ {p}) /\ Cardinality(S \ {p}) = Cardinality(S) - 1
      /\ Cardinality(S) \in Nat /\ Cardinality(S \ {p}) \in Nat
  BY <1>1, FS_RemoveElement, FS_CardinalityType
<1>4. Cardinality(S \ {p}) = 0
  BY <1>3
<1>5. S \ {p} = {}
  BY <1>3, <1>4, FS_EmptySet
<1> QED BY <1>2, <1>5

\* raced remembers every overlap.
LEMMA Races ==
    ASSUME raced' = raced \cup Overlaps'
    PROVE  Alone'
<1> SUFFICES ASSUME NEW f \in {"tls", "identity"}, f \notin raced',
                    NEW p \in Writing(f)', NEW q \in Writing(f)'
             PROVE  p = q
  BY DEF Alone
<1>1. ~(Cardinality(Writing(f)') > 1)
  BY DEF Overlaps
<1>2. Writing(f)' \subseteq Procs
  BY DEF Writing
<1> QED BY <1>1, <1>2, AtMostOne

\* Without an overlap, a writer of the key pair is the only one.
LEMMA OneTlsWriter ==
    ASSUME Alone, "tls" \notin raced, NEW p \in Procs, NEW q \in Procs,
           run[p].step \in {"write_key", "write_cert", "truncate_cert", "rewrite_cert"},
           run[q].step \in {"write_key", "write_cert", "truncate_cert", "rewrite_cert"}
    PROVE  p = q
BY DEF Alone, Writing

\* And so is a writer of the identity.
LEMMA OneIdWriter ==
    ASSUME Alone, "identity" \notin raced, NEW p \in Procs, NEW q \in Procs,
           run[p].step \in {"truncate_identity", "write_identity"},
           run[q].step \in {"truncate_identity", "write_identity"}
    PROVE  p = q
BY DEF Alone, Writing

\* Hurt names the file that is being written.
LEMMA HurtNames ==
    ASSUME NEW p \in Procs
    PROVE  /\ Hurt(p) \subseteq {"config", "identity", "cert"}
           /\ At(p, "write_config") => "config" \in Hurt(p)
           /\ At(p, "write_identity") => "identity" \in Hurt(p)
           /\ At(p, "rewrite_cert") => "cert" \in Hurt(p)
           /\ run[p].step \notin {"write_config", "write_identity", "rewrite_cert"} => Hurt(p) = {}
<1>1. CASE At(p, "write_config")
  BY <1>1 DEF Hurt, At
<1>2. CASE At(p, "write_identity")
  BY <1>2 DEF Hurt, At
<1>3. CASE At(p, "rewrite_cert")
  BY <1>3 DEF Hurt, At
<1>4. CASE ~At(p, "write_config") /\ ~At(p, "write_identity") /\ ~At(p, "rewrite_cert")
  BY <1>4 DEF Hurt, At
<1> QED BY <1>1, <1>2, <1>3, <1>4

---------------------------------------------------------------------------
\* Two kinds of steps that most actions are

\* A process reads something and goes on, with a record that is right.
LEMMA ReadingKeeps ==
    ASSUME IInv, raced' = raced \cup Overlaps', NEW p \in Procs, NEW r,
           run' = [run EXCEPT ![p] = r], Sound(r),
           "tls" \notin raced => TlsRecord(r), "identity" \notin raced => IdRecord(r),
           run[p].step \notin {"idle", "write_config", "write_identity", "rewrite_cert"},
           UNCHANGED <<files, server, ui, service, history, mishaps>>
    PROVE  IInv'
<1>1. /\ run'[p] = r
      /\ \A q \in Procs : q # p => run'[q] = run[q]
      /\ \A q \in Procs : Sound(run'[q])
      /\ run' \in [Procs -> Records]
  BY DEF IInv, Shapes, Sound
<1>2. UNCHANGED <<config, identity, key, cert, ext, server, open, closing, shown, manager,
                  wanted, pins, ids, damaged, mishaps>>
  BY DEF files, ui, service, history
<1>3. FileTypes' /\ ServerTypes'
  BY <1>2 DEF IInv, FileTypes, ServerTypes
<1>4. UiTypes'
  <2>1. run["tui"] = Idle => run'["tui"] = Idle
    BY <1>1, IdleSound DEF Procs
  <2> QED BY <1>2, <2>1 DEF IInv, UiTypes, Overlaps
<1>5. Shapes'
  BY <1>1, <1>2 DEF IInv, Shapes
<1>6. TlsSafe'
  <2> SUFFICES ASSUME "tls" \notin raced, NEW q \in Procs PROVE TlsRecord(run[q])'
    BY <1>2 DEF IInv, TlsSafe
  <2>1. CASE q = p
    BY <2>1, <1>1, <1>2 DEF TlsRecord
  <2>2. CASE q # p
    BY <2>2, <1>1, <1>2 DEF IInv, TlsSafe, TlsRecord
  <2> QED BY <2>1, <2>2
<1>7. IdSafe'
  <2> SUFFICES ASSUME "identity" \notin raced, NEW q \in Procs PROVE IdRecord(run[q])'
    BY <1>2 DEF IInv, IdSafe
  <2>1. CASE q = p
    BY <2>1, <1>1, <1>2 DEF IdRecord
  <2>2. CASE q # p
    BY <2>2, <1>1, <1>2 DEF IInv, IdSafe, IdRecord
  <2> QED BY <2>1, <2>2
<1>8. Whole'
  <2>1. \A q \in Procs, s \in {"write_config", "write_identity", "rewrite_cert"} :
           run[q].step = s => run'[q].step = s
    BY <1>1
  <2> QED BY <1>2, <2>1 DEF IInv, Whole, At
<1> QED BY <1>3, <1>4, <1>5, <1>6, <1>7, <1>8, Races DEF IInv

\* Processes end or begin, servers stop, and no file changes; a process that
\* was writing leaves its mark.
LEMMA TurnoverKeeps ==
    ASSUME IInv, raced' = raced \cup Overlaps',
           run' \in [Procs -> Records],
           \A p \in Procs : \/ run'[p] = run[p]
                            \/ /\ Sound(run'[p])
                               /\ run'[p].step \in StartSteps \cup {"idle"}
                               /\ run'[p].id = Absent
                               /\ Hurt(p) \subseteq damaged',
           server' \in [Servers -> ServerRecords \cup {Off}],
           \A p \in Servers : server'[p] = server[p] \/ server'[p] = Off,
           damaged \subseteq damaged',
           UNCHANGED <<files, pins, ids>>,
           UiTypes'
    PROVE  IInv'
<1>1. UNCHANGED <<config, identity, key, cert, ext, pins, ids>>
  BY DEF files
<1>2. FileTypes' /\ ServerTypes' /\ Shapes'
  BY <1>1 DEF IInv, FileTypes, ServerTypes, Shapes
<1>3. TlsSafe'
  <2> SUFFICES ASSUME "tls" \notin raced
               PROVE  /\ \A p \in Procs : TlsRecord(run[p])'
                      /\ \A p \in Servers : server'[p] # Off /\ server'[p].tls = "self"
                              => cert # Absent /\ key = server'[p].key
    BY <1>1 DEF IInv, TlsSafe
  <2>1. ASSUME NEW p \in Procs PROVE TlsRecord(run[p])'
    <3>1. CASE run'[p] = run[p]
      BY <1>1, <3>1 DEF IInv, TlsSafe, TlsRecord
    <3>2. CASE run'[p].step \in StartSteps \cup {"idle"}
      BY <3>2 DEF TlsRecord, StartSteps
    <3> QED BY <3>1, <3>2
  <2>2. ASSUME NEW p \in Servers, server'[p] # Off, server'[p].tls = "self"
        PROVE  cert # Absent /\ key = server'[p].key
    BY <2>2 DEF IInv, TlsSafe
  <2> QED BY <2>1, <2>2
<1>4. IdSafe'
  <2> SUFFICES ASSUME "identity" \notin raced, NEW p \in Procs PROVE IdRecord(run[p])'
    BY <1>1 DEF IInv, IdSafe
  <2>1. CASE run'[p] = run[p]
    BY <1>1, <2>1 DEF IInv, IdSafe, IdRecord
  <2>2. CASE run'[p].step \in StartSteps \cup {"idle"} /\ run'[p].id = Absent
    BY <2>2 DEF IdRecord, StartSteps
  <2> QED BY <2>1, <2>2
<1>5. Whole'
  BY <1>1, HurtNames DEF IInv, Whole, At
<1> QED BY <1>2, <1>3, <1>4, <1>5, Races DEF IInv

---------------------------------------------------------------------------
\* Steps that read

\* An error ends the command, and in onboarding the interface.
LEMMA FailKeeps ==
    ASSUME IInv, raced' = raced \cup Overlaps', NEW p \in Procs, Fail(p),
           run[p].step \notin {"idle", "write_config", "write_identity", "rewrite_cert"},
           UNCHANGED <<files, service, history, mishaps>>
    PROVE  IInv'
<1>1. /\ run' = [run EXCEPT ![p] = Idle]
      /\ \/ /\ p = "tui" /\ open' = FALSE /\ closing' = {} /\ shown' = shown
            /\ server' = [server EXCEPT ![p] = Off]
         \/ UNCHANGED <<server, open, closing, shown>>
  BY DEF Fail, ui
<1>2. UNCHANGED <<manager, wanted, pins, ids, damaged, mishaps>>
  BY DEF service, history
<1>3. /\ run' \in [Procs -> Records]
      /\ run'[p] = Idle /\ \A q \in Procs : q # p => run'[q] = run[q]
  BY <1>1, IdleSound DEF IInv, Shapes
<1>4. /\ server' \in [Servers -> ServerRecords \cup {Off}]
      /\ \A q \in Servers : server'[q] = server[q] \/ server'[q] = Off
      /\ p = "tui" /\ open' = FALSE => server'["tui"] = Off \/ UNCHANGED server
  BY <1>1 DEF IInv, Shapes, Servers
<1>5. UiTypes'
  <2>1. run'["tui"] # Idle => run["tui"] # Idle
    BY <1>3 DEF Procs
  <2>2. CASE UNCHANGED <<server, open, closing, shown>>
    BY <1>2, <2>1, <2>2 DEF IInv, UiTypes, Overlaps
  <2>3. CASE /\ p = "tui" /\ open' = FALSE /\ closing' = {} /\ shown' = shown
             /\ server' = [server EXCEPT ![p] = Off]
    <3>1. run'["tui"] = Idle /\ server'["tui"] = Off
      BY <2>3, <1>3 DEF IInv, Shapes, Servers
    <3> QED BY <3>1, <2>3, <1>2 DEF IInv, UiTypes, Overlaps
  <2> QED BY <1>1, <2>2, <2>3
<1>6. Hurt(p) = {}
  BY HurtNames
<1> QED BY <1>2, <1>3, <1>4, <1>5, <1>6, IdleSound, TurnoverKeeps

\* A step that only fills in fields of its record and returns.
LEMMA ReturnKeeps ==
    ASSUME IInv, raced' = raced \cup Overlaps', NEW p \in Procs, NEW r \in Records,
           run' = [run EXCEPT ![p] = Returned(r)],
           r.step = run[p].step, r.todo = run[p].todo, r.cfg \in Configs,
           r.step \in IdentitySteps => r.id \in Ids,
           r.todo = <<"bind">> => r.id \in Ids,
           r.step \in TlsSteps => r.pem \in KeysOf(r.cfg.tls),
           "tls" \notin raced /\ r.step \in TlsSteps /\ r.cfg.tls = "self"
             => cert # Absent /\ key = r.pem,
           "identity" \notin raced => r.id \in {Absent, identity},
           run[p].step \notin {"idle", "write_config", "write_identity", "rewrite_cert"},
           UNCHANGED <<files, server, ui, service, history, mishaps>>
    PROVE  IInv'
<1> DEFINE n == Returned(r)
<1>1. /\ Sound(n)
      /\ n.step \notin InnerSteps
      /\ n.step \in {"bind", "hand_out"} =>
           r.step \in TlsSteps /\ n.pem = r.pem /\ n.cfg = r.cfg
      /\ n.id \in {r.id, Absent}
  BY ReturnedSound DEF IInv, Shapes, Sound
<1>2. run' = [run EXCEPT ![p] = n]
  OBVIOUS
<1> HIDE DEF n
<1>3. "tls" \notin raced => TlsRecord(n)
  BY <1>1 DEF TlsRecord, InnerSteps
<1>4. "identity" \notin raced => IdRecord(n)
  BY <1>1 DEF IdRecord, InnerSteps
<1> QED BY <1>1, <1>2, <1>3, <1>4, ReadingKeeps

\* The configuration a command goes on with.
LEMMA ConfigKeeps ==
    ASSUME IInv, raced' = raced \cup Overlaps', NEW p \in Procs, NEW c \in Configs,
           run[p].step \in StartSteps,
           run' = [run EXCEPT ![p] = Returned([run[p] EXCEPT !.cfg = c])],
           UNCHANGED <<files, server, ui, service, history, mishaps>>
    PROVE  IInv'
<1> DEFINE r == [run[p] EXCEPT !.cfg = c]
<1>1. /\ r \in Records /\ r.step = run[p].step /\ r.todo = run[p].todo /\ r.cfg = c
      /\ r.id = run[p].id
  BY DEF IInv, Shapes, Records
<1>2. r.todo # <<"bind">>
  BY <1>1, BindNext DEF IInv, Shapes, Sound, TlsSteps, StartSteps
<1>3. "identity" \notin raced => r.id \in {Absent, identity}
  BY <1>1 DEF IInv, IdSafe, IdRecord, StartSteps
<1>4. run' = [run EXCEPT ![p] = Returned(r)]
  OBVIOUS
<1> HIDE DEF r
<1> QED BY <1>1, <1>2, <1>3, <1>4, ReturnKeeps DEF IdentitySteps, TlsSteps, StartSteps

\* load_config, the refusal of init and the form of onboarding.
LEMMA ConfigStepsKeep ==
    ASSUME IInv, raced' = raced \cup Overlaps', NEW p \in Procs,
           LoadConfig(p) \/ RefuseInitialized(p) \/ PrefillFromConfig(p)
    PROVE  IInv'
<1>1. CASE LoadConfig(p)
  BY <1>1, FailKeeps, ConfigKeeps DEF LoadConfig, At, StartSteps
<1>2. CASE RefuseInitialized(p)
  BY <1>2, FailKeeps, ConfigKeeps DEF RefuseInitialized, At, StartSteps
<1>3. CASE PrefillFromConfig(p)
  BY <1>3, FailKeeps, ConfigKeeps DEF PrefillFromConfig, At, StartSteps
<1> QED BY <1>1, <1>2, <1>3

\* The form is confirmed.
LEMMA ConfirmKeeps ==
    ASSUME IInv, raced' = raced \cup Overlaps', NEW p \in Procs, ConfirmWriteConfig(p)
    PROVE  IInv'
<1> DEFINE r == run[p]
<1>1. /\ r \in Records /\ r.step = "form" /\ r.cfg \in Configs
      /\ <<r.step, r.todo>> \in Positions
  BY DEF ConfirmWriteConfig, At, IInv, Shapes, Sound
<1>2. r.todo # <<"bind">>
  BY <1>1, BindNext DEF TlsSteps
<1>3. "identity" \notin raced => r.id \in {Absent, identity}
  BY <1>1 DEF IInv, IdSafe, IdRecord
<1>4. /\ run' = [run EXCEPT ![p] = Returned(r)]
      /\ UNCHANGED <<files, server, ui, service, history, mishaps>>
      /\ r.step = run[p].step /\ r.todo = run[p].todo
  BY DEF ConfirmWriteConfig, Return
<1> HIDE DEF r
<1> QED BY <1>1, <1>2, <1>3, <1>4, ReturnKeeps DEF IdentitySteps, TlsSteps

\* load_or_create_identity decides to write only where there is no file.
LEMMA LoadOrCreateIdentityKeeps ==
    ASSUME IInv, raced' = raced \cup Overlaps', NEW p \in Procs, LoadOrCreateIdentity(p)
    PROVE  IInv'
<1>1. /\ run[p].step = "identity" /\ Sound(run[p]) /\ run[p] \in Records
      /\ run \in [Procs -> Records]
      /\ run[p].todo # <<"bind">>
  BY BindNext DEF LoadOrCreateIdentity, At, IInv, Shapes, Sound, TlsSteps
<1>2. CASE identity = Torn /\ Fail(p) /\ UNCHANGED <<files, service, history, mishaps>>
  BY <1>1, <1>2, FailKeeps
<1>3. CASE /\ identity \in Ids
           /\ run' = [run EXCEPT ![p] = Returned([run[p] EXCEPT !.id = identity])]
           /\ UNCHANGED <<files, server, ui, service, history, mishaps>>
  <2> DEFINE r == [run[p] EXCEPT !.id = identity]
  <2>1. /\ r \in Records /\ r.step = "identity" /\ r.todo = run[p].todo /\ r.id = identity
        /\ r.cfg = run[p].cfg
    BY <1>1, <1>3 DEF Records
  <2>2. run' = [run EXCEPT ![p] = Returned(r)]
    BY <1>3
  <2>3. r.cfg \in Configs
    BY <1>1, <2>1 DEF Sound
  <2> HIDE DEF r
  <2> QED BY <1>1, <1>3, <2>1, <2>2, <2>3, ReturnKeeps DEF TlsSteps
<1>4. ASSUME identity = Absent, NEW i \in Ids,
             run' = [run EXCEPT ![p].id = i, ![p].step = "truncate_identity"],
             UNCHANGED <<files, server, ui, service, history, mishaps>>
      PROVE  IInv'
  <2> DEFINE r == [run[p] EXCEPT !.id = i, !.step = "truncate_identity"]
  <2>1. /\ r \in Records /\ r.step = "truncate_identity" /\ r.todo = run[p].todo /\ r.id = i
        /\ r.cfg = run[p].cfg
    BY <1>1 DEF Records, Steps, IdentitySteps
  <2>2. run' = [run EXCEPT ![p] = r]
    BY <1>1, <1>4
  <2> HIDE DEF r
  <2>3. <<r.step, r.todo>> \in Positions
    BY <1>1, <2>1, Todo, Places DEF Sound, IdentitySteps
  <2>4. Sound(r)
    BY <1>1, <2>1, <2>3 DEF Sound
  <2>5. TlsRecord(r) /\ IdRecord(r)
    BY <2>1, <1>4 DEF TlsRecord, IdRecord
  <2> QED BY <1>1, <1>4, <2>2, <2>4, <2>5, ReadingKeeps
<1> QED BY <1>2, <1>3, <1>4 DEF LoadOrCreateIdentity, FreshIds

\* load_or_create decides for a new key only where there is no certificate.
LEMMA LoadTlsKeeps ==
    ASSUME IInv, raced' = raced \cup Overlaps', NEW p \in Procs, LoadTls(p)
    PROVE  IInv'
<1>1. /\ run[p].step = "tls" /\ Sound(run[p]) /\ run[p] \in Records
      /\ run \in [Procs -> Records]
      /\ "identity" \notin raced => IdRecord(run[p])
      /\ UNCHANGED <<files, server, ui, service, history, mishaps>>
  BY DEF LoadTls, At, IInv, Shapes, IdSafe
<1>2. CASE run' = [run EXCEPT ![p].step = "read_cert"]
  <2> DEFINE r == [run[p] EXCEPT !.step = "read_cert"]
  <2>1. /\ r \in Records /\ r.step = "read_cert" /\ r.todo = run[p].todo
        /\ r.id = run[p].id /\ r.cfg = run[p].cfg
    BY <1>1 DEF Records, Steps, TlsSteps
  <2>2. run' = [run EXCEPT ![p] = r]
    BY <1>1, <1>2
  <2> HIDE DEF r
  <2>3. <<r.step, r.todo>> \in Positions
    BY <1>1, <2>1, Todo, Places DEF Sound, TlsSteps
  <2>4. Sound(r)
    BY <1>1, <2>1, <2>3 DEF Sound
  <2>5. TlsRecord(r) /\ ("identity" \notin raced => IdRecord(r))
    BY <1>1, <2>1 DEF TlsRecord, IdRecord
  <2> QED BY <1>1, <2>2, <2>4, <2>5, ReadingKeeps
<1>3. ASSUME ~(run[p].cfg.tls = "external" \/ (key # Absent /\ cert # Absent)),
             NEW k \in Keys,
             run' = [run EXCEPT ![p].pem = k, ![p].step = "write_key"]
      PROVE  IInv'
  <2> DEFINE r == [run[p] EXCEPT !.pem = k, !.step = "write_key"]
  <2>1. /\ r \in Records /\ r.step = "write_key" /\ r.todo = run[p].todo
        /\ r.id = run[p].id /\ r.cfg = run[p].cfg /\ r.pem = k
    BY <1>1 DEF Records, Steps, TlsSteps
  <2>2. run' = [run EXCEPT ![p] = r]
    BY <1>1, <1>3
  <2> HIDE DEF r
  <2>3. <<r.step, r.todo>> \in Positions
    BY <1>1, <2>1, Todo, Places DEF Sound, TlsSteps
  <2>4. r.cfg \in Configs /\ r.cfg.tls = "self"
    BY <1>1, <1>3, <2>1, HostAssumption DEF Sound
  <2>5. Sound(r)
    BY <1>1, <2>1, <2>3, <2>4 DEF Sound
  <2>6. /\ "tls" \notin raced => TlsRecord(r)
        /\ "identity" \notin raced => IdRecord(r)
    BY <1>1, <1>3, <2>1, <2>4 DEF TlsRecord, IdRecord, IInv, TlsSafe
  <2> QED BY <1>1, <2>2, <2>5, <2>6, ReadingKeeps
<1> QED BY <1>2, <1>3 DEF LoadTls, FreshKeys

\* from_pem_files, first half: a certificate that parses is one for the key.
LEMMA ReadCertKeeps ==
    ASSUME IInv, raced' = raced \cup Overlaps', NEW p \in Procs, ReadCert(p)
    PROVE  IInv'
<1>1. /\ run[p].step = "read_cert" /\ Sound(run[p]) /\ run[p] \in Records
      /\ run \in [Procs -> Records] /\ run[p].cfg \in Configs
      /\ "identity" \notin raced => IdRecord(run[p])
      /\ UNCHANGED <<files, service, history, mishaps>>
  BY DEF ReadCert, At, IInv, Shapes, IdSafe, Sound
<1> DEFINE file == CertFile(run[p].cfg)
<1>2. CASE file \in {Absent, Torn}
  BY <1>1, <1>2, FailKeeps DEF ReadCert
<1>3. CASE file \notin {Absent, Torn}
  <2> DEFINE r == [run[p] EXCEPT !.pem = file, !.step = "read_key"]
  <2>1. file \in KeysOf(run[p].cfg.tls)
    BY <1>1, <1>3, HostAssumption DEF CertFile, KeysOf, IInv, FileTypes
  <2>2. "tls" \notin raced /\ run[p].cfg.tls = "self" => cert # Absent /\ key = file
    BY <1>3 DEF CertFile, IInv, TlsSafe
  <2>3. /\ run' = [run EXCEPT ![p].pem = file, ![p].step = "read_key"]
        /\ UNCHANGED <<server, ui>>
    BY <1>3 DEF ReadCert
  <2> HIDE DEF file
  <2>4. /\ r \in Records /\ r.step = "read_key" /\ r.todo = run[p].todo
        /\ r.id = run[p].id /\ r.cfg = run[p].cfg /\ r.pem = file
    BY <1>1, <2>1 DEF Records, Steps, TlsSteps, KeysOf
  <2>5. run' = [run EXCEPT ![p] = r]
    BY <1>1, <2>3
  <2> HIDE DEF r
  <2>6. <<r.step, r.todo>> \in Positions
    BY <1>1, <2>4, Todo, Places DEF Sound, TlsSteps
  <2>7. Sound(r)
    BY <1>1, <2>1, <2>4, <2>6 DEF Sound
  <2>8. /\ "tls" \notin raced => TlsRecord(r)
        /\ "identity" \notin raced => IdRecord(r)
    BY <1>1, <2>2, <2>4 DEF TlsRecord, IdRecord
  <2> QED BY <1>1, <2>3, <2>5, <2>7, <2>8, ReadingKeeps
<1> QED BY <1>2, <1>3

\* from_pem_files, second half: the key belongs to the certificate.
LEMMA ReadKeyKeeps ==
    ASSUME IInv, raced' = raced \cup Overlaps', NEW p \in Procs, ReadKey(p)
    PROVE  IInv'
<1>1. /\ run[p].step = "read_key" /\ Sound(run[p]) /\ run[p] \in Records
      /\ UNCHANGED <<files, service, history, mishaps>>
  BY DEF ReadKey, At, IInv, Shapes
<1>2. CASE KeyFile(run[p].cfg) # run[p].pem
  BY <1>1, <1>2, FailKeeps DEF ReadKey
<1>3. CASE KeyFile(run[p].cfg) = run[p].pem
  <2>1. run' = [run EXCEPT ![p] = Returned(run[p])] /\ UNCHANGED <<server, ui>>
    BY <1>3 DEF ReadKey, Return
  <2>2. /\ "tls" \notin raced /\ run[p].cfg.tls = "self" => cert # Absent /\ key = run[p].pem
        /\ "identity" \notin raced => run[p].id \in {Absent, identity}
    BY <1>1 DEF IInv, TlsSafe, TlsRecord, IdSafe, IdRecord
  <2>3. /\ run[p].cfg \in Configs
        /\ run[p].todo = <<"bind">> => run[p].id \in Ids
        /\ run[p].pem \in KeysOf(run[p].cfg.tls)
    BY <1>1 DEF Sound
  <2> QED BY <1>1, <2>1, <2>2, <2>3, ReturnKeeps DEF IdentitySteps
<1> QED BY <1>2, <1>3

\* cert rotate-leaf takes the key that is on disk.
LEMMA ReadKeyToSignKeeps ==
    ASSUME IInv, raced' = raced \cup Overlaps', NEW p \in Procs, ReadKeyToSign(p)
    PROVE  IInv'
<1>1. /\ run[p].step = "resign" /\ Sound(run[p]) /\ run[p] \in Records
      /\ run \in [Procs -> Records]
      /\ "identity" \notin raced => IdRecord(run[p])
      /\ UNCHANGED <<files, service, history, mishaps>>
  BY DEF ReadKeyToSign, At, IInv, Shapes, IdSafe
<1>2. CASE ~(run[p].cfg.tls = "self" /\ key \in Keys)
  BY <1>1, <1>2, FailKeeps DEF ReadKeyToSign
<1>3. CASE run[p].cfg.tls = "self" /\ key \in Keys
  <2> DEFINE r == [run[p] EXCEPT !.pem = key, !.step = "truncate_cert"]
  <2>1. /\ r \in Records /\ r.step = "truncate_cert" /\ r.todo = run[p].todo
        /\ r.id = run[p].id /\ r.cfg = run[p].cfg /\ r.pem = key
    BY <1>1, <1>3 DEF Records, Steps, ResignSteps
  <2>2. /\ run' = [run EXCEPT ![p] = r]
        /\ UNCHANGED <<server, ui>>
    BY <1>1, <1>3 DEF ReadKeyToSign
  <2> HIDE DEF r
  <2>3. <<r.step, r.todo>> \in Positions
    BY <1>1, <2>1, Todo, Places DEF Sound, ResignSteps
  <2>4. Sound(r)
    BY <1>1, <1>3, <2>1, <2>3 DEF Sound
  <2>5. TlsRecord(r) /\ ("identity" \notin raced => IdRecord(r))
    BY <1>1, <2>1 DEF TlsRecord, IdRecord
  <2> QED BY <1>1, <2>2, <2>4, <2>5, ReadingKeeps
<1> QED BY <1>2, <1>3

---------------------------------------------------------------------------
\* Steps that write

\* The second half of a write follows the first.
LEMMA SubStep ==
    ASSUME IInv, NEW p \in Procs, NEW s, run' = [run EXCEPT ![p].step = s],
           \/ run[p].step = "save" /\ s = "write_config"
           \/ run[p].step = "truncate_identity" /\ s = "write_identity"
           \/ run[p].step = "write_key" /\ s = "write_cert"
           \/ run[p].step = "truncate_cert" /\ s = "rewrite_cert"
    PROVE  /\ run' \in [Procs -> Records]
           /\ \A q \in Procs : q # p => run'[q] = run[q]
           /\ \A q \in Procs : Sound(run'[q])
           /\ run'[p].step = s /\ run'[p].cfg = run[p].cfg
           /\ run'[p].id = run[p].id /\ run'[p].pem = run[p].pem
<1> DEFINE r == [run[p] EXCEPT !.step = s]
<1>1. /\ run \in [Procs -> Records] /\ run[p] \in Records
      /\ \A q \in Procs : Sound(run[q])
  BY DEF IInv, Shapes
<1>2. /\ r \in Records /\ r.step = s /\ r.todo = run[p].todo
      /\ r.id = run[p].id /\ r.cfg = run[p].cfg /\ r.pem = run[p].pem
  BY <1>1 DEF Records, Steps, SaveSteps, IdentitySteps, TlsSteps, ResignSteps
<1>3. /\ run' \in [Procs -> Records]
      /\ run'[p] = r /\ \A q \in Procs : q # p => run'[q] = run[q]
  BY <1>1, <1>2
<1> HIDE DEF r
<1>4. <<r.step, r.todo>> \in Positions
  BY <1>1, <1>2, Todo, Places DEF Sound, SaveSteps, IdentitySteps, TlsSteps, ResignSteps
<1>5. Sound(r)
  BY <1>1, <1>2, <1>4 DEF Sound
<1> QED BY <1>1, <1>2, <1>3, <1>5

\* A write, a pin handed out or a bind returns.
LEMMA WriterReturns ==
    ASSUME IInv, NEW p \in Procs, Return(p),
           run[p].step \in {"write_config", "write_identity", "write_cert", "rewrite_cert",
                            "hand_out", "bind"}
    PROVE  /\ run' \in [Procs -> Records]
           /\ \A q \in Procs : q # p => run'[q] = run[q]
           /\ \A q \in Procs : Sound(run'[q])
           /\ run'[p].step \notin InnerSteps
           /\ run'[p].step \in {"bind", "hand_out"} =>
                run[p].step = "write_cert" /\ run'[p].pem = run[p].pem
           /\ run'[p].id \in {run[p].id, Absent}
<1> DEFINE r == run[p]
           n == Returned(r)
<1>1. /\ run \in [Procs -> Records] /\ r \in Records
      /\ \A q \in Procs : Sound(run[q])
  BY DEF IInv, Shapes
<1>2. /\ <<r.step, r.todo>> \in Positions
      /\ r.cfg \in Configs
      /\ r.step \in IdentitySteps => r.id \in Ids
      /\ r.todo = <<"bind">> => r.id \in Ids
      /\ r.step \in TlsSteps => r.pem \in KeysOf(r.cfg.tls)
  BY <1>1 DEF Sound, IdentitySteps, TlsSteps, KeysOf
<1>3. /\ Sound(n)
      /\ n.step \notin InnerSteps
      /\ n.step \in {"bind", "hand_out"} => r.step \in TlsSteps /\ n.pem = r.pem
      /\ n.id \in {r.id, Absent}
  BY <1>1, <1>2, ReturnedSound
<1>4. run' = [run EXCEPT ![p] = n]
  BY DEF Return
<1> HIDE DEF n
<1>5. n \in Records
  BY <1>3 DEF Sound
<1>6. /\ run' \in [Procs -> Records]
      /\ run'[p] = n /\ \A q \in Procs : q # p => run'[q] = run[q]
  BY <1>1, <1>4, <1>5
<1> QED BY <1>1, <1>3, <1>6 DEF TlsSteps

\* A step of a running process does not open or close the interface.
LEMMA UiKeeps ==
    ASSUME IInv, raced' = raced \cup Overlaps', NEW p \in Procs, run[p].step # "idle",
           \A q \in Procs : q # p => run'[q] = run[q],
           server'["tui"] # Off => server["tui"] # Off \/ p = "tui",
           damaged' \subseteq damaged,
           UNCHANGED <<ui, service, mishaps>>
    PROVE  UiTypes'
<1>1. p = "tui" => run["tui"] # Idle
  BY IdleSound
<1>2. run'["tui"] # Idle => run["tui"] # Idle
  BY <1>1 DEF Procs
<1> QED BY <1>1, <1>2 DEF IInv, UiTypes, ui, service, Overlaps

\* save_config.
LEMMA SaveConfigKeeps ==
    ASSUME IInv, raced' = raced \cup Overlaps', NEW p \in Procs,
           TruncateConfig(p) \/ WriteConfig(p)
    PROVE  IInv'
<1>1. /\ run[p].step \in SaveSteps
      /\ UNCHANGED <<identity, key, cert, ext, server, ui, service, pins, ids, mishaps>>
  BY DEF TruncateConfig, WriteConfig, At, SaveSteps, history
<1>2. /\ run' \in [Procs -> Records]
      /\ \A q \in Procs : q # p => run'[q] = run[q]
      /\ \A q \in Procs : Sound(run'[q])
      /\ run'[p].step \notin InnerSteps \ {"write_config"} /\ run'[p].step \notin {"bind", "hand_out"}
      /\ run'[p].id \in {run[p].id, Absent}
  <2>1. CASE TruncateConfig(p)
    <3>1. run[p].step = "save" /\ run' = [run EXCEPT ![p].step = "write_config"]
      BY <2>1 DEF TruncateConfig, At
    <3>2. /\ run' \in [Procs -> Records]
          /\ \A q \in Procs : q # p => run'[q] = run[q]
          /\ \A q \in Procs : Sound(run'[q])
          /\ run'[p].step = "write_config" /\ run'[p].id = run[p].id
      BY <3>1, SubStep
    <3> QED BY <3>2 DEF InnerSteps
  <2>2. CASE WriteConfig(p)
    BY <2>2, WriterReturns DEF WriteConfig, At
  <2> QED BY <2>1, <2>2
<1>3. config' \in Configs \cup {Torn} /\ damaged' \subseteq damaged
  <2>1. run[p].cfg \in Configs
    BY <1>1 DEF IInv, Shapes, Sound, SaveSteps
  <2> QED BY <2>1 DEF TruncateConfig, WriteConfig, history
<1>4. FileTypes' /\ ServerTypes' /\ Shapes'
  BY <1>1, <1>2, <1>3 DEF IInv, FileTypes, ServerTypes, Shapes
<1>5. UiTypes'
  BY <1>1, <1>2, <1>3, UiKeeps DEF SaveSteps
<1>6. TlsSafe'
  <2> SUFFICES ASSUME "tls" \notin raced, NEW q \in Procs PROVE TlsRecord(run[q])'
    BY <1>1 DEF IInv, TlsSafe
  <2> QED BY <1>1, <1>2 DEF IInv, TlsSafe, TlsRecord, InnerSteps
<1>7. IdSafe'
  <2> SUFFICES ASSUME "identity" \notin raced, NEW q \in Procs PROVE IdRecord(run[q])'
    BY <1>1 DEF IInv, IdSafe
  <2> QED BY <1>1, <1>2 DEF IInv, IdSafe, IdRecord, InnerSteps, SaveSteps
<1>8. Whole'
  <2>1. /\ \A q \in Procs : q # p => run'[q] = run[q]
        /\ run[p].step \notin {"write_identity", "rewrite_cert"}
    BY <1>1, <1>2 DEF SaveSteps
  <2>2. /\ "identity" \in damaged => "identity" \in damaged'
        /\ "cert" \in damaged => "cert" \in damaged'
    BY DEF TruncateConfig, WriteConfig, history
  <2>3. config' = Torn => At(p, "write_config")'
    <3>1. CASE TruncateConfig(p)
      BY <3>1, SubStep DEF TruncateConfig, At
    <3>2. CASE WriteConfig(p)
      <4>1. run[p].cfg \in Configs
        BY <1>1 DEF IInv, Shapes, Sound, SaveSteps
      <4> QED BY <4>1, <3>2, HostAssumption DEF WriteConfig
    <3> QED BY <3>1, <3>2
  <2> QED BY <1>1, <2>1, <2>2, <2>3 DEF IInv, Whole, At
<1> QED BY <1>4, <1>5, <1>6, <1>7, <1>8, Races DEF IInv

\* save_identity, first half: the file did not exist, and nobody has an id.
LEMMA TruncateIdentityKeeps ==
    ASSUME IInv, raced' = raced \cup Overlaps', NEW p \in Procs, TruncateIdentity(p)
    PROVE  IInv'
<1>1. /\ run[p].step = "truncate_identity" /\ identity' = Torn
      /\ run' = [run EXCEPT ![p].step = "write_identity"]
      /\ UNCHANGED <<config, key, cert, ext, server, ui, service, pins, ids, damaged, mishaps>>
  BY DEF TruncateIdentity, At, history
<1>2. /\ run' \in [Procs -> Records]
      /\ \A q \in Procs : q # p => run'[q] = run[q]
      /\ \A q \in Procs : Sound(run'[q])
      /\ run'[p].step = "write_identity" /\ run'[p].id = run[p].id
  BY <1>1, SubStep
<1>3. FileTypes' /\ ServerTypes' /\ Shapes'
  BY <1>1, <1>2 DEF IInv, FileTypes, ServerTypes, Shapes
<1>4. UiTypes'
  BY <1>1, <1>2, UiKeeps
<1>5. TlsSafe'
  <2> SUFFICES ASSUME "tls" \notin raced, NEW q \in Procs PROVE TlsRecord(run[q])'
    BY <1>1 DEF IInv, TlsSafe
  <2> QED BY <1>1, <1>2 DEF IInv, TlsSafe, TlsRecord
<1>6. IdSafe'
  <2> SUFFICES ASSUME "identity" \notin raced
               PROVE  ids = {} /\ \A q \in Procs : IdRecord(run[q])'
    BY <1>1 DEF IdSafe
  <2>1. identity = Absent
    BY <1>1 DEF IInv, IdSafe, IdRecord
  <2>2. ids = {}
    BY <2>1, HostAssumption DEF IInv, IdSafe, Shapes
  <2>3. ASSUME NEW q \in Procs, q # p PROVE IdRecord(run[q])'
    <3>1. run[q].step \notin {"truncate_identity", "write_identity"}
      BY <1>1, <2>3, OneIdWriter DEF IInv
    <3>2. run[q].id = Absent
      BY <2>1, <3>1 DEF IInv, IdSafe, IdRecord
    <3> QED BY <1>2, <2>3, <3>1, <3>2 DEF IdRecord
  <2>4. IdRecord(run[p])'
    BY <1>1, <1>2 DEF IdRecord
  <2> QED BY <2>2, <2>3, <2>4
<1>7. Whole'
  BY <1>1, <1>2 DEF IInv, Whole, At
<1> QED BY <1>3, <1>4, <1>5, <1>6, <1>7, Races DEF IInv

\* save_identity, second half: the process has the id that it writes.
LEMMA WriteIdentityKeeps ==
    ASSUME IInv, raced' = raced \cup Overlaps', NEW p \in Procs, WriteIdentity(p)
    PROVE  IInv'
<1>1. /\ run[p].step = "write_identity" /\ identity' = run[p].id
      /\ Return(p) /\ damaged' = damaged \ {"identity"}
      /\ UNCHANGED <<config, key, cert, ext, server, ui, service, pins, ids, mishaps>>
  BY DEF WriteIdentity, At
<1>2. /\ run' \in [Procs -> Records]
      /\ \A q \in Procs : q # p => run'[q] = run[q]
      /\ \A q \in Procs : Sound(run'[q])
      /\ run'[p].step \notin InnerSteps \cup {"bind", "hand_out"}
      /\ run'[p].id \in {run[p].id, Absent}
  BY <1>1, WriterReturns
<1>3. run[p].id \in Ids
  BY <1>1 DEF IInv, Shapes, Sound
<1>4. FileTypes' /\ ServerTypes' /\ Shapes'
  BY <1>1, <1>2, <1>3 DEF IInv, FileTypes, ServerTypes, Shapes
<1>5. UiTypes'
  BY <1>1, <1>2, UiKeeps
<1>6. TlsSafe'
  <2> SUFFICES ASSUME "tls" \notin raced, NEW q \in Procs PROVE TlsRecord(run[q])'
    BY <1>1 DEF IInv, TlsSafe
  <2> QED BY <1>1, <1>2 DEF IInv, TlsSafe, TlsRecord, InnerSteps
<1>7. IdSafe'
  <2> SUFFICES ASSUME "identity" \notin raced
               PROVE  ids = {} /\ \A q \in Procs : IdRecord(run[q])'
    BY <1>1 DEF IdSafe
  <2>1. identity = Torn
    BY <1>1 DEF IInv, IdSafe, IdRecord
  <2>2. ids = {}
    BY <2>1, HostAssumption DEF IInv, IdSafe, Shapes
  <2>3. ASSUME NEW q \in Procs, q # p PROVE IdRecord(run[q])'
    <3>1. run[q].step \notin {"truncate_identity", "write_identity"}
      BY <1>1, <2>3, OneIdWriter DEF IInv
    <3>2. run[q].id \in Ids \cup {Absent}
      BY DEF IInv, Shapes, Records
    <3>3. run[q].id = Absent
      BY <2>1, <3>1, <3>2, HostAssumption DEF IInv, IdSafe, IdRecord
    <3> QED BY <1>2, <2>3, <3>1, <3>3 DEF IdRecord
  <2>4. IdRecord(run[p])'
    BY <1>1, <1>2 DEF IdRecord, InnerSteps
  <2> QED BY <2>2, <2>3, <2>4
<1>8. Whole'
  <2>1. identity' # Torn
    BY <1>1, <1>3, HostAssumption
  <2> QED BY <1>1, <1>2, <2>1 DEF IInv, Whole, At
<1> QED BY <1>4, <1>5, <1>6, <1>7, <1>8, Races DEF IInv

\* A new key is written while there is no certificate, no pin and no server
\* that presents another.
LEMMA WriteKeyKeeps ==
    ASSUME IInv, raced' = raced \cup Overlaps', NEW p \in Procs, WriteKey(p)
    PROVE  IInv'
<1>1. /\ run[p].step = "write_key" /\ key' = run[p].pem
      /\ run' = [run EXCEPT ![p].step = "write_cert"]
      /\ UNCHANGED <<config, identity, cert, ext, server, ui, service, pins, ids, damaged, mishaps>>
  BY DEF WriteKey, At, history
<1>2. /\ run' \in [Procs -> Records]
      /\ \A q \in Procs : q # p => run'[q] = run[q]
      /\ \A q \in Procs : Sound(run'[q])
      /\ run'[p].step = "write_cert" /\ run'[p].id = run[p].id /\ run'[p].pem = run[p].pem
  BY <1>1, SubStep
<1>3. run[p].pem \in Keys
  BY <1>1 DEF IInv, Shapes, Sound
<1>4. FileTypes' /\ ServerTypes' /\ Shapes'
  BY <1>1, <1>2, <1>3 DEF IInv, FileTypes, ServerTypes, Shapes
<1>5. UiTypes'
  BY <1>1, <1>2, UiKeeps
<1>6. TlsSafe'
  <2> SUFFICES ASSUME "tls" \notin raced PROVE TlsSafe'
    BY DEF TlsSafe
  <2>1. cert = Absent
    BY <1>1 DEF IInv, TlsSafe, TlsRecord
  <2>2. /\ \A q \in Servers : ~(server[q] # Off /\ server[q].tls = "self")
        /\ pins \cap Keys = {}
    BY <2>1 DEF IInv, TlsSafe
  <2>3. ASSUME NEW q \in Procs, q # p PROVE TlsRecord(run[q])'
    <3>1. run[q].step \notin {"write_key", "write_cert", "truncate_cert", "rewrite_cert"}
      BY <1>1, <2>3, OneTlsWriter DEF IInv
    <3>2. ~(run[q].step \in {"read_key", "bind", "hand_out"} /\ run[q].cfg.tls = "self")
      BY <2>1 DEF IInv, TlsSafe, TlsRecord
    <3> QED BY <1>2, <2>3, <3>1, <3>2 DEF TlsRecord
  <2>4. TlsRecord(run[p])'
    BY <1>1, <1>2, <2>1 DEF TlsRecord
  <2> QED BY <1>1, <2>1, <2>2, <2>3, <2>4 DEF TlsSafe
<1>7. IdSafe'
  <2> SUFFICES ASSUME "identity" \notin raced, NEW q \in Procs PROVE IdRecord(run[q])'
    BY <1>1 DEF IInv, IdSafe
  <2> QED BY <1>1, <1>2 DEF IInv, IdSafe, IdRecord
<1>8. Whole'
  BY <1>1, <1>2 DEF IInv, Whole, At
<1> QED BY <1>4, <1>5, <1>6, <1>7, <1>8, Races DEF IInv

\* Only the key on disk gets a certificate.
LEMMA CertWrittenKeeps ==
    ASSUME IInv, raced' = raced \cup Overlaps', NEW p \in Procs,
           WriteCert(p) \/ RewriteCert(p)
    PROVE  IInv'
<1>1. /\ run[p].step \in {"write_cert", "rewrite_cert"} /\ cert' = run[p].pem
      /\ Return(p) /\ damaged' = damaged \ {"cert"}
      /\ UNCHANGED <<config, identity, key, ext, server, ui, service, pins, ids, mishaps>>
  BY DEF WriteCert, RewriteCert, At
<1>2. /\ run' \in [Procs -> Records]
      /\ \A q \in Procs : q # p => run'[q] = run[q]
      /\ \A q \in Procs : Sound(run'[q])
      /\ run'[p].step \notin InnerSteps
      /\ run'[p].step \in {"bind", "hand_out"} => run'[p].pem = run[p].pem
      /\ run'[p].id \in {run[p].id, Absent}
  BY <1>1, WriterReturns
<1>3. run[p].pem \in Keys /\ run[p].pem \notin {Absent, Torn}
  BY <1>1, HostAssumption DEF IInv, Shapes, Sound
<1>4. FileTypes' /\ ServerTypes' /\ Shapes'
  BY <1>1, <1>2, <1>3 DEF IInv, FileTypes, ServerTypes, Shapes
<1>5. UiTypes'
  BY <1>1, <1>2, UiKeeps
<1>6. TlsSafe'
  <2> SUFFICES ASSUME "tls" \notin raced PROVE TlsSafe'
    BY DEF TlsSafe
  <2>1. key = run[p].pem
    BY <1>1 DEF IInv, TlsSafe, TlsRecord
  <2>2. ASSUME NEW q \in Procs, q # p PROVE TlsRecord(run[q])'
    <3>1. run[q].step \notin {"write_key", "write_cert", "truncate_cert", "rewrite_cert"}
      BY <1>1, <2>2, OneTlsWriter DEF IInv
    <3> QED BY <1>1, <1>2, <1>3, <2>2, <3>1 DEF IInv, TlsSafe, TlsRecord
  <2>3. TlsRecord(run[p])'
    BY <1>1, <1>2, <1>3, <2>1 DEF TlsRecord, InnerSteps
  <2> QED BY <1>1, <1>3, <2>1, <2>2, <2>3 DEF IInv, TlsSafe
<1>7. IdSafe'
  <2> SUFFICES ASSUME "identity" \notin raced, NEW q \in Procs PROVE IdRecord(run[q])'
    BY <1>1 DEF IInv, IdSafe
  <2> QED BY <1>1, <1>2 DEF IInv, IdSafe, IdRecord, InnerSteps
<1>8. Whole'
  BY <1>1, <1>2, <1>3 DEF IInv, Whole, At
<1> QED BY <1>4, <1>5, <1>6, <1>7, <1>8, Races DEF IInv

\* rotate-leaf truncates the certificate, and leaves the key.
LEMMA TruncateCertKeeps ==
    ASSUME IInv, raced' = raced \cup Overlaps', NEW p \in Procs, TruncateCert(p)
    PROVE  IInv'
<1>1. /\ run[p].step = "truncate_cert" /\ cert' = Torn
      /\ run' = [run EXCEPT ![p].step = "rewrite_cert"]
      /\ UNCHANGED <<config, identity, key, ext, server, ui, service, pins, ids, damaged, mishaps>>
  BY DEF TruncateCert, At, history
<1>2. /\ run' \in [Procs -> Records]
      /\ \A q \in Procs : q # p => run'[q] = run[q]
      /\ \A q \in Procs : Sound(run'[q])
      /\ run'[p].step = "rewrite_cert" /\ run'[p].id = run[p].id /\ run'[p].pem = run[p].pem
  BY <1>1, SubStep
<1>3. run[p].pem \in Keys /\ run[p].pem # Absent /\ Torn # Absent
  BY <1>1, HostAssumption DEF IInv, Shapes, Sound
<1>4. FileTypes' /\ ServerTypes' /\ Shapes'
  BY <1>1, <1>2 DEF IInv, FileTypes, ServerTypes, Shapes
<1>5. UiTypes'
  BY <1>1, <1>2, UiKeeps
<1>6. TlsSafe'
  <2> SUFFICES ASSUME "tls" \notin raced PROVE TlsSafe'
    BY DEF TlsSafe
  <2>1. key = run[p].pem
    BY <1>1 DEF IInv, TlsSafe, TlsRecord
  <2>2. ASSUME NEW q \in Procs, q # p PROVE TlsRecord(run[q])'
    <3>1. run[q].step \notin {"write_key", "write_cert", "truncate_cert", "rewrite_cert"}
      BY <1>1, <2>2, OneTlsWriter DEF IInv
    <3> QED BY <1>1, <1>2, <1>3, <2>2, <3>1 DEF IInv, TlsSafe, TlsRecord
  <2>3. TlsRecord(run[p])'
    BY <1>1, <1>2, <2>1 DEF TlsRecord
  <2> QED BY <1>1, <1>3, <2>1, <2>2, <2>3 DEF IInv, TlsSafe
<1>7. IdSafe'
  <2> SUFFICES ASSUME "identity" \notin raced, NEW q \in Procs PROVE IdRecord(run[q])'
    BY <1>1 DEF IInv, IdSafe
  <2> QED BY <1>1, <1>2 DEF IInv, IdSafe, IdRecord
<1>8. Whole'
  BY <1>1, <1>2 DEF IInv, Whole, At
<1> QED BY <1>4, <1>5, <1>6, <1>7, <1>8, Races DEF IInv

\* A self-managed pin is the key on disk when it is given to a device.
LEMMA PinIsKey ==
    ASSUME IInv, "tls" \notin raced, NEW p \in Procs,
           run[p].step \in {"bind", "hand_out"},
           PairingSpki(run[p].cfg, run[p].pem) \in Keys
    PROVE  cert # Absent /\ key = PairingSpki(run[p].cfg, run[p].pem)
<1>1. /\ run[p].cfg \in Configs /\ run[p].pem \in KeysOf(run[p].cfg.tls)
      /\ TlsRecord(run[p])
  BY DEF IInv, Shapes, Sound, TlsSafe
<1>2. PairingSpki(run[p].cfg, run[p].pem) = run[p].pem
  BY <1>1, HostAssumption DEF PairingSpki
<1>3. run[p].cfg.tls = "self"
  BY <1>1, <1>2, HostAssumption DEF KeysOf
<1> QED BY <1>1, <1>2, <1>3 DEF TlsRecord

\* `pair open` hands out the pin.
LEMMA HandOutKeeps ==
    ASSUME IInv, raced' = raced \cup Overlaps', NEW p \in Procs, HandOut(p)
    PROVE  IInv'
<1>1. /\ run[p].step = "hand_out" /\ Return(p)
      /\ pins' = pins \cup {PairingSpki(run[p].cfg, run[p].pem)}
      /\ UNCHANGED <<config, identity, key, cert, ext, server, ui, service, ids, damaged, mishaps>>
  BY DEF HandOut, At, files
<1>2. /\ run' \in [Procs -> Records]
      /\ \A q \in Procs : q # p => run'[q] = run[q]
      /\ \A q \in Procs : Sound(run'[q])
      /\ run'[p].step \notin InnerSteps \cup {"bind", "hand_out"}
      /\ run'[p].id \in {run[p].id, Absent}
  BY <1>1, WriterReturns
<1>3. FileTypes' /\ ServerTypes' /\ Shapes'
  BY <1>1, <1>2 DEF IInv, FileTypes, ServerTypes, Shapes
<1>4. UiTypes'
  BY <1>1, <1>2, UiKeeps
<1>5. TlsSafe'
  <2> SUFFICES ASSUME "tls" \notin raced
               PROVE  /\ \A q \in Procs : TlsRecord(run[q])'
                      /\ \A pin \in pins' \cap Keys : cert # Absent /\ key = pin
    BY <1>1 DEF IInv, TlsSafe
  <2>1. \A q \in Procs : TlsRecord(run[q])'
    BY <1>1, <1>2 DEF IInv, TlsSafe, TlsRecord, InnerSteps
  <2>2. \A pin \in pins' \cap Keys : cert # Absent /\ key = pin
    BY <1>1, PinIsKey DEF IInv, TlsSafe
  <2> QED BY <2>1, <2>2
<1>6. IdSafe'
  <2> SUFFICES ASSUME "identity" \notin raced, NEW q \in Procs PROVE IdRecord(run[q])'
    BY <1>1 DEF IInv, IdSafe
  <2> QED BY <1>1, <1>2 DEF IInv, IdSafe, IdRecord, InnerSteps
<1>7. Whole'
  BY <1>1, <1>2 DEF IInv, Whole, At
<1> QED BY <1>3, <1>4, <1>5, <1>6, <1>7, Races DEF IInv

\* spawn_server: the server presents the key and the id of the files.
LEMMA BindKeeps ==
    ASSUME IInv, raced' = raced \cup Overlaps', NEW p \in Procs, Bind(p)
    PROVE  IInv'
<1>1. run[p].step = "bind"
  BY DEF Bind, At
<1>2. CASE Busy(run[p].cfg.listen)
  <2>1. Fail(p) /\ UNCHANGED <<files, service, history, mishaps>>
    BY <1>2 DEF Bind, history
  <2> QED BY <1>1, <2>1, FailKeeps
<1>3. CASE ~Busy(run[p].cfg.listen)
  <2> DEFINE r == run[p]
             new == [listen |-> r.cfg.listen, tls |-> r.cfg.tls, key |-> r.pem, id |-> r.id]
  <2>1. /\ server' = [server EXCEPT ![p] = new] /\ Return(p)
        /\ pins' = pins \cup {PairingSpki(r.cfg, r.pem)} /\ ids' = ids \cup {r.id}
        /\ UNCHANGED <<config, identity, key, cert, ext, ui, service, damaged, mishaps>>
    BY <1>3 DEF Bind, files
  <2>2. /\ run' \in [Procs -> Records]
        /\ \A q \in Procs : q # p => run'[q] = run[q]
        /\ \A q \in Procs : Sound(run'[q])
        /\ run'[p].step \notin InnerSteps \cup {"bind", "hand_out"}
        /\ run'[p].id \in {r.id, Absent}
    BY <1>1, <2>1, WriterReturns
  <2>3. r.cfg \in Configs /\ r.id \in Ids /\ r.pem \in KeysOf(r.cfg.tls)
    BY <1>1 DEF IInv, Shapes, Sound
  <2>4. new \in ServerRecords
    BY <2>3, HostAssumption DEF ServerRecords, TlsKind, KeysOf
  <2>5. /\ server' \in [Servers -> ServerRecords \cup {Off}]
        /\ \A q \in Servers : server'[q] = IF q = p THEN new ELSE server[q]
    BY <2>1, <2>4 DEF IInv, Shapes
  <2>6. new.tls = r.cfg.tls /\ new.key = r.pem /\ new.id = r.id
    OBVIOUS
  <2> HIDE DEF new
  <2>7. FileTypes' /\ ServerTypes' /\ Shapes'
    BY <2>1, <2>2, <2>3, <2>5, <2>6 DEF IInv, FileTypes, ServerTypes, Shapes
  <2>8. UiTypes'
    <3>1. server'["tui"] # Off => server["tui"] # Off \/ p = "tui"
      BY <2>5 DEF Servers
    <3> QED BY <1>1, <2>1, <2>2, <3>1, UiKeeps
  <2>9. TlsSafe'
    <3> SUFFICES ASSUME "tls" \notin raced
                 PROVE  /\ \A q \in Procs : TlsRecord(run[q])'
                        /\ \A q \in Servers : server'[q] # Off /\ server'[q].tls = "self"
                              => cert # Absent /\ key = server'[q].key
                        /\ \A pin \in pins' \cap Keys : cert # Absent /\ key = pin
      BY <2>1 DEF IInv, TlsSafe
    <3>1. \A q \in Procs : TlsRecord(run[q])'
      BY <2>1, <2>2 DEF IInv, TlsSafe, TlsRecord, InnerSteps
    <3>2. \A pin \in pins' \cap Keys : cert # Absent /\ key = pin
      BY <1>1, <2>1, PinIsKey DEF IInv, TlsSafe
    <3>3. r.cfg.tls = "self" => cert # Absent /\ key = r.pem
      BY <1>1 DEF IInv, TlsSafe, TlsRecord
    <3>4. ASSUME NEW q \in Servers, server'[q] # Off, server'[q].tls = "self"
          PROVE  cert # Absent /\ key = server'[q].key
      BY <2>5, <2>6, <3>3, <3>4 DEF IInv, TlsSafe
    <3> QED BY <3>1, <3>2, <3>4
  <2>10. IdSafe'
    <3> SUFFICES ASSUME "identity" \notin raced
                 PROVE  r.id = identity /\ \A q \in Procs : IdRecord(run[q])'
      BY <2>1 DEF IInv, IdSafe
    <3>1. r.id = identity
      BY <1>1, <2>3, HostAssumption DEF IInv, IdSafe, IdRecord
    <3> QED BY <1>1, <2>1, <2>2, <3>1 DEF IInv, IdSafe, IdRecord, InnerSteps
  <2>11. Whole'
    BY <1>1, <2>1, <2>2 DEF IInv, Whole, At
  <2> QED BY <2>7, <2>8, <2>9, <2>10, <2>11, Races DEF IInv
<1> QED BY <1>2, <1>3

\* Every step of a command.
LEMMA StepKeeps ==
    ASSUME IInv, raced' = raced \cup Overlaps', NEW p \in Procs, Step(p)
    PROVE  IInv'
BY ConfigStepsKeep, SaveConfigKeeps, LoadOrCreateIdentityKeeps, TruncateIdentityKeeps,
   WriteIdentityKeeps, LoadTlsKeeps, ReadCertKeeps, ReadKeyKeeps, WriteKeyKeeps,
   CertWrittenKeeps, ReadKeyToSignKeeps, TruncateCertKeeps, HandOutKeeps, BindKeeps
DEF Step

---------------------------------------------------------------------------
\* Processes that begin and end

\* A command begins where none was running.
LEMMA BeginKeeps ==
    ASSUME IInv, raced' = raced \cup Overlaps', NEW p \in Procs, NEW program \in Commands,
           Begin(p, program), p = "tui" => open,
           run[p].step \in {"idle", "service_mode"},
           UNCHANGED <<files, server, ui, service, history, mishaps>>
    PROVE  IInv'
<1> DEFINE r == Started(program)
<1>1. /\ Sound(r) /\ r.step \in StartSteps /\ r.id = Absent
  BY StartedSound
<1>2. run' = [run EXCEPT ![p] = r]
  BY DEF Begin
<1> HIDE DEF r
<1>3. /\ run' \in [Procs -> Records] /\ run'[p] = r
      /\ \A q \in Procs : q # p => run'[q] = run[q]
  BY <1>1, <1>2 DEF IInv, Shapes, Sound
<1>4. Hurt(p) = {}
  BY HurtNames
<1>5. UNCHANGED <<server, open, closing, shown, manager, wanted, pins, ids, damaged, mishaps>>
  BY DEF ui, service, history
<1>6. UiTypes'
  <2>1. run'["tui"] # Idle => run["tui"] # Idle \/ open
    BY <1>3 DEF Procs
  <2> QED BY <1>5, <2>1 DEF IInv, UiTypes, Overlaps
<1>7. /\ server' \in [Servers -> ServerRecords \cup {Off}]
      /\ \A q \in Servers : server'[q] = server[q]
  BY <1>5 DEF IInv, Shapes
<1> QED BY <1>1, <1>3, <1>4, <1>5, <1>6, <1>7, TurnoverKeeps

\* A process ends, with its server.
LEMMA KillKeeps ==
    ASSUME IInv, raced' = raced \cup Overlaps', NEW p \in Procs, Kill(p),
           UNCHANGED <<files, pins, ids>>,
           IF p = "tui" THEN open' = FALSE /\ closing' = {} ELSE UNCHANGED <<open, closing>>,
           shown' \in BOOLEAN, wanted' \in BOOLEAN, manager' = manager,
           mishaps' \in 0..MaxMishaps
    PROVE  IInv'
<1>1. /\ run' = [run EXCEPT ![p] = Idle]
      /\ server' = [q \in Servers |-> IF q = p THEN Off ELSE server[q]]
      /\ damaged' = damaged \cup Hurt(p)
  BY DEF Kill
<1>2. /\ run' \in [Procs -> Records] /\ run'[p] = Idle
      /\ \A q \in Procs : q # p => run'[q] = run[q]
  BY <1>1, IdleSound DEF IInv, Shapes
<1>3. /\ server' \in [Servers -> ServerRecords \cup {Off}]
      /\ \A q \in Servers : server'[q] = server[q] \/ server'[q] = Off
      /\ server'["tui"] = IF p = "tui" THEN Off ELSE server["tui"]
  BY <1>1 DEF IInv, Shapes, Servers
<1>4. UiTypes'
  <2>1. run'["tui"] = IF p = "tui" THEN Idle ELSE run["tui"]
    BY <1>2 DEF Procs
  <2> QED BY <1>1, <1>3, <2>1, HurtNames DEF IInv, UiTypes, Overlaps
<1> QED BY <1>1, <1>2, <1>3, <1>4, IdleSound, TurnoverKeeps

\* The service is started, in the place of one that was running.
LEMMA RespawnKeeps ==
    ASSUME IInv, raced' = raced \cup Overlaps', Respawn,
           UNCHANGED <<files, pins, ids, open, closing, manager, mishaps>>,
           shown' \in BOOLEAN, wanted' \in BOOLEAN
    PROVE  IInv'
<1> DEFINE r == Started(StartServer)
<1>1. /\ Sound(r) /\ r.step \in StartSteps /\ r.id = Absent
  BY StartedSound DEF Commands
<1>2. /\ run' = [run EXCEPT !["service"] = r]
      /\ server' = [server EXCEPT !["service"] = Off]
      /\ damaged' = damaged \cup Hurt("service")
  BY DEF Respawn, Begin
<1> HIDE DEF r
<1>3. /\ run' \in [Procs -> Records] /\ run'["service"] = r
      /\ \A q \in Procs : q # "service" => run'[q] = run[q]
  BY <1>1, <1>2 DEF IInv, Shapes, Sound, Procs
<1>4. /\ server' \in [Servers -> ServerRecords \cup {Off}]
      /\ \A q \in Servers : server'[q] = server[q] \/ server'[q] = Off
      /\ server'["tui"] = server["tui"]
  BY <1>2 DEF IInv, Shapes, Servers
<1>5. UiTypes'
  <2>1. run'["tui"] = run["tui"] /\ Hurt("service") \subseteq {"config", "identity", "cert"}
    BY <1>3, HurtNames DEF Procs
  <2> QED BY <1>2, <1>4, <2>1 DEF IInv, UiTypes, Overlaps
<1> QED BY <1>1, <1>2, <1>3, <1>4, <1>5, TurnoverKeeps

\* Steps after which every process and every server is what it was, or gone.
LEMMA StillKeeps ==
    ASSUME IInv, raced' = raced \cup Overlaps',
           UNCHANGED <<files, run, pins, ids, damaged>>,
           server' \in [Servers -> ServerRecords \cup {Off}],
           \A q \in Servers : server'[q] = server[q] \/ server'[q] = Off,
           UiTypes'
    PROVE  IInv'
BY TurnoverKeeps DEF IInv, Shapes

\* The form, or the choice at its end, is left.
LEMMA LeaveKeeps ==
    ASSUME IInv, raced' = raced \cup Overlaps', NEW p \in Procs,
           run' = [run EXCEPT ![p] = Idle], run[p].step \in {"form", "service_mode"},
           UNCHANGED <<files, server, ui, service, history, mishaps>>
    PROVE  IInv'
<1>1. "tls" \notin raced => TlsRecord(Idle)
  BY IdleSound DEF TlsRecord
<1>2. "identity" \notin raced => IdRecord(Idle)
  BY IdleSound DEF IdRecord
<1> QED BY <1>1, <1>2, IdleSound, ReadingKeeps

\* The service buttons, the manager's restarts, and crashes.
LEMMA ServiceKeeps ==
    ASSUME IInv, raced' = raced \cup Overlaps',
           ServiceCommand \/ ManagerRestart \/ \E p \in Procs : Crash(p)
    PROVE  IInv'
<1>1. /\ open \in BOOLEAN /\ wanted \in BOOLEAN /\ shown \in BOOLEAN
      /\ mishaps \in 0..MaxMishaps /\ MaxMishaps \in Nat
      /\ "service" \in Procs
  BY HostAssumption DEF IInv, UiTypes, Procs
<1>2. ASSUME UNCHANGED <<run, server, damaged, files, pins, ids, open, closing, manager, mishaps>>,
             shown' \in BOOLEAN, wanted' \in BOOLEAN
      PROVE  IInv'
  <2>1. UiTypes'
    BY <1>2 DEF IInv, UiTypes, Overlaps
  <2>2. /\ server' \in [Servers -> ServerRecords \cup {Off}]
        /\ \A q \in Servers : server'[q] = server[q] \/ server'[q] = Off
    BY <1>2 DEF IInv, Shapes
  <2> QED BY <1>2, <2>1, <2>2, StillKeeps
<1>3. CASE InstallUserService
  BY <1>2, <1>3, RespawnKeeps
  DEF InstallUserService, InstallEnableNow, SystemdInstall, LaunchdInstall, TasksInstall, Spawn
<1>4. CASE StartUserService
  BY <1>2, <1>4, RespawnKeeps DEF StartUserService, StartService, Spawn
<1>5. CASE StopUserService
  BY <1>1, <1>5, KillKeeps DEF StopUserService, StopService
<1>6. CASE ManagerRestart
  BY <1>1, <1>6, RespawnKeeps DEF ManagerRestart, ui, service
<1>7. ASSUME NEW p \in Procs, Crash(p)
      PROVE  IInv'
  <2>1. mishaps' \in 0..MaxMishaps
    BY <1>1, <1>7 DEF Crash
  <2> QED BY <1>1, <1>7, <2>1, KillKeeps DEF Crash, service
<1> QED BY <1>3, <1>4, <1>5, <1>6, <1>7 DEF ServiceCommand

\* The interface is opened and closed, and its server stopped.
LEMMA InterfaceKeeps ==
    ASSUME IInv, raced' = raced \cup Overlaps',
           \/ OpenTui \/ QuitTui \/ StopForeground \/ EnterServe
           \/ \E c \in Configs : ReleasePort(c.listen)
    PROVE  IInv'
<1>1. IsActive \in BOOLEAN
  BY DEF IsActive, Running, IInv, UiTypes
<1>2. /\ server \in [Servers -> ServerRecords \cup {Off}] /\ "tui" \in Servers
      /\ mishaps \in 0..MaxMishaps /\ shown \in BOOLEAN /\ wanted \in BOOLEAN
  BY DEF IInv, Shapes, UiTypes, Servers
<1>3. CASE OpenTui \/ EnterServe
  <2>1. /\ open' \in BOOLEAN /\ (open => open') /\ shown' \in BOOLEAN
        /\ UNCHANGED <<files, run, server, closing, manager, wanted, pins, ids, damaged, mishaps>>
    BY <1>1, <1>3 DEF OpenTui, EnterServe, service, history, IInv, UiTypes
  <2>2. UiTypes'
    BY <2>1 DEF IInv, UiTypes, Overlaps
  <2> QED BY <1>2, <2>1, <2>2, StillKeeps
<1>4. CASE QuitTui
  BY <1>2, <1>4, KillKeeps DEF QuitTui, service, Procs
<1>5. CASE StopForeground
  <2>1. /\ server' = [server EXCEPT !["tui"] = Off] /\ open /\ open' = open
        /\ UNCHANGED <<files, run, shown, manager, wanted, pins, ids, damaged, mishaps>>
    BY <1>5 DEF StopForeground, TuiIdle, service, history
  <2>2. /\ server' \in [Servers -> ServerRecords \cup {Off}]
        /\ \A q \in Servers : server'[q] = server[q] \/ server'[q] = Off
    BY <1>2, <2>1
  <2>3. UiTypes'
    BY <2>1 DEF IInv, UiTypes, Overlaps
  <2> QED BY <2>1, <2>2, <2>3, StillKeeps
<1>6. CASE \E c \in Configs : ReleasePort(c.listen)
  <2>1. /\ closing' # {} => closing # {}
        /\ UNCHANGED <<files, run, server, open, shown, manager, wanted, pins, ids, damaged, mishaps>>
    BY <1>6 DEF ReleasePort, service, history
  <2>2. UiTypes'
    BY <2>1 DEF IInv, UiTypes, Overlaps
  <2> QED BY <1>2, <2>1, <2>2, StillKeeps
<1> QED BY <1>3, <1>4, <1>5, <1>6

\* The last step of onboarding.
LEMMA OnboardUserServiceKeeps ==
    ASSUME IInv, raced' = raced \cup Overlaps', OnboardUserService
    PROVE  IInv'
<1> DEFINE keeps == manager = "systemd" /\ Running("service")
           r == Started(StartServer)
<1>1. Sound(r) /\ r.step \in StartSteps /\ r.id = Absent
  BY StartedSound DEF Commands
<1>2. /\ run["tui"].step = "service_mode" /\ wanted' = TRUE
      /\ run' = [run EXCEPT !["tui"] = Idle, !["service"] = IF keeps THEN @ ELSE r]
      /\ server' = [server EXCEPT !["tui"] = Off, !["service"] = IF keeps THEN @ ELSE Off]
      /\ damaged' = damaged \cup (IF keeps THEN {} ELSE Hurt("service"))
      /\ UNCHANGED <<files, open, shown, manager, pins, ids, mishaps>>
  BY DEF OnboardUserService, At
<1> HIDE DEF keeps, r
<1>3. r \in Records
  BY <1>1 DEF Sound
<1>4. /\ run' \in [Procs -> Records]
      /\ run'["tui"] = Idle
      /\ run'["service"] = IF keeps THEN run["service"] ELSE r
      /\ run'["cli"] = run["cli"]
  BY <1>2, <1>3, IdleSound DEF IInv, Shapes, Procs
<1>5. /\ server' \in [Servers -> ServerRecords \cup {Off}]
      /\ \A q \in Servers : server'[q] = server[q] \/ server'[q] = Off
  BY <1>2 DEF IInv, Shapes, Servers
<1>6. open
  BY <1>2, IdleSound DEF IInv, UiTypes
<1>7. UiTypes'
  BY <1>2, <1>6, HurtNames DEF IInv, UiTypes, Overlaps, Procs
<1>8. Hurt("tui") = {}
  BY <1>2, HurtNames DEF Procs
<1>9. ASSUME NEW p \in Procs
      PROVE  \/ run'[p] = run[p]
             \/ /\ Sound(run'[p])
                /\ run'[p].step \in StartSteps \cup {"idle"}
                /\ run'[p].id = Absent
                /\ Hurt(p) \subseteq damaged'
  BY <1>1, <1>2, <1>4, <1>8, IdleSound DEF Procs
<1> QED BY <1>2, <1>4, <1>5, <1>7, <1>9, TurnoverKeeps

\* The commands of the interface and of the command line.
LEMMA CommandsKeep ==
    ASSUME IInv, raced' = raced \cup Overlaps',
           \/ StartOnboard \/ StartForeground \/ StartPairing \/ RunDoctor
           \/ OnboardForeground \/ LeaveForm("tui") \/ Cli
    PROVE  IInv'
<1>1. "tui" \in Procs /\ "cli" \in Procs
  BY DEF Procs
<1>2. ASSUME NEW program \in Commands, TuiBegin(program)
      PROVE  IInv'
  BY <1>1, <1>2, IdleSound, BeginKeeps DEF TuiBegin, TuiIdle
<1>3. ASSUME NEW program \in Commands, CliBegin(program)
      PROVE  IInv'
  BY <1>1, <1>3, IdleSound, BeginKeeps DEF CliBegin, Running
<1>4. CASE LeaveForm("tui")
  BY <1>1, <1>4, LeaveKeeps DEF LeaveForm, At
<1>5. CASE OnboardForeground
  <2>1. run["tui"].step = "service_mode"
        /\ UNCHANGED <<files, server, ui, service, history, mishaps>>
    BY <1>5 DEF OnboardForeground, At
  <2>2. open
    BY <2>1, IdleSound DEF IInv, UiTypes
  <2>3. CASE Begin("tui", StartServer)
    BY <1>1, <2>1, <2>2, <2>3, BeginKeeps DEF Commands
  <2>4. CASE Return("tui")
    <3>1. Returned(run["tui"]) = Idle
      BY <1>1, <2>1, Todo DEF Returned, IInv, Shapes, Sound, LastSteps
    <3> QED BY <1>1, <2>1, <2>4, <3>1, LeaveKeeps DEF Return
  <2> QED BY <1>5, <2>3, <2>4 DEF OnboardForeground
<1> QED BY <1>2, <1>3, <1>4, <1>5
    DEF StartOnboard, StartForeground, StartPairing, RunDoctor, Cli, Commands

\* What the operator changes by hand: the configuration and the external files.
LEMMA ByHandKeeps ==
    ASSUME IInv, raced' = raced \cup Overlaps', EditConfig \/ RenewExternal
    PROVE  IInv'
<1>1. /\ config' \in {config} \cup Configs \cup {Absent} /\ ext' \in ExtKeys
      /\ damaged' \in {damaged, damaged \ {"config"}}
      /\ config' # config \/ damaged' = damaged
      /\ config' = config \/ config' # Torn
      /\ mishaps' \in 0..MaxMishaps
      /\ UNCHANGED <<identity, key, cert, run, server, open, closing, shown, manager, wanted,
                     pins, ids>>
  BY HostAssumption
  DEF EditConfig, RenewExternal, ui, service, history, IInv, FileTypes, UiTypes
<1>2. FileTypes' /\ ServerTypes' /\ Shapes' /\ UiTypes'
  BY <1>1 DEF IInv, FileTypes, ServerTypes, Shapes, UiTypes, Overlaps
<1>3. TlsSafe'
  <2> SUFFICES ASSUME "tls" \notin raced, NEW q \in Procs PROVE TlsRecord(run[q])'
    BY <1>1 DEF IInv, TlsSafe
  <2> QED BY <1>1 DEF IInv, TlsSafe, TlsRecord
<1>4. IdSafe'
  BY <1>1 DEF IInv, IdSafe, IdRecord
<1>5. Whole'
  BY <1>1 DEF IInv, Whole, At
<1> QED BY <1>2, <1>3, <1>4, <1>5, Races DEF IInv

---------------------------------------------------------------------------
\* The theorems

\* A machine on which nothing has been set up.
LEMMA InitHolds ==
    ASSUME Init
    PROVE  IInv
<1>1. /\ config \in Configs \cup {Absent}
      /\ identity = Absent /\ key = Absent /\ cert = Absent /\ ext \in ExtKeys
      /\ run = [p \in Procs |-> Idle] /\ server = [p \in Servers |-> Off]
      /\ open = FALSE /\ closing = {} /\ shown = FALSE
      /\ manager \in Managers /\ wanted = FALSE
      /\ pins = {} /\ ids = {} /\ raced = {} /\ damaged = {} /\ mishaps = 0
  BY HostAssumption DEF Init
<1>2. /\ \A p \in Procs : run[p] = Idle
      /\ \A p \in Servers : server[p] = Off
      /\ run \in [Procs -> Records]
      /\ server \in [Servers -> ServerRecords \cup {Off}]
  BY <1>1, IdleSound
<1>3. FileTypes /\ ServerTypes /\ Shapes
  BY <1>1, <1>2, IdleSound DEF FileTypes, ServerTypes, Shapes
<1>4. UiTypes
  <2>1. run["tui"] = Idle /\ server["tui"] = Off
    BY <1>2 DEF Procs, Servers
  <2>2. mishaps \in 0..MaxMishaps
    BY <1>1, HostAssumption
  <2> QED BY <1>1, <2>1, <2>2 DEF UiTypes
<1>5. Alone
  BY <1>2, IdleSound DEF Alone, Writing
<1>6. TlsSafe
  BY <1>1, <1>2, IdleSound DEF TlsSafe, TlsRecord
<1>7. IdSafe
  BY <1>1, <1>2, IdleSound DEF IdSafe, IdRecord
<1>8. Whole
  BY <1>1, HostAssumption DEF Whole
<1> QED BY <1>3, <1>4, <1>5, <1>6, <1>7, <1>8 DEF IInv

\* Every step of every process, of the manager and of the operator.
LEMMA NextKeeps ==
    ASSUME IInv, [Next]_vars
    PROVE  IInv'
<1>1. CASE UNCHANGED vars
  <2>1. UNCHANGED <<config, identity, key, cert, ext, run, server, open, closing, shown,
                    manager, wanted, pins, ids, damaged, raced, mishaps>>
    BY <1>1 DEF vars, files, ui, service, history
  <2>2. FileTypes' /\ ServerTypes' /\ Shapes' /\ UiTypes' /\ Whole'
    BY <2>1 DEF IInv, FileTypes, ServerTypes, Shapes, UiTypes, Whole, At
  <2>3. Alone' /\ TlsSafe' /\ IdSafe'
    BY <2>1 DEF IInv, Alone, Writing, TlsSafe, TlsRecord, IdSafe, IdRecord
  <2> QED BY <2>2, <2>3 DEF IInv
<1>2. CASE Next
  <2>1. raced' = raced \cup Overlaps' /\ Move
    BY <1>2 DEF Next
  <2>2. CASE \E p \in Procs : Step(p)
    BY <2>1, <2>2, StepKeeps
  <2>3. CASE Tui
    BY <2>1, <2>3, InterfaceKeeps, CommandsKeep, OnboardUserServiceKeeps, ConfigStepsKeep,
       ConfirmKeeps
    DEF Tui, Procs
  <2>4. CASE ServiceCommand \/ ManagerRestart \/ \E p \in Procs : Crash(p)
    BY <2>1, <2>4, ServiceKeeps
  <2>5. CASE Cli \/ (\E c \in Configs : ReleasePort(c.listen)) \/ EditConfig \/ RenewExternal
    BY <2>1, <2>5, CommandsKeep, InterfaceKeeps, ByHandKeeps
  <2> QED BY <2>1, <2>2, <2>3, <2>4, <2>5 DEF Move
<1> QED BY <1>1, <1>2

\* IInv holds whatever is started, killed, restarted or edited, for every
\* set of configurations, keys and identities.
THEOREM Invariance == Spec => []IInv
<1>1. Init => IInv
  BY InitHolds
<1>2. IInv /\ [Next]_vars => IInv'
  BY NextKeeps
<1> QED BY <1>1, <1>2, PTL DEF Spec

\* No process goes on with a file that it could not read.
THEOREM TypeCorrect == Spec => []TypeOK
<1>1. IInv => TypeOK
  <2> SUFFICES ASSUME IInv PROVE TypeOK
    OBVIOUS
  <2>1. \A p \in Procs : /\ run[p].cfg \in Configs \cup {Absent}
                         /\ run[p].id \in Ids \cup {Absent}
                         /\ run[p].pem \in Keys \cup ExtKeys \cup {Absent}
    BY DEF IInv, Shapes, Records
  <2> QED BY <2>1 DEF IInv, FileTypes, ServerTypes, KeysOf, UiTypes, TypeOK
<1> QED BY <1>1, Invariance, PTL

\* A self-managed pin that a device has stays good, unless two processes
\* wrote the key pair at the same time.
THEOREM PinsStayGood == Spec => []PinsHold
<1>1. IInv => PinsHold
  BY DEF IInv, TlsSafe, PinsHold, Accepts
<1> QED BY <1>1, Invariance, PTL

\* Every server starts with the same device id, unless two processes
\* created identity.json at the same time.
THEOREM OneIdentity == Spec => []IdentityKept
<1>1. IInv => IdentityKept
  BY DEF IInv, IdSafe, IdentityKept
<1> QED BY <1>1, Invariance, PTL

\* A file is unreadable only because of a writer that is at work or was
\* killed, and the certificate is one for the key beside it.
THEOREM FilesStayWhole == Spec => []FilesWhole
<1>1. IInv => FilesWhole
  BY DEF IInv, TlsSafe, Whole, FilesWhole
<1> QED BY <1>1, Invariance, PTL
=============================================================================
