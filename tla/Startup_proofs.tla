----------------------------- MODULE Startup_proofs -----------------------------
(***************************************************************************)
(* Proofs about module Startup, for any command lines, any files and any   *)
(* number of faults: what an early return of server_new releases, and that *)
(* a server that runs has the settings and the users of its file.          *)
(***************************************************************************)
EXTENDS Startup, SequenceTheorems, FiniteSetTheorems, WellFoundedInduction, NaturalsInduction, TLAPS

-----------------------------------------------------------------------------
(* What is held *)

Early     == {"args", "cla"}
OwnPath   == {r \in {"path"} : long}
Opened    == Early \cup OwnPath \cup {"sfd"}
Configured == Opened \cup config_free
Equipped  == Opened \cup UsersFree
Furnished == Equipped \cup {"exec", "os"} \cup s.heap

Settling  == {"loglevel", "bind", "listen", "users"}
Equipping == {"exec", "addr", "clients", "ev", "register", "db"}

HoldsJust(R) == held = R

\* What the process holds before each step.
HeldOK ==
    /\ phase = "start"           => HoldsJust({})
    /\ phase \in {"args", "path"} => HoldsJust(Early)
    /\ phase = "socket"          => HoldsJust(Early \cup OwnPath)
    /\ phase \in {"reuse", "read"} => HoldsJust(Opened)
    /\ phase = "parse"           => HoldsJust(Configured \cup {"contents"})
    /\ phase \in Settling        => HoldsJust(Configured)
    /\ phase = "add_users"       => HoldsJust(Configured \cup {"users"})
    /\ phase = "exec"            => HoldsJust(Equipped)
    /\ phase = "addr"            => HoldsJust(Equipped \cup {"exec", "os"})
    /\ phase = "clients"         => HoldsJust(Furnished)
    /\ phase = "ev"              => HoldsJust(Furnished \cup {"clients"})
    /\ phase = "register"        => HoldsJust(Furnished \cup {"clients", "ev"})
    /\ phase = "db"              => HoldsJust(Furnished \cup {"clients", "ev", "help"})
    /\ phase = "running"         =>
           HoldsJust((Furnished \ Early) \cup {"clients", "ev", "help", "db"})

\* Each struct has its fields, and its strings on the heap are its own.
StructsOK ==
    /\ config = [n \in Settings \cup {"users", "heap"} |-> config[n]]
    /\ \E S : config.users \in Seq(S)
    /\ config.heap \subseteq {"address", "loglevel"}
    /\ DOMAIN s = Settings \cup {"users", "heap"}
    /\ s.heap \subseteq {"addr"}

\* The part of ReleasedOnce about what can be freed.
FreedOnce ==
    /\ twice \subseteq {"path"}
    /\ twice # {} => phase = "exited" /\ users # <<>> /\ faults > 0
    /\ phase = "exited" => "sfd" \notin held
    /\ phase = "exited" /\ faults = 0 => held = {}

HoldsInv ==
    /\ phase \in Steps \cup {"running"} \cup Ended
    /\ faults \in Nat /\ long \in BOOLEAN
    /\ StructsOK
    /\ HeldOK
    /\ phase # "exited" => twice = {}
    /\ phase \in Equipping \cup {"running"} => users # <<>>
    /\ FreedOnce

\* The settings by name.
LEMMA SettingsAre == Settings = {"address", "port", "loglevel", "databases"}
BY DEF Settings, Unset

\* A new configuration has every field, no users and nothing on the heap.
LEMMA NewOK ==
    /\ ConfigNew = [n \in Settings \cup {"users", "heap"} |-> ConfigNew[n]]
    /\ \A S : ConfigNew.users \in Seq(S)
    /\ ConfigNew.users = <<>> /\ ConfigNew.heap = {}
    /\ DOMAIN ConfigNew = Settings \cup {"users", "heap"}
<1>1. ConfigNew.users = <<>> /\ ConfigNew.heap = {}
  BY DEF ConfigNew
<1>2. DOMAIN ConfigNew = Settings \cup {"users", "heap"}
  BY SettingsAre DEF ConfigNew
<1>3. ConfigNew = [n \in DOMAIN ConfigNew |-> ConfigNew[n]]
  BY DEF ConfigNew
<1> QED BY <1>1, <1>2, <1>3

\* Nothing is held at the start.
LEMMA HoldsInit == Init => HoldsInv
<1> SUFFICES ASSUME Init PROVE HoldsInv
  OBVIOUS
<1>1. /\ phase = "start" /\ held = {} /\ twice = {} /\ faults = 0 /\ config = ConfigNew /\ s = ConfigNew
      /\ long = FALSE
  BY DEF Init
<1>2. StructsOK
  BY <1>1, NewOK DEF StructsOK
<1> QED BY <1>1, <1>2 DEF HoldsInv, HeldOK, HoldsJust, Steps, FreedOnce, Settling, Equipping

\* A step that leaves the configuration alone keeps it well-formed.
LEMMA StructsSame == StructsOK /\ UNCHANGED <<config, s>> => StructsOK'
BY DEF StructsOK

LEMMA StructsKept ==
    StructsOK /\ UNCHANGED config /\ DOMAIN s' = DOMAIN s /\ s'.heap = s.heap => StructsOK'
BY DEF StructsOK

\* A step that ends the process.
LEMMA Leaves ==
    ASSUME HoldsInv, phase' = "exited", faults' \in Nat, UNCHANGED <<config, users, s, long>>,
           twice' \subseteq {"path"}, twice' # {} => users # <<>> /\ faults' > 0,
           "sfd" \notin held', faults' = 0 => held' = {}
    PROVE  HoldsInv'
<1>1. HeldOK'
  BY DEF HeldOK, Settling
<1>2. FreedOnce'
  BY DEF FreedOnce
<1>3. StructsOK' /\ long' \in BOOLEAN
  BY StructsSame DEF HoldsInv
<1> QED BY <1>1, <1>2, <1>3 DEF HoldsInv, Steps, Ended, Equipping

\* A step that does not.
LEMMA GoesOn ==
    ASSUME HoldsInv, phase' \in Steps \cup {"running", "aborted"}, faults' \in Nat, long' \in BOOLEAN,
           StructsOK', twice' = {}, HeldOK',
           phase' \in Equipping \cup {"running"} => users' # <<>>
    PROVE  HoldsInv'
<1>1. phase' # "exited"
  BY DEF Steps
<1>2. FreedOnce'
  BY <1>1 DEF FreedOnce
<1> QED BY <1>1, <1>2 DEF HoldsInv, Ended

\* What a fault, counted, leaves of the count.
LEMMA Faults ==
    ASSUME HoldsInv
    PROVE  /\ Fault => faults' \in Nat /\ faults' > 0 /\ faults' # 0
           /\ faults' = faults => faults' \in Nat
           /\ Fault \/ faults' = faults => (faults > 0 => faults' > 0)
           /\ faults' > 0 => faults' # 0
           /\ Fault \/ faults' = faults => (faults' = 0 => faults = 0 /\ UNCHANGED faults)
<1>1. faults \in Nat
  BY DEF HoldsInv
<1> QED BY <1>1 DEF Fault

\* An early return of server_new that frees R, when H is held.
LEMMA Returns ==
    ASSUME HoldsInv, phase # "exited", NEW H, NEW R, NEW L, HoldsJust(H),
           ReturnsLeaving(R, L), R \subseteq H \cup {"path"}, "sfd" \in H => "sfd" \in R,
           UNCHANGED <<config, users, s>>,
           Fault \/ (UNCHANGED faults /\ "path" \notin R /\ H \subseteq R \cup Early \cup {"path"}),
           "path" \in R => users # <<>>
    PROVE  HoldsInv'
<1>1. phase' = "exited" /\ UNCHANGED long
  BY DEF ReturnsLeaving, inputVars
<1>2. twice = {}
  BY DEF HoldsInv
<1>3. faults' \in Nat
  BY Faults
<1>4. held' = held \ (R \cup Early \cup {"path"})
  BY DEF ReturnsLeaving, Early
<1>5. twice' \subseteq {"path"} /\ (twice' # {} => "path" \in R)
  BY <1>2 DEF ReturnsLeaving, HoldsJust
<1>6. "sfd" \notin held'
  BY <1>4 DEF HoldsJust
<1>7. ASSUME faults' = 0 PROVE held' = {}
  <2>1. UNCHANGED faults /\ H \subseteq R \cup Early \cup {"path"}
    BY <1>7, Faults
  <2> QED BY <1>4, <2>1 DEF HoldsJust
<1>8. twice' # {} => users # <<>> /\ faults' > 0
  BY <1>5, Faults
<1> QED BY <1>1, <1>3, <1>5, <1>6, <1>7, <1>8, Leaves

\* A step that goes on to next and allocates R.
LEMMA Goes ==
    ASSUME HoldsInv, NEW step, NEW next, NEW R, Passes(step, next, R), step \in Steps,
           next \in Steps \ Equipping \/ users' # <<>>,
           next \in Steps, StructsOK', HeldOK'
    PROVE  HoldsInv'
<1>1. phase = step /\ phase' = next /\ held' = held \cup R /\ UNCHANGED <<long, twice, faults>>
  BY DEF Passes, inputVars
<1>2. step # "exited" /\ next # "running"
  BY DEF Steps
<1>3. twice' = {} /\ faults' \in Nat /\ long' \in BOOLEAN
  BY <1>1, <1>2 DEF HoldsInv
<1> QED BY <1>1, <1>2, <1>3, GoesOn DEF Equipping

\* add_users refuses a configuration without users: the zeroed slots that the
\* iterator passes over have one name.
LEMMA UsersGiven ==
    ASSUME Distinct(Iterated(config.users))
    PROVE  config.users # <<>>
<1> SUFFICES ASSUME config.users = <<>> PROVE FALSE
  OBVIOUS
<1>1. VEC_INITIAL_CAP \in Nat /\ VEC_INITIAL_CAP > 1
  BY StartupAssumption
<1>2. Iterated(config.users) = [i \in 1 .. VEC_INITIAL_CAP |-> Zeroed]
  BY DEF Iterated
<1>3. 1 \in 1 .. VEC_INITIAL_CAP /\ 2 \in 1 .. VEC_INITIAL_CAP
  BY <1>1
<1>4. Distinct([i \in 1 .. VEC_INITIAL_CAP |-> Zeroed])
  BY <1>2
<1> QED BY <1>3, <1>4 DEF Distinct

\* What a struct has on the heap has names of its own.
LEMMA HeapsAre ==
    HoldsInv => config.heap \subseteq {"address", "loglevel"} /\ s.heap \subseteq {"addr"}
BY DEF HoldsInv, StructsOK

\* Every step keeps what is held as its phase says.
LEMMA HoldsNext == HoldsInv /\ [Next]_vars => HoldsInv'
<1> SUFFICES ASSUME HoldsInv, [Next]_vars PROVE HoldsInv'
  OBVIOUS
<1>1. ASSUME SigintHandlerFails PROVE HoldsInv'
  <2>1. held = {} /\ twice = {}
    BY <1>1 DEF HoldsInv, HeldOK, HoldsJust, SigintHandlerFails
  <2>2. held' = held /\ twice' = twice /\ phase' = "exited" /\ Fault /\ UNCHANGED <<config, users, s, long>>
    BY <1>1 DEF SigintHandlerFails, Exits, Release, inputVars, configVars, serverVars
  <2>3. faults' \in Nat
    BY <2>2, Faults
  <2> QED BY <2>1, <2>2, <2>3, Leaves
<1>2. ASSUME ClapEnds \/ PathInvalid PROVE HoldsInv'
  <2>1. HoldsJust(Early) /\ twice = {}
    BY <1>2 DEF HoldsInv, HeldOK, ClapEnds, PathInvalid
  <2>2. /\ Release(Early) /\ phase' = "exited" /\ UNCHANGED <<config, users, s, long>>
        /\ Fault \/ UNCHANGED faults
    BY <1>2 DEF ClapEnds, PathInvalid, Exits, inputVars, configVars, serverVars, Early
  <2>3. held' = {} /\ twice' = {}
    BY <2>1, <2>2 DEF Release, OnHeap, Early, HoldsJust
  <2>4. faults' \in Nat
    BY <2>2, Faults
  <2> QED BY <2>2, <2>3, <2>4, Leaves
<1>3. ASSUME server_run \/ parse_args \/ ArgsParsed PROVE HoldsInv'
  <2>1. /\ UNCHANGED <<config, users, s, long, twice>> /\ phase \in {"start", "args"}
        /\ phase' \in {"args", "path"} /\ (Fault \/ UNCHANGED faults)
    BY <1>3 DEF server_run, parse_args, ArgsParsed, inputVars, configVars, serverVars
  <2>2. HoldsJust(Early)'
    BY <1>3 DEF server_run, parse_args, ArgsParsed, HoldsInv, HeldOK, HoldsJust, Early
  <2>3. HeldOK'
    BY <2>1, <2>2 DEF HeldOK, Settling
  <2>4. twice' = {} /\ long' \in BOOLEAN /\ StructsOK' /\ faults' \in Nat
    BY <2>1, StructsSame, Faults DEF HoldsInv
  <2> QED BY <2>1, <2>2, <2>3, <2>4, GoesOn DEF Steps, Equipping
<1>4. ASSUME PathOk PROVE HoldsInv'
  <2>1. /\ UNCHANGED <<config, users, s, faults, twice>> /\ phase = "path" /\ phase' = "socket"
        /\ long' \in BOOLEAN /\ held' = held \cup OwnPath'
    BY <1>4 DEF PathOk, OwnPath, configVars, serverVars
  <2>2. HoldsJust(Early)
    BY <2>1 DEF HoldsInv, HeldOK
  <2>3. HoldsJust(Early \cup OwnPath)'
    BY <2>1, <2>2 DEF HoldsJust, Early, OwnPath
  <2>4. HeldOK'
    BY <2>1, <2>3 DEF HeldOK, Settling
  <2>5. twice' = {} /\ StructsOK'
    BY <2>1, StructsSame DEF HoldsInv
  <2> QED BY <2>1, <2>3, <2>4, <2>5, Faults, GoesOn DEF Steps, Equipping
<1>5. ASSUME create_tcp_socket PROVE HoldsInv'
  <2>1. phase = "socket" /\ HoldsJust(Early \cup OwnPath) /\ UNCHANGED <<config, users, s>>
    BY <1>5 DEF create_tcp_socket, Passes, Fails, HoldsInv, HeldOK, configVars, serverVars
  <2>2. CASE Passes("socket", "reuse", {"sfd"})
    <3>1. HoldsJust(Opened)' /\ phase' = "reuse"
      BY <2>1, <2>2 DEF Passes, inputVars, HoldsJust, Opened, OwnPath
    <3>2. HeldOK' /\ StructsOK'
      BY <2>1, <3>1, StructsSame DEF HeldOK, HoldsInv, Settling
    <3> QED BY <2>2, <3>2, Goes DEF Steps, Equipping
  <2>3. CASE Fails("socket", {})
    <3>1. ReturnsLeaving({}, {}) /\ Fault
      BY <2>3 DEF Fails, ReturnsErr
    <3> QED BY <2>1, <3>1, Returns DEF Early, OwnPath
  <2> QED BY <1>5, <2>2, <2>3 DEF create_tcp_socket
<1>6. ASSUME set_reuse_addr PROVE HoldsInv'
  <2>1. phase = "reuse" /\ HoldsJust(Opened) /\ UNCHANGED <<config, users, s>>
    BY <1>6 DEF set_reuse_addr, Passes, Fails, HoldsInv, HeldOK, configVars, serverVars
  <2>2. CASE Passes("reuse", "read", {})
    <3>1. HoldsJust(Opened)' /\ phase' = "read"
      BY <2>1, <2>2 DEF Passes, inputVars, HoldsJust, Opened, OwnPath
    <3>2. HeldOK' /\ StructsOK'
      BY <2>1, <3>1, StructsSame DEF HeldOK, HoldsInv, Settling
    <3> QED BY <2>2, <3>2, Goes DEF Steps, Equipping
  <2>3. CASE Fails("reuse", {"sfd"})
    <3>1. ReturnsLeaving({"sfd"}, {}) /\ Fault
      BY <2>3 DEF Fails, ReturnsErr
    <3>2. PICK R : R = {"sfd"}
      OBVIOUS
    <3>3. R \subseteq Opened /\ "sfd" \in R /\ "path" \notin R
      BY <3>2 DEF Opened
    <3>4. ReturnsLeaving(R, {})
      BY <3>1, <3>2
    <3> QED BY <2>1, <3>1, <3>3, <3>4, Returns
  <2> QED BY <1>6, <2>2, <2>3 DEF set_reuse_addr
<1>7. ASSUME read_file PROVE HoldsInv'
  <2>1. phase = "read" /\ HoldsJust(Opened) /\ UNCHANGED <<users, s>>
    BY <1>7 DEF read_file, Passes, Fails, HoldsInv, HeldOK, configVars, serverVars
  <2>2. CASE Passes("read", "parse", {"contents", "config.users"}) /\ config' = ConfigNew
    <3>1. StructsOK' /\ config'.users = <<>> /\ config'.heap = {}
      <4>1. DOMAIN s = Settings \cup {"users", "heap"} /\ s.heap \subseteq {"addr"}
        BY DEF HoldsInv, StructsOK
      <4> QED BY <2>1, <2>2, <4>1, NewOK DEF StructsOK
    <3>2. HoldsJust(Configured \cup {"contents"})' /\ phase' = "parse"
      BY <2>1, <2>2, <3>1 DEF Passes, inputVars, HoldsJust, Opened, OwnPath, Early, Configured, config_free, Strings
    <3>3. HeldOK'
      BY <3>2 DEF HeldOK, Settling
    <3> QED BY <2>2, <3>1, <3>3, Goes DEF Steps, Equipping
  <2>3. CASE Fails("read", {"sfd"})
    <3>1. ReturnsLeaving({"sfd"}, {}) /\ Fault /\ UNCHANGED <<config, s>>
      BY <2>3 DEF Fails, ReturnsErr, configVars, serverVars
    <3>2. PICK R : R = {"sfd"}
      OBVIOUS
    <3>3. R \subseteq Opened /\ "sfd" \in R /\ "path" \notin R
      BY <3>2 DEF Opened
    <3>4. ReturnsLeaving(R, {})
      BY <3>1, <3>2
    <3> QED BY <2>1, <3>1, <3>3, <3>4, Returns
  <2> QED BY <1>7, <2>2, <2>3 DEF read_file
<1>8. ASSUME config_parser_parse PROVE HoldsInv'
  <2>1. /\ phase = "parse" /\ HoldsJust(Configured \cup {"contents"})
        /\ UNCHANGED <<phase, users, s, long, twice>>
    BY <1>8 DEF config_parser_parse, HoldsInv, HeldOK, inputVars, serverVars
  <2>2. PICK S : config.users \in Seq(S)
    BY DEF HoldsInv, StructsOK
  <2>3. /\ config = [n \in Settings \cup {"users", "heap"} |-> config[n]]
        /\ config.heap \subseteq {"address", "loglevel"}
    BY DEF HoldsInv, StructsOK
  <2>4. SUFFICES /\ StructsOK' /\ held' = (Configured \cup {"contents"})' /\ (Fault \/ UNCHANGED faults)
    <3>1. HoldsJust(Configured \cup {"contents"})'
      BY <2>4 DEF HoldsJust
    <3>2. HeldOK'
      BY <2>1, <3>1 DEF HeldOK, Settling
    <3>3. faults' \in Nat
      BY <2>4, Faults
    <3> QED BY <2>1, <2>4, <3>2, <3>3, GoesOn DEF HoldsInv, Steps, Equipping
  <2>5. held = Opened \cup {"config.users"} \cup Strings(config.users) \cup config.heap \cup {"contents"}
    BY <2>1 DEF HoldsJust, Configured, config_free
  <2>6. SUFFICES /\ StructsOK' /\ (Fault \/ UNCHANGED faults)
                 /\ held' = Opened \cup {"config.users"} \cup Strings(config'.users) \cup config'.heap \cup {"contents"}
    BY <2>1, <2>6 DEF Configured, config_free, Opened, OwnPath, Early, Strings
  <2>7. PICK line : \/ /\ line.type \in Settings
                       /\ config' = [config EXCEPT ![line.type] = value(line), !.heap = @ \cup OwnText(line)]
                       /\ held' = held \cup OwnText(line)
                       /\ UNCHANGED faults
                    \/ /\ config' = [config EXCEPT !.users = Append(@, value(line))]
                       /\ held' = held \cup {"strings"}
                       /\ UNCHANGED faults
                    \/ Fault /\ UNCHANGED <<config, held>>
    BY <1>8 DEF config_parser_parse
  <2>8. CASE /\ line.type \in Settings
             /\ config' = [config EXCEPT ![line.type] = value(line), !.heap = @ \cup OwnText(line)]
             /\ held' = held \cup OwnText(line)
             /\ UNCHANGED faults
    <3>1. /\ config' = [n \in Settings \cup {"users", "heap"} |-> config'[n]]
          /\ config'.users = config.users /\ config'.heap = config.heap \cup OwnText(line)
      BY <2>3, <2>8, SettingsAre
    <3>2. OwnText(line) \subseteq {"address", "loglevel"}
      BY DEF OwnText
    <3>3. StructsOK'
      BY <2>1, <2>2, <2>3, <3>1, <3>2 DEF HoldsInv, StructsOK
    <3> QED BY <2>5, <2>8, <3>1, <3>3
  <2>9. CASE /\ config' = [config EXCEPT !.users = Append(@, value(line))]
             /\ held' = held \cup {"strings"}
             /\ UNCHANGED faults
    <3>1. config' = [n \in Settings \cup {"users", "heap"} |-> config'[n]] /\ config'.heap = config.heap
      BY <2>3, <2>9, SettingsAre
    <3>2. config'.users = Append(config.users, value(line))
      BY <2>3, <2>9
    <3>3. PICK v : v = value(line)
      OBVIOUS
    <3>4. config.users \in Seq(S \cup {v})
      BY <2>2
    <3>5. config'.users \in Seq(S \cup {v}) /\ config'.users # <<>>
      BY <3>2, <3>3, <3>4
    <3>6. StructsOK'
      BY <2>1, <2>3, <3>1, <3>5 DEF HoldsInv, StructsOK
    <3> QED BY <2>5, <2>9, <3>1, <3>5, <3>6 DEF Strings
  <2>10. CASE Fault /\ UNCHANGED <<config, held>>
    <3>1. StructsOK'
      BY <2>1, <2>10, StructsSame DEF HoldsInv
    <3> QED BY <2>5, <2>10, <3>1
  <2> QED BY <2>7, <2>8, <2>9, <2>10
<1>9. ASSUME ParseFails PROVE HoldsInv'
  <2>1. /\ phase = "parse" /\ HoldsJust(Configured \cup {"contents"}) /\ UNCHANGED <<config, users, s, faults>>
        /\ \E L : ReturnsLeaving({"contents", "sfd"} \cup config_free, L)
    BY <1>9 DEF ParseFails, HoldsInv, HeldOK, configVars, serverVars
  <2>2. PICK H : H = Configured \cup {"contents"}
    OBVIOUS
  <2>3. PICK R, L : R = {"contents", "sfd"} \cup config_free /\ ReturnsLeaving(R, L)
    BY <2>1
  <2>4. /\ R \subseteq H /\ "sfd" \in R /\ "path" \notin R
        /\ H \subseteq R \cup Early \cup {"path"}
    BY <2>2, <2>3 DEF HoldsInv, StructsOK, Configured, Opened, OwnPath, Early, config_free, Strings
  <2>5. HoldsJust(H)
    BY <2>1, <2>2
  <2> QED BY <2>1, <2>3, <2>4, <2>5, Returns
<1>10. ASSUME ParsedAll PROVE HoldsInv'
  <2>1. /\ phase = "parse" /\ HoldsJust(Configured \cup {"contents"}) /\ held' = held \ {"contents"}
        /\ phase' = "loglevel" /\ UNCHANGED <<config, users, s, faults, twice, long>>
    BY <1>10 DEF ParsedAll, HoldsInv, HeldOK, configVars, serverVars, inputVars
  <2>2. HoldsJust(Configured)'
    BY <2>1, HeapsAre DEF HoldsJust, Configured, Opened, OwnPath, Early, config_free, Strings
  <2>3. HeldOK' /\ StructsOK'
    BY <2>1, <2>2, StructsSame DEF HeldOK, HoldsInv, Settling
  <2> QED BY <2>1, <2>3, GoesOn DEF HoldsInv, Steps, Equipping
<1>11. ASSUME determine_loglevel PROVE HoldsInv'
  <2>1. /\ phase = "loglevel" /\ phase' = "bind" /\ UNCHANGED <<config, users, held, faults, twice, long>>
        /\ HoldsJust(Configured) /\ s' = [s EXCEPT !.loglevel = OrDefault("loglevel", "info")]
    BY <1>11 DEF determine_loglevel, HoldsInv, HeldOK, configVars, inputVars, Settling
  <2>2. HoldsJust(Configured)'
    BY <2>1 DEF HoldsJust, Configured, Opened, OwnPath, config_free, Strings
  <2>3. DOMAIN s' = DOMAIN s /\ s'.heap = s.heap
    BY <2>1, SettingsAre DEF HoldsInv, StructsOK
  <2>4. HeldOK' /\ StructsOK'
    BY <2>1, <2>2, <2>3, StructsKept DEF HeldOK, HoldsInv, Settling
  <2> QED BY <2>1, <2>4, GoesOn DEF HoldsInv, Steps, Equipping
<1>12. ASSUME InvalidLogLevel PROVE HoldsInv'
  <2>1. /\ phase = "loglevel" /\ HoldsJust(Configured) /\ UNCHANGED <<config, users, s, faults>>
        /\ ReturnsLeaving({"sfd"} \cup config_free, {})
    BY <1>12 DEF InvalidLogLevel, ReturnsErr, HoldsInv, HeldOK, configVars, serverVars, Settling
  <2>2. PICK H : H = Configured
    OBVIOUS
  <2>3. PICK R : R = {"sfd"} \cup config_free
    OBVIOUS
  <2>4. /\ R \subseteq H /\ "sfd" \in R /\ "path" \notin R
        /\ H \subseteq R \cup Early \cup {"path"}
    BY <2>2, <2>3, HeapsAre DEF Configured, Opened, OwnPath, Early, config_free, Strings
  <2>5. HoldsJust(H) /\ ReturnsLeaving(R, {})
    BY <2>1, <2>2, <2>3
  <2> QED BY <2>1, <2>4, <2>5, Returns
<1>13. ASSUME tcp_bind PROVE HoldsInv'
  <2>1. phase = "bind" /\ HoldsJust(Configured) /\ UNCHANGED <<config, users>>
    BY <1>13 DEF tcp_bind, Passes, Fails, HoldsInv, HeldOK, configVars, serverVars, Settling
  <2>2. CASE Passes("bind", "listen", {}) /\ s' = [s EXCEPT !.port = OrDefault("port", DEFAULT_PORT)]
    <3>1. HoldsJust(Configured)' /\ phase' = "listen"
      BY <2>1, <2>2 DEF Passes, inputVars, HoldsJust, Opened, OwnPath, Configured, config_free, Strings
    <3>2. DOMAIN s' = DOMAIN s /\ s'.heap = s.heap
      BY <2>2, SettingsAre DEF HoldsInv, StructsOK
    <3>3. HeldOK' /\ StructsOK'
      BY <2>1, <3>1, <3>2, StructsKept DEF HeldOK, HoldsInv, Settling
    <3> QED BY <2>1, <2>2, <3>3, Goes DEF Steps, Equipping
  <2>3. CASE Fails("bind", {"sfd"})
    <3>1. PICK H : H = Configured
      OBVIOUS
    <3>2. PICK R : R = {"sfd"}
      OBVIOUS
    <3>3. R \subseteq H \cup {"path"} /\ "sfd" \in R /\ "path" \notin R
      BY <3>1, <3>2, HeapsAre DEF Opened, Configured, config_free, Strings
    <3>4. HoldsJust(H) /\ ReturnsLeaving(R, {}) /\ Fault
      BY <2>1, <2>3, <3>1, <3>2 DEF Fails, ReturnsErr
    <3>5. UNCHANGED s
      BY <2>3 DEF Fails, serverVars
    <3> QED BY <2>1, <3>3, <3>4, <3>5, Returns
  <2> QED BY <1>13, <2>2, <2>3 DEF tcp_bind
<1>14. ASSUME tcp_listen PROVE HoldsInv'
  <2>1. phase = "listen" /\ HoldsJust(Configured) /\ UNCHANGED <<config, users, s>>
    BY <1>14 DEF tcp_listen, Passes, Fails, HoldsInv, HeldOK, configVars, serverVars, Settling
  <2>2. CASE Passes("listen", "users", {})
    <3>1. HoldsJust(Configured)' /\ phase' = "users"
      BY <2>1, <2>2 DEF Passes, inputVars, HoldsJust, Opened, OwnPath, Configured, config_free, Strings
    <3>2. HeldOK' /\ StructsOK'
      BY <2>1, <3>1, StructsSame DEF HeldOK, HoldsInv, Settling
    <3> QED BY <2>1, <2>2, <3>2, Goes DEF Steps, Equipping
  <2>3. CASE Fails("listen", {"sfd"})
    <3>1. PICK H : H = Configured
      OBVIOUS
    <3>2. PICK R : R = {"sfd"}
      OBVIOUS
    <3>3. R \subseteq H \cup {"path"} /\ "sfd" \in R /\ "path" \notin R
      BY <3>1, <3>2, HeapsAre DEF Opened, Configured, config_free, Strings
    <3>4. HoldsJust(H) /\ ReturnsLeaving(R, {}) /\ Fault
      BY <2>1, <2>3, <3>1, <3>2 DEF Fails, ReturnsErr
    <3> QED BY <2>1, <3>3, <3>4, Returns
  <2> QED BY <1>14, <2>2, <2>3 DEF tcp_listen
<1>15. ASSUME users_vec_new PROVE HoldsInv'
  <2>1. phase = "users" /\ HoldsJust(Configured) /\ UNCHANGED <<config, users, s>>
    BY <1>15 DEF users_vec_new, Passes, Fails, HoldsInv, HeldOK, configVars, serverVars, Settling
  <2>2. CASE Passes("users", "add_users", {"users"})
    <3>1. HoldsJust(Configured \cup {"users"})' /\ phase' = "add_users"
      BY <2>1, <2>2 DEF Passes, inputVars, HoldsJust, Opened, OwnPath, Configured, config_free, Strings
    <3>2. HeldOK' /\ StructsOK'
      BY <2>1, <3>1, StructsSame DEF HeldOK, HoldsInv, Settling
    <3> QED BY <2>1, <2>2, <3>2, Goes DEF Steps, Equipping
  <2>3. CASE Fails("users", {"sfd"} \cup config_free)
    <3>1. PICK H : H = Configured
      OBVIOUS
    <3>2. PICK R : R = {"sfd"} \cup config_free
      OBVIOUS
    <3>3. R \subseteq H \cup {"path"} /\ "sfd" \in R /\ "path" \notin R
      BY <3>1, <3>2, HeapsAre DEF Opened, Configured, config_free, Strings
    <3>4. HoldsJust(H) /\ ReturnsLeaving(R, {}) /\ Fault
      BY <2>1, <2>3, <3>1, <3>2 DEF Fails, ReturnsErr
    <3> QED BY <2>1, <3>3, <3>4, Returns
  <2> QED BY <1>15, <2>2, <2>3 DEF users_vec_new
<1>16. ASSUME add_users PROVE HoldsInv'
  <2>1. /\ phase = "add_users" /\ HoldsJust(Configured \cup {"users"}) /\ twice = {}
        /\ phase' = "exec" /\ UNCHANGED <<config, faults, long>>
        /\ Release({"config.users"} \cup config.heap) /\ Distinct(Iterated(config.users))
        /\ s' = [s EXCEPT !.databases = OrDefault("databases", DEFAULT_DATABASES)]
        /\ DOMAIN users' = DOMAIN config.users
    BY <1>16 DEF add_users, HoldsInv, HeldOK, configVars, inputVars, config_free_light
  <2>2. config.users # <<>> /\ users' # <<>>
    <3>1. SUFFICES config.users # <<>>
      <4>1. PICK S : config.users \in Seq(S)
        BY DEF HoldsInv, StructsOK
      <4> QED BY <2>1, <3>1, <4>1
    <3> QED BY <2>1, UsersGiven
  <2>3. held' = held \ ({"config.users"} \cup config.heap) /\ twice' = {}
    <3>1. config.heap \subseteq {"address", "loglevel"}
      BY DEF HoldsInv, StructsOK
    <3> QED BY <2>1, <3>1 DEF Release, OnHeap, HoldsJust, Configured, config_free
  <2>4. HoldsJust(Equipped)'
    <3>1. config.heap \subseteq {"address", "loglevel"}
      BY DEF HoldsInv, StructsOK
    <3> QED BY <2>1, <2>2, <2>3, <3>1
        DEF HoldsJust, Configured, Equipped, Opened, OwnPath, Early, config_free, UsersFree, Strings
  <2>5. HeldOK' /\ StructsOK'
    <3>1. DOMAIN s' = DOMAIN s /\ s'.heap = s.heap
      BY <2>1, SettingsAre DEF HoldsInv, StructsOK
    <3> QED BY <2>1, <2>4, <3>1 DEF HeldOK, HoldsInv, StructsOK, Settling
  <2> QED BY <2>1, <2>2, <2>3, <2>5, GoesOn DEF HoldsInv, Steps
<1>17. ASSUME AddUsersFails PROVE HoldsInv'
  <2>1. PICK H : H = Configured \cup {"users"}
    OBVIOUS
  <2>2. PICK R : R = {"users", "sfd"} \cup config_free
    OBVIOUS
  <2>3. PICK L : L = {r \in {"hash"} : config.users = <<>>}
    OBVIOUS
  <2>4. /\ phase = "add_users" /\ HoldsJust(H) /\ ReturnsLeaving(R, L)
        /\ UNCHANGED <<config, users, s>>
        /\ Fault \/ UNCHANGED faults
    BY <1>17, <2>1, <2>2, <2>3 DEF AddUsersFails, HoldsInv, HeldOK, configVars, serverVars
  <2>5. /\ R \subseteq H /\ "sfd" \in R /\ "path" \notin R
        /\ H \subseteq R \cup Early \cup {"path"} /\ L \subseteq {"hash"}
    BY <2>1, <2>2, <2>3, HeapsAre DEF Configured, Opened, OwnPath, config_free, Strings
  <2>6. R \subseteq H \cup {"path"}
    BY <2>5
  <2> QED BY <2>4, <2>5, <2>6, Returns
<1>18. ASSUME get_executable_path PROVE HoldsInv'
  <2>1. phase = "exec" /\ HoldsJust(Equipped) /\ UNCHANGED <<config, users, s>> /\ users # <<>>
    BY <1>18 DEF get_executable_path, Passes, Fails, HoldsInv, HeldOK, configVars, serverVars, Settling, Equipping
  <2>2. CASE Passes("exec", "addr", {"exec", "os"})
    <3>1. HoldsJust(Equipped \cup {"exec", "os"})' /\ phase' = "addr"
      BY <2>1, <2>2 DEF Passes, inputVars, HoldsJust, Opened, OwnPath, Equipped, Furnished, UsersFree, Strings
    <3>2. HeldOK' /\ StructsOK'
      BY <2>1, <3>1, StructsSame DEF HeldOK, HoldsInv, Settling
    <3> QED BY <2>1, <2>2, <3>2, Goes DEF Steps, Equipping
  <2>3. CASE Fails("exec", {"path", "sfd"} \cup UsersFree)
    <3>1. PICK H : H = Equipped
      OBVIOUS
    <3>2. PICK R : R = {"path", "sfd"} \cup UsersFree
      OBVIOUS
    <3>3. R \subseteq H \cup {"path"} /\ "sfd" \in R
      BY <3>1, <3>2, HeapsAre DEF Opened, Equipped, Furnished, UsersFree, Strings
    <3>4. HoldsJust(H) /\ ReturnsLeaving(R, {}) /\ Fault
      BY <2>1, <2>3, <3>1, <3>2 DEF Fails, ReturnsErr
    <3> QED BY <2>1, <3>3, <3>4, Returns
  <2> QED BY <1>18, <2>2, <2>3 DEF get_executable_path
<1>26. ASSUME vstr_from_addr PROVE HoldsInv'
  <2>1. /\ phase = "addr" /\ phase' = "clients" /\ HoldsJust(Equipped \cup {"exec", "os"})
        /\ UNCHANGED <<config, users, faults, twice, long>> /\ users # <<>> /\ twice = {}
    BY <1>26 DEF vstr_from_addr, HoldsInv, HeldOK, Equipping, configVars, inputVars
  <2>2. PICK text, heap : /\ heap \subseteq {"addr"} /\ held' = held \cup heap
                          /\ s' = [s EXCEPT !.address = text, !.heap = heap]
    BY <1>26 DEF vstr_from_addr
  <2>3. DOMAIN s' = DOMAIN s /\ s'.heap = heap
    BY <2>2, SettingsAre DEF HoldsInv, StructsOK
  <2>4. HoldsJust(Furnished)'
    BY <2>1, <2>2, <2>3 DEF HoldsJust, Furnished, Equipped, Opened, OwnPath, Early, UsersFree, Strings
  <2>5. HeldOK' /\ StructsOK'
    BY <2>1, <2>2, <2>3, <2>4 DEF HeldOK, HoldsInv, StructsOK, Settling
  <2> QED BY <2>1, <2>5, GoesOn DEF HoldsInv, Steps
<1>19. ASSUME clients_vec_new PROVE HoldsInv'
  <2>1. phase = "clients" /\ HoldsJust(Furnished) /\ UNCHANGED <<config, users, s>> /\ users # <<>>
    BY <1>19 DEF clients_vec_new, Passes, Fails, HoldsInv, HeldOK, configVars, serverVars, Settling, Equipping
  <2>2. CASE Passes("clients", "ev", {"clients"})
    <3>1. HoldsJust(Furnished \cup {"clients"})' /\ phase' = "ev"
      BY <2>1, <2>2 DEF Passes, inputVars, HoldsJust, Opened, OwnPath, Equipped, Furnished, UsersFree, Strings
    <3>2. HeldOK' /\ StructsOK'
      BY <2>1, <3>1, StructsSame DEF HeldOK, HoldsInv, Settling
    <3> QED BY <2>1, <2>2, <3>2, Goes DEF Steps, Equipping
  <2>3. CASE Fails("clients", {"path", "exec", "sfd"} \cup UsersFree)
    <3>1. PICK H : H = Furnished
      OBVIOUS
    <3>2. PICK R : R = {"path", "exec", "sfd"} \cup UsersFree
      OBVIOUS
    <3>3. R \subseteq H \cup {"path"} /\ "sfd" \in R
      BY <3>1, <3>2, HeapsAre DEF Opened, Equipped, Furnished, UsersFree, Strings
    <3>4. HoldsJust(H) /\ ReturnsLeaving(R, {}) /\ Fault
      BY <2>1, <2>3, <3>1, <3>2 DEF Fails, ReturnsErr
    <3> QED BY <2>1, <3>3, <3>4, Returns
  <2> QED BY <1>19, <2>2, <2>3 DEF clients_vec_new
<1>20. ASSUME ev_new PROVE HoldsInv'
  <2>1. phase = "ev" /\ HoldsJust(Furnished \cup {"clients"}) /\ UNCHANGED <<config, users, s>> /\ users # <<>>
    BY <1>20 DEF ev_new, Passes, Fails, HoldsInv, HeldOK, configVars, serverVars, Settling, Equipping
  <2>2. CASE Passes("ev", "register", {"ev"})
    <3>1. HoldsJust(Furnished \cup {"clients", "ev"})' /\ phase' = "register"
      BY <2>1, <2>2 DEF Passes, inputVars, HoldsJust, Opened, OwnPath, Equipped, Furnished, UsersFree, Strings
    <3>2. HeldOK' /\ StructsOK'
      BY <2>1, <3>1, StructsSame DEF HeldOK, HoldsInv, Settling
    <3> QED BY <2>1, <2>2, <3>2, Goes DEF Steps, Equipping
  <2>3. CASE Fails("ev", {"clients", "exec", "path", "sfd"} \cup UsersFree)
    <3>1. PICK H : H = Furnished \cup {"clients"}
      OBVIOUS
    <3>2. PICK R : R = {"clients", "exec", "path", "sfd"} \cup UsersFree
      OBVIOUS
    <3>3. R \subseteq H \cup {"path"} /\ "sfd" \in R
      BY <3>1, <3>2, HeapsAre DEF Opened, Equipped, Furnished, UsersFree, Strings
    <3>4. HoldsJust(H) /\ ReturnsLeaving(R, {}) /\ Fault
      BY <2>1, <2>3, <3>1, <3>2 DEF Fails, ReturnsErr
    <3> QED BY <2>1, <3>3, <3>4, Returns
  <2> QED BY <1>20, <2>2, <2>3 DEF ev_new
<1>21. ASSUME RegisterAccept PROVE HoldsInv'
  <2>1. phase = "register" /\ HoldsJust(Furnished \cup {"clients", "ev"}) /\ UNCHANGED <<config, users, s>> /\ users # <<>>
    BY <1>21 DEF RegisterAccept, Passes, Fails, HoldsInv, HeldOK, configVars, serverVars, Settling, Equipping
  <2>2. CASE Passes("register", "db", {"help"})
    <3>1. HoldsJust(Furnished \cup {"clients", "ev", "help"})' /\ phase' = "db"
      BY <2>1, <2>2 DEF Passes, inputVars, HoldsJust, Opened, OwnPath, Equipped, Furnished, UsersFree, Strings
    <3>2. HeldOK' /\ StructsOK'
      BY <2>1, <3>1, StructsSame DEF HeldOK, HoldsInv, Settling
    <3> QED BY <2>1, <2>2, <3>2, Goes DEF Steps, Equipping
  <2>3. CASE Fails("register", {"path", "clients", "ev", "exec", "sfd"} \cup UsersFree)
    <3>1. PICK H : H = Furnished \cup {"clients", "ev"}
      OBVIOUS
    <3>2. PICK R : R = {"path", "clients", "ev", "exec", "sfd"} \cup UsersFree
      OBVIOUS
    <3>3. R \subseteq H \cup {"path"} /\ "sfd" \in R
      BY <3>1, <3>2, HeapsAre DEF Opened, Equipped, Furnished, UsersFree, Strings
    <3>4. HoldsJust(H) /\ ReturnsLeaving(R, {}) /\ Fault
      BY <2>1, <2>3, <3>1, <3>2 DEF Fails, ReturnsErr
    <3> QED BY <2>1, <3>3, <3>4, Returns
  <2> QED BY <1>21, <2>2, <2>3 DEF RegisterAccept
<1>22. ASSUME lexidb_new PROVE HoldsInv'
  <2>1. /\ phase = "db" /\ phase' = "running" /\ UNCHANGED <<config, users, s, faults, twice, long>>
        /\ held' = (held \cup {"db"}) \ Early /\ users # <<>>
        /\ HoldsJust(Furnished \cup {"clients", "ev", "help"})
    BY <1>22 DEF lexidb_new, HoldsInv, HeldOK, Equipping, configVars, serverVars, inputVars, Early
  <2>2. HoldsJust((Furnished \ Early) \cup {"clients", "ev", "help", "db"})'
    BY <2>1, HeapsAre DEF HoldsJust, Furnished, Equipped, Opened, OwnPath, Early, UsersFree, Strings
  <2>3. HeldOK' /\ StructsOK'
    BY <2>1, <2>2, StructsSame DEF HeldOK, HoldsInv, Settling
  <2>4. twice' = {} /\ faults' \in Nat /\ long' \in BOOLEAN
    BY <2>1 DEF HoldsInv
  <2> QED BY <2>1, <2>3, <2>4, GoesOn
<1>23. ASSUME Aborts PROVE HoldsInv'
  <2>1. phase' = "aborted" /\ Fault /\ UNCHANGED <<config, users, s, long, held, twice>> /\ twice = {}
    BY <1>23 DEF Aborts, HoldsInv, configVars, serverVars, inputVars
  <2>2. HeldOK' /\ StructsOK'
    BY <2>1, StructsSame DEF HeldOK, HoldsInv, Settling
  <2> QED BY <2>1, <2>2, Faults, GoesOn DEF HoldsInv, Equipping
<1>24. ASSUME server_free PROVE HoldsInv'
  <2>1. PICK R : R = {"exec", "ev", "db", "clients", "path", "os", "help", "sfd"} \cup s.heap \cup UsersFree
    OBVIOUS
  <2>2. /\ phase = "running" /\ phase' = "exited" /\ UNCHANGED <<config, users, s, faults, long>> /\ twice = {}
        /\ Release(R) /\ HoldsJust((Furnished \ Early) \cup {"clients", "ev", "help", "db"})
    BY <1>24, <2>1 DEF server_free, Exits, HoldsInv, HeldOK, configVars, serverVars, inputVars
  <2>3. s.heap \subseteq {"addr"}
    BY DEF HoldsInv, StructsOK
  <2>4. twice' = {} /\ held' = {}
    BY <2>1, <2>2, <2>3 DEF Release, OnHeap, HoldsJust, Furnished, Equipped, Opened, OwnPath, Early, UsersFree, Strings
  <2>5. faults' \in Nat
    BY <2>2, Faults
  <2> QED BY <2>2, <2>4, <2>5, Leaves
<1>25. ASSUME UNCHANGED vars PROVE HoldsInv'
  <2>1. UNCHANGED <<phase, long, config, users, s, held, twice, faults>>
    BY <1>25 DEF vars
  <2>2. HeldOK'
    <3>1. UNCHANGED <<OwnPath, Opened, Configured, Equipped, Furnished>>
      BY <2>1 DEF Opened, OwnPath, Configured, Equipped, Furnished, UsersFree, config_free, Strings
    <3>2. HeldOK
      BY DEF HoldsInv
    <3> QED BY <2>1, <3>1, <3>2, ZenonT(120) DEF HeldOK, HoldsJust
  <2>3. StructsOK' /\ FreedOnce'
    BY <2>1, StructsSame DEF HoldsInv, FreedOnce
  <2> QED BY <2>1, <2>2, <2>3 DEF HoldsInv
<1> QED BY <1>1, <1>2, <1>3, <1>4, <1>5, <1>6, <1>7, <1>8, <1>9, <1>10, <1>11, <1>12, <1>13, <1>14,
           <1>15, <1>16, <1>17, <1>18, <1>19, <1>20, <1>21, <1>22, <1>23, <1>24, <1>25, <1>26
        DEF Next, Starts, server_new

-----------------------------------------------------------------------------
(* What is read *)

\* q is what is left of f behind its first k elements.
Behind(q, f, k) == Len(q) = Len(f) - k /\ \A i \in 1 .. Len(q) : q[i] = f[k + i]

\* parse_args after n words.
ArgsRead(n) ==
    /\ n % 2 = 0
    /\ \A i \in 1 .. n : i % 2 = 1 => argv[i] \in ConfigOptions
    /\ n = 0 => path = <<>>
    /\ faults = 0 => path = IF n = 0 THEN <<>> ELSE <<argv[2]>>

\* The configuration after the first k items of the file: a setting has the one value
\* that they give it, or none.
SettingRead(name, k) ==
    /\ \A i \in 1 .. k : file[i].type = name /\ file[i].eol =>
          Written(file[i]) = Unset[name] \/ Written(file[i]) = config[name]
    /\ config[name] # Unset[name] =>
          \E i \in 1 .. k : file[i].type = name /\ file[i].eol /\ Written(file[i]) = config[name]
SettingsRead(k) == NumbersFit => \A name \in Settings : SettingRead(name, k)

\* Its users are some of the file's, in order, and all of them without a fault.
Places(at, k) ==
    /\ DOMAIN at = DOMAIN config.users
    /\ \A i \in DOMAIN config.users :
          /\ at[i] \in 1 .. k /\ file[at[i]].type = "user"
          /\ config.users[i] = [name |-> file[at[i]].word, password |-> Password(file[at[i]])]
    /\ \A i, j \in DOMAIN config.users : i < j => at[i] < at[j]
    /\ faults = 0 => \A l \in 1 .. k : file[l].type = "user" => \E i \in DOMAIN config.users : at[i] = l
UsersRead(k) == \E at : Places(at, k)

\* Its texts, and those on the heap, come from lines that have them.
TextsRead(k) ==
    /\ \A name \in {"address", "loglevel"} : config[name] # Unset[name] => \E i \in 1 .. k : file[i].type = name
    /\ \A r \in config.heap : \E i \in 1 .. k : file[i].type = r /\ file[i].word \in Long

FileRead(k) == SettingsRead(k) /\ UsersRead(k) /\ TextsRead(k)

Levelled == {"bind", "listen", "users", "add_users", "running"} \cup Equipping
Bound    == {"listen", "users", "add_users", "running"} \cup Equipping
Peopled  == {"running"} \cup Equipping
Addressed == Peopled \ {"exec", "addr"}

ArgsInv ==
    /\ argv \in Seq(STRING) /\ left \in Seq(STRING)
    /\ phase = "start" => left = argv /\ path = <<>>
    /\ phase = "args" => \E n \in 0 .. Len(argv) : Behind(left, argv, n) /\ ArgsRead(n)
    /\ phase \in (Steps \ {"start", "args"}) \cup {"running"} => ArgsRead(Len(argv))

FileInv ==
    /\ phase \in {"parse", "loglevel"} \cup Levelled => file \in Files
    /\ phase = "parse" =>
          input \in Seq(Item) /\ \E k \in 0 .. Len(file) : Behind(input, file, k) /\ FileRead(k)
    /\ phase \in {"loglevel"} \cup Levelled => FileRead(Len(file))

\* What server_new made of it so far.
ServerInv ==
    /\ DOMAIN s = Settings \cup {"users", "heap"} /\ config.address \in Seq(Nat)
    /\ phase \in Levelled => s.loglevel = OrDefault("loglevel", "info")
    /\ phase \in Bound =>
          /\ s.port = OrDefault("port", DEFAULT_PORT)
          /\ bound = parse_addr(OrDefault("address", DEFAULT_ADDRESS))
    /\ phase \in Peopled =>
          /\ s.databases = OrDefault("databases", DEFAULT_DATABASES)
          /\ Distinct(config.users)
          /\ users = [i \in DOMAIN config.users |->
                          [config.users[i] EXCEPT !.password = hash_password(@)]]
    /\ phase \in Addressed /\ "address" \notin config.heap => s.address = OrDefault("address", DEFAULT_ADDRESS)

ReadInv == ArgsInv /\ FileInv /\ ServerInv

\* A file is a sequence of items.
LEMMA FileTyped == file \in Files => file \in Seq(Item)
BY StartupAssumption

\* A set of naturals that is not empty has a smallest element.
LEMMA SmallestItem ==
    ASSUME NEW S, S \subseteq Nat, S # {}
    PROVE  Min(S) \in S /\ \A j \in S : Min(S) <= j
<1> DEFINE R == OpToRel(<, Nat)
<1>1. IsWellFoundedOn(R, Nat)
  BY NatLessThanWellFounded
<1>2. PICK i \in S : \A j \in S : ~(<<j, i>> \in R)
  <2> HIDE DEF R
  <2> QED BY <1>1, WFMin
<1>3. \A j \in S : i <= j
  <2> SUFFICES ASSUME NEW j \in S, j < i PROVE FALSE
    OBVIOUS
  <2>1. <<j, i>> \in Nat \X Nat /\ <<j, i>>[1] < <<j, i>>[2]
    OBVIOUS
  <2>2. <<j, i>> \in R
    BY <2>1, Zenon DEF OpToRel
  <2> QED BY <2>2, <1>2
<1> QED BY <1>3 DEF Min

\* config_parser_skip_empty_lines_and_comments stops at the next item that is no comment.
LEMMA SkipsToItem ==
    ASSUME NEW f \in Seq(Item), NEW k \in 0 .. Len(f), NEW q \in Seq(Item), Behind(q, f, k)
    PROVE  \/ /\ skip_comments(q) = <<>>
              /\ \A i \in (k + 1) .. Len(f) : f[i].type = "comment"
           \/ \E m \in (k + 1) .. Len(f) :
                 /\ skip_comments(q) # <<>> /\ Head(skip_comments(q)) = f[m]
                 /\ f[m].type # "comment" /\ \A i \in (k + 1) .. (m - 1) : f[i].type = "comment"
                 /\ Tail(skip_comments(q)) \in Seq(Item) /\ Behind(Tail(skip_comments(q)), f, m)
<1> DEFINE items == {i \in DOMAIN q : q[i].type # "comment"}
<1>1. DOMAIN q = 1 .. Len(q) /\ Len(q) = Len(f) - k /\ Len(f) \in Nat /\ k \in Nat
  BY DEF Behind
<1>2. \A i \in (k + 1) .. Len(f) : i - k \in 1 .. Len(q) /\ q[i - k] = f[i]
  BY <1>1 DEF Behind
<1>3. CASE items = {}
  <2>1. skip_comments(q) = <<>>
    BY <1>3 DEF skip_comments
  <2>2. \A i \in (k + 1) .. Len(f) : f[i].type = "comment"
    BY <1>1, <1>2, <1>3
  <2> QED BY <2>1, <2>2
<1>4. CASE items # {}
  <2>1. items \subseteq Nat
    BY <1>1
  <2>2. Min(items) \in items /\ \A j \in items : Min(items) <= j
    <3> HIDE DEF items
    <3> QED BY <1>4, <2>1, SmallestItem
  <2>3. PICK a : a = Min(items)
    OBVIOUS
  <2>4. a \in items /\ (\A j \in items : a <= j) /\ skip_comments(q) = SubSeq(q, a, Len(q))
    BY <1>4, <2>2, <2>3 DEF skip_comments
  <2>5. a \in 1 .. Len(q) /\ q[a].type # "comment" /\ \A j \in 1 .. (a - 1) : q[j].type = "comment"
    BY <1>1, <2>4
  <2>6. PICK r : r = SubSeq(q, a, Len(q))
    OBVIOUS
  <2>7. /\ r \in Seq(Item) /\ Len(r) = Len(q) - a + 1
        /\ \A i \in 1 .. Len(r) : r[i] = q[a + i - 1]
    BY <2>5, <2>6
  <2>8. r # <<>> /\ Head(r) = q[a] /\ Tail(r) \in Seq(Item) /\ Len(Tail(r)) = Len(q) - a
    <3>1. Len(q) \in Nat /\ a \in Nat /\ a >= 1 /\ a <= Len(q)
      BY <2>5
    <3>2. Len(r) >= 1
      BY <2>7, <3>1
    <3>3. r # <<>> /\ Head(r) = r[1] /\ Tail(r) \in Seq(Item) /\ Len(Tail(r)) = Len(r) - 1
      BY <2>7, <3>2
    <3>4. r[1] = q[a]
      BY <2>7, <3>1, <3>2
    <3> QED BY <2>7, <3>1, <3>3, <3>4
  <2>9. \A i \in 1 .. Len(Tail(r)) : Tail(r)[i] = q[a + i]
    BY <2>5, <2>7, <2>8
  <2>10. k + a \in (k + 1) .. Len(f) /\ f[k + a] = q[a]
    BY <1>1, <2>5 DEF Behind
  <2>11. Behind(Tail(r), f, k + a)
    <3>1. Len(Tail(r)) = Len(f) - (k + a)
      <4>1. PICK lt, lq, lf : lt = Len(Tail(r)) /\ lq = Len(q) /\ lf = Len(f)
        OBVIOUS
      <4>2. lt = lq - a
        BY <2>8, <4>1
      <4>3. lq = lf - k /\ lf \in Nat /\ k \in Nat
        BY <1>1, <4>1
      <4>4. a \in Nat
        BY <2>5
      <4> QED BY <4>1, <4>2, <4>3, <4>4
    <3>2. ASSUME NEW i \in 1 .. Len(Tail(r)) PROVE Tail(r)[i] = f[(k + a) + i]
      <4>1. Tail(r)[i] = q[a + i] /\ a + i \in 1 .. Len(q)
        BY <2>5, <2>8, <2>9
      <4>2. q[a + i] = f[k + (a + i)]
        BY <4>1 DEF Behind
      <4>3. k + (a + i) = (k + a) + i
        BY <2>5
      <4> QED BY <4>1, <4>2, <4>3
    <3> QED BY <3>1, <3>2 DEF Behind
  <2>12. ASSUME NEW i \in (k + 1) .. ((k + a) - 1) PROVE f[i].type = "comment"
    <3>1. i - k \in 1 .. (a - 1) /\ i \in (k + 1) .. Len(f)
      BY <1>1, <2>5
    <3> QED BY <3>1, <2>5, <1>2
  <2> HIDE DEF items
  <2> QED BY <2>4, <2>5, <2>6, <2>8, <2>10, <2>11, <2>12
<1> QED BY <1>3, <1>4

\* A number below the modulus is its own remainder.
LEMMA SmallRemainder ==
    ASSUME NEW x \in Nat, NEW w \in Nat, x < w
    PROVE  x % w = x
OBVIOUS

\* A legal directive gives its setting what is written, when the line ends after it.
LEMMA ValueIsWritten ==
    ASSUME NEW line, legal(line), line.type \in Settings,
           line.type \in {"port", "databases"} => line.nums[1] \in Nat /\ line.nums[1] < Word
    PROVE  value(line) = IF line.eol THEN Written(line) ELSE Unset[line.type]
<1>1. CASE line.type = "address"
  BY <1>1 DEF value, Written, Unset
<1>2. CASE line.type = "loglevel"
  BY <1>2 DEF value, Written, Unset
<1>3. CASE line.type = "databases"
  <2>1. line.nums[1] % Word = line.nums[1]
    BY <1>3, SmallRemainder, StartupAssumption
  <2> QED BY <1>3, <2>1 DEF value, Written, legal
<1>4. CASE line.type = "port"
  <2>1. line.nums[1] % Word = line.nums[1]
    BY <1>4, SmallRemainder, StartupAssumption
  <2>2. line.nums[1] <= UINT16_MAX /\ line.nums[1] \in Nat /\ UINT16_MAX + 1 \in Nat
    <3>1. line.nums[1] % Word <= UINT16_MAX
      BY <1>4 DEF legal
    <3>2. UINT16_MAX \in Nat
      BY StartupAssumption
    <3> QED BY <1>4, <2>1, <3>1, <3>2
  <2>3. line.nums[1] < UINT16_MAX + 1
    <3>1. UINT16_MAX \in Nat
      BY StartupAssumption
    <3> QED BY <2>2, <3>1
  <2>4. line.nums[1] % (UINT16_MAX + 1) = line.nums[1]
    BY <2>2, <2>3, SmallRemainder
  <2> QED BY <1>4, <2>1, <2>4 DEF value, Written, legal
<1> QED BY <1>1, <1>2, <1>3, <1>4, SettingsAre

\* Comments change nothing.
LEMMA CommentsAreSkipped ==
    ASSUME NEW k \in Nat, NEW n \in Nat, k <= n, FileRead(k),
           \A i \in (k + 1) .. n : file[i].type = "comment"
    PROVE  FileRead(n)
<1>1. \A i \in 1 .. n : i \in 1 .. k \/ file[i].type = "comment"
  OBVIOUS
<1>2. \A i \in 1 .. k : i \in 1 .. n
  OBVIOUS
<1>3. ASSUME NumbersFit, NEW name \in Settings PROVE SettingRead(name, n)
  <2>1. SettingRead(name, k) /\ name # "comment"
    BY <1>3, SettingsAre DEF FileRead, SettingsRead
  <2> QED BY <1>1, <1>2, <2>1 DEF SettingRead
<1>4. PICK at : Places(at, k)
  BY DEF FileRead, UsersRead
<1>5. Places(at, n)
  BY <1>1, <1>2, <1>4 DEF Places
<1>6. TextsRead(n)
  BY <1>2 DEF FileRead, TextsRead
<1> QED BY <1>3, <1>5, <1>6 DEF FileRead, SettingsRead, UsersRead

\* Neither does a step that leaves the configuration alone.
LEMMA FileReadSame ==
    ASSUME NEW k, FileRead(k), UNCHANGED <<file, config>>, faults' = 0 => faults = 0
    PROVE  FileRead(k)'
<1>1. PICK at : Places(at, k)
  BY DEF FileRead, UsersRead
<1>2. Places(at, k)'
  BY <1>1 DEF Places
<1>3. SettingsRead(k)'
  BY DEF FileRead, SettingsRead, SettingRead, NumbersFit
<1>4. TextsRead(k)'
  BY DEF FileRead, TextsRead
<1> QED BY <1>2, <1>3, <1>4 DEF FileRead, UsersRead

\* A setting is given.
LEMMA ReadsSetting ==
    ASSUME NEW m \in Nat \ {0}, SettingsRead(m - 1), file \in Files, m \in 1 .. Len(file),
           HoldsInv, legal(file[m]), file[m].type \in Settings,
           config[file[m].type] = Unset[file[m].type],
           \A name \in Settings : config'[name] = IF name = file[m].type THEN value(file[m]) ELSE config[name],
           UNCHANGED file
    PROVE  SettingsRead(m)'
<1> SUFFICES ASSUME NumbersFit, NEW name \in Settings PROVE SettingRead(name, m)'
  BY DEF SettingsRead, NumbersFit
<1>2. SettingRead(name, m - 1)
  BY DEF SettingsRead
<1>3. \A i \in 1 .. m : i \in 1 .. (m - 1) \/ i = m
  OBVIOUS
<1>4. \A i \in 1 .. (m - 1) : i \in 1 .. m
  OBVIOUS
<1>5. CASE name # file[m].type
  <2>1. config'[name] = config[name]
    BY <1>5
  <2> QED BY <1>2, <1>3, <1>4, <1>5, <2>1 DEF SettingRead
<1>6. CASE name = file[m].type
  <2>1. config'[name] = value(file[m]) /\ config[name] = Unset[name]
    BY <1>6
  <2>2. value(file[m]) = IF file[m].eol THEN Written(file[m]) ELSE Unset[name]
    <3>1. file \in Seq(Item)
      BY FileTyped
    <3>2. file[m].nums \in Seq(Nat) /\ m \in DOMAIN file
      <4>1. file[m] \in Item /\ m \in DOMAIN file
        BY <3>1
      <4> QED BY <4>1 DEF Item
    <3>3. file[m].type \in {"port", "databases"} => Len(file[m].nums) = 1 /\ file[m].nums[1] < Word
      BY <3>2, StartupAssumption DEF NumbersFit
    <3>4. file[m].type \in {"port", "databases"} => file[m].nums[1] \in Nat
      BY <3>2, <3>3
    <3> QED BY <1>6, <3>3, <3>4, ValueIsWritten
  <2>3. m \in 1 .. m
    OBVIOUS
  <2>4. ASSUME NEW i \in 1 .. m, file[i].type = name, file[i].eol
        PROVE  Written(file[i]) = Unset[name] \/ Written(file[i]) = config'[name]
    <3>1. CASE i = m
      BY <2>1, <2>2, <2>4, <3>1
    <3>2. CASE i \in 1 .. (m - 1)
      BY <1>2, <2>1, <2>4, <3>2 DEF SettingRead
    <3> QED BY <1>3, <3>1, <3>2
  <2>5. ASSUME config'[name] # Unset[name]
        PROVE  file[m].type = name /\ file[m].eol /\ Written(file[m]) = config'[name]
    BY <1>6, <2>1, <2>2, <2>5
  <2> QED BY <2>3, <2>4, <2>5 DEF SettingRead
<1> QED BY <1>5, <1>6

\* A user is given, and recorded or lost.
LEMMA ReadsUser ==
    ASSUME NEW m \in Nat \ {0}, SettingsRead(m - 1), file[m].type = "user", HoldsInv,
           \A name \in Settings : config'[name] = config[name], UNCHANGED file
    PROVE  SettingsRead(m)'
<1> SUFFICES ASSUME NumbersFit, NEW name \in Settings PROVE SettingRead(name, m)'
  BY DEF SettingsRead, NumbersFit
<1>1. SettingRead(name, m - 1) /\ config'[name] = config[name] /\ name # "user"
  BY SettingsAre DEF SettingsRead
<1>2. \A i \in 1 .. m : i \in 1 .. (m - 1) \/ i = m
  OBVIOUS
<1>3. \A i \in 1 .. (m - 1) : i \in 1 .. m
  OBVIOUS
<1> QED BY <1>1, <1>2, <1>3 DEF SettingRead

\* The users' places in the file when a setting was given.
LEMMA KeepsPlaces ==
    ASSUME NEW m \in Nat \ {0}, UsersRead(m - 1), file[m].type # "user" \/ faults' # 0,
           config'.users = config.users, UNCHANGED file, faults' = 0 => faults = 0
    PROVE  UsersRead(m)'
<1>1. PICK at : Places(at, m - 1)
  BY DEF UsersRead
<1>2. \A i \in 1 .. m : i \in 1 .. (m - 1) \/ i = m
  OBVIOUS
<1>3. \A i \in 1 .. (m - 1) : i \in 1 .. m
  OBVIOUS
<1>4. Places(at, m)'
  BY <1>1, <1>2, <1>3 DEF Places
<1> QED BY <1>4 DEF UsersRead

\* When a user was recorded.
LEMMA AddsPlace ==
    ASSUME NEW m \in Nat \ {0}, UsersRead(m - 1), file[m].type = "user", NEW S, config.users \in Seq(S),
           config'.users = Append(config.users, value(file[m])), UNCHANGED <<file, faults>>
    PROVE  UsersRead(m)'
<1>1. PICK at : Places(at, m - 1)
  BY DEF UsersRead
<1>2. PICK u, v : u = config.users /\ v = value(file[m])
  OBVIOUS
<1>3. v = [name |-> file[m].word, password |-> Password(file[m])]
  BY <1>2 DEF value
<1>4. PICK n : n = Len(u)
  OBVIOUS
<1>5. /\ n \in Nat /\ DOMAIN u = 1 .. n /\ u \in Seq(S \cup {v})
  BY <1>2, <1>4
<1>6. PICK w : w = Append(u, v)
  OBVIOUS
<1>7. DOMAIN w = 1 .. (n + 1) /\ w[n + 1] = v /\ \A i \in 1 .. n : w[i] = u[i]
  BY <1>4, <1>5, <1>6
<1>8. config'.users = w
  BY <1>2, <1>6
<1>9. PICK at2 : at2 = [i \in 1 .. (n + 1) |-> IF i <= n THEN at[i] ELSE m]
  OBVIOUS
<1>10. DOMAIN at2 = 1 .. (n + 1) /\ at2[n + 1] = m /\ \A i \in 1 .. n : at2[i] = at[i]
  BY <1>5, <1>9
<1>11. \A i \in 1 .. n :
          /\ at[i] \in 1 .. (m - 1) /\ file[at[i]].type = "user"
          /\ u[i] = [name |-> file[at[i]].word, password |-> Password(file[at[i]])]
  BY <1>1, <1>2, <1>5 DEF Places
<1>12. \A i \in 1 .. (n + 1) : i \in 1 .. n \/ i = n + 1
  BY <1>5
<1>13. ASSUME NEW i \in 1 .. (n + 1)
       PROVE  /\ at2[i] \in 1 .. m /\ file[at2[i]].type = "user"
              /\ w[i] = [name |-> file[at2[i]].word, password |-> Password(file[at2[i]])]
  <2>1. CASE i = n + 1
    BY <1>3, <1>7, <1>10, <2>1
  <2>2. CASE i \in 1 .. n
    <3>1. at2[i] = at[i] /\ w[i] = u[i]
      BY <1>7, <1>10, <2>2
    <3>2. at[i] \in 1 .. (m - 1)
      BY <1>11, <2>2
    <3>3. at[i] \in 1 .. m
      BY <3>2
    <3> QED BY <1>11, <2>2, <3>1, <3>3
  <2> QED BY <1>12, <2>1, <2>2
<1>14. ASSUME NEW i \in 1 .. (n + 1), NEW j \in 1 .. (n + 1), i < j PROVE at2[i] < at2[j]
  <2>1. i \in 1 .. n
    BY <1>5, <1>14
  <2>2. CASE j = n + 1
    <3>1. at2[i] \in 1 .. (m - 1) /\ at2[j] = m
      BY <1>10, <1>11, <2>1, <2>2
    <3> QED BY <3>1
  <2>3. CASE j \in 1 .. n
    <3>1. at2[i] = at[i] /\ at2[j] = at[j]
      BY <1>10, <2>1, <2>3
    <3>2. at[i] < at[j]
      BY <1>1, <1>2, <1>5, <1>14, <2>1, <2>3 DEF Places
    <3> QED BY <3>1, <3>2
  <2> QED BY <1>12, <2>2, <2>3
<1>15. ASSUME faults = 0, NEW l \in 1 .. m, file[l].type = "user" PROVE \E i \in 1 .. (n + 1) : at2[i] = l
  <2>1. CASE l = m
    <3>1. n + 1 \in 1 .. (n + 1)
      BY <1>5
    <3> QED BY <1>10, <2>1, <3>1
  <2>2. CASE l # m
    <3>1. l \in 1 .. (m - 1)
      BY <2>2
    <3>2. PICK i \in 1 .. n : at[i] = l
      BY <1>1, <1>2, <1>5, <1>15, <3>1 DEF Places
    <3>3. i \in 1 .. (n + 1) /\ at2[i] = l
      BY <1>5, <1>10, <3>2
    <3> QED BY <3>3
  <2> QED BY <2>1, <2>2
<1>16. Places(at2, m)'
  BY <1>7, <1>8, <1>10, <1>13, <1>14, <1>15 DEF Places
<1> QED BY <1>16 DEF UsersRead

\* The texts stay where they are.
LEMMA MoreLines ==
    ASSUME NEW m \in Nat \ {0}, TextsRead(m - 1), UNCHANGED file,
           \A name \in Settings : config'[name] = config[name], config'.heap = config.heap
    PROVE  TextsRead(m)'
<1>1. \A i \in 1 .. (m - 1) : i \in 1 .. m
  OBVIOUS
<1>2. \A name \in {"address", "loglevel"} : config'[name] = config[name]
  BY SettingsAre
<1> QED BY <1>1, <1>2 DEF TextsRead

\* One round of the parser's loop.
LEMMA ParsesItem ==
    ASSUME HoldsInv, FileInv, config_parser_parse, config.address \in Seq(Nat)
    PROVE  /\ file' \in Files /\ input' \in Seq(Item) /\ config'.address \in Seq(Nat)
           /\ \E k \in 0 .. Len(file') : Behind(input', file', k) /\ FileRead(k)'
<1>1. /\ phase = "parse" /\ UNCHANGED file /\ input' = Tail(skip_comments(input))
      /\ skip_comments(input) # <<>>
  BY DEF config_parser_parse
<1>2. file \in Files /\ file \in Seq(Item) /\ input \in Seq(Item)
  BY <1>1, FileTyped DEF FileInv
<1>3. PICK k \in 0 .. Len(file) : Behind(input, file, k) /\ FileRead(k)
  BY <1>1 DEF FileInv
<1>4. PICK m \in (k + 1) .. Len(file) :
         /\ Head(skip_comments(input)) = file[m]
         /\ \A i \in (k + 1) .. (m - 1) : file[i].type = "comment"
         /\ Tail(skip_comments(input)) \in Seq(Item) /\ Behind(Tail(skip_comments(input)), file, m)
  BY <1>1, <1>2, <1>3, SkipsToItem
<1>5. m \in Nat \ {0} /\ m \in 1 .. Len(file) /\ m \in 0 .. Len(file) /\ k \in Nat /\ m - 1 \in Nat /\ k <= m - 1
  BY <1>2
<1>6. FileRead(m - 1)
  BY <1>3, <1>4, <1>5, CommentsAreSkipped
<1>7. PICK line : line = file[m]
  OBVIOUS
<1>8. DOMAIN config = Settings \cup {"users", "heap"}
  BY DEF HoldsInv, StructsOK
<1>9. PICK S : config.users \in Seq(S)
  BY DEF HoldsInv, StructsOK
<1>10. /\ legal(line)
       /\ \/ /\ line.type \in Settings
             /\ config[line.type] = Unset[line.type]
             /\ config' = [config EXCEPT ![line.type] = value(line), !.heap = @ \cup OwnText(line)]
             /\ UNCHANGED faults
          \/ /\ line.type = "user"
             /\ config' = [config EXCEPT !.users = Append(@, value(line))]
             /\ UNCHANGED faults
          \/ line.type = "user" /\ Fault /\ UNCHANGED config
  BY <1>4, <1>7 DEF config_parser_parse
<1>11. SUFFICES config'.address \in Seq(Nat) /\ SettingsRead(m)' /\ UsersRead(m)' /\ TextsRead(m)'
  BY <1>1, <1>2, <1>4, <1>5 DEF FileRead
<1>12. SettingsRead(m - 1) /\ UsersRead(m - 1) /\ TextsRead(m - 1)
  BY <1>6 DEF FileRead
<1>13. CASE /\ line.type \in Settings
            /\ config[line.type] = Unset[line.type]
            /\ config' = [config EXCEPT ![line.type] = value(line), !.heap = @ \cup OwnText(line)]
            /\ UNCHANGED faults
  <2>0. \A name \in Settings : config'[name] = IF name = line.type THEN value(line) ELSE config[name]
    BY <1>8, <1>13, SettingsAre
  <2>1. SettingsRead(m)'
    BY <1>1, <1>2, <1>5, <1>7, <1>10, <1>12, <1>13, <2>0, ReadsSetting
  <2>2. config'.users = config.users /\ line.type # "user" /\ config'.heap = config.heap \cup OwnText(line)
    BY <1>8, <1>13, SettingsAre
  <2>6. TextsRead(m)'
    <3>1. \A i \in 1 .. (m - 1) : i \in 1 .. m
      BY <1>5
    <3>2. m \in 1 .. m
      BY <1>5
    <3>3. ASSUME NEW name \in {"address", "loglevel"}, config'[name] # Unset[name]
          PROVE  \E i \in 1 .. m : file[i].type = name
      <4>1. name \in Settings
        BY SettingsAre
      <4>2. CASE name = line.type
        BY <1>7, <3>2, <4>2
      <4>3. CASE name # line.type
        BY <1>12, <2>0, <3>1, <3>3, <4>1, <4>3 DEF TextsRead
      <4> QED BY <4>2, <4>3
    <3>4. ASSUME NEW r \in config'.heap PROVE \E i \in 1 .. m : file[i].type = r /\ file[i].word \in Long
      <4>1. CASE r \in config.heap
        BY <1>12, <3>1, <4>1 DEF TextsRead
      <4>2. CASE r \in OwnText(line)
        BY <1>7, <3>2, <4>2 DEF OwnText
      <4> QED BY <2>2, <4>1, <4>2
    <3> QED BY <1>1, <3>3, <3>4 DEF TextsRead
  <2>3. UsersRead(m)'
    BY <1>1, <1>5, <1>7, <1>12, <1>13, <2>2, KeepsPlaces
  <2>4. config'.address \in Seq(Nat)
    <3>1. CASE line.type = "address"
      <4>1. config'.address = value(line)
        BY <1>8, <1>13, <3>1, SettingsAre
      <4>2. line \in Item
        BY <1>2, <1>5, <1>7
      <4>3. line.nums \in Seq(Nat)
        BY <4>2 DEF Item
      <4> QED BY <3>1, <4>1, <4>3 DEF value
    <3>2. CASE line.type # "address"
      BY <1>8, <1>13, <3>2, SettingsAre
    <3> QED BY <3>1, <3>2
  <2> QED BY <2>1, <2>3, <2>4, <2>6
<1>14. CASE /\ line.type = "user"
            /\ config' = [config EXCEPT !.users = Append(@, value(line))]
            /\ UNCHANGED faults
  <2>1. \A name \in Settings : config'[name] = config[name]
    BY <1>8, <1>14, SettingsAre
  <2>2. /\ config'.users = Append(config.users, value(line)) /\ config'.address = config.address
        /\ config'.heap = config.heap
    BY <1>8, <1>14
  <2>3. SettingsRead(m)'
    BY <1>1, <1>5, <1>7, <1>12, <1>14, <2>1, ReadsUser
  <2>4. UsersRead(m)'
    BY <1>1, <1>5, <1>7, <1>9, <1>12, <1>14, <2>2, AddsPlace
  <2>5. TextsRead(m)'
    BY <1>1, <1>5, <1>12, <2>1, <2>2, MoreLines
  <2> QED BY <2>2, <2>3, <2>4, <2>5
<1>15. CASE line.type = "user" /\ Fault /\ UNCHANGED config
  <2>1. SettingsRead(m)'
    BY <1>1, <1>5, <1>7, <1>12, <1>15, ReadsUser
  <2>2. faults' # 0
    BY <1>15, Faults
  <2>3. UsersRead(m)'
    BY <1>1, <1>5, <1>12, <1>15, <2>2, KeepsPlaces
  <2>4. TextsRead(m)'
    BY <1>1, <1>5, <1>12, <1>15, MoreLines
  <2> QED BY <1>15, <2>1, <2>3, <2>4
<1> QED BY <1>10, <1>13, <1>14, <1>15

\* Nothing has been read at the start.
LEMMA ReadInit == Init => ReadInv
<1> SUFFICES ASSUME Init PROVE ReadInv
  OBVIOUS
<1>1. phase = "start" /\ argv \in Argvs /\ left = argv /\ path = <<>> /\ config = ConfigNew /\ s = ConfigNew
  BY DEF Init
<1>2. ArgsInv
  BY <1>1, StartupAssumption DEF ArgsInv
<1>3. FileInv
  BY <1>1 DEF FileInv, Levelled, Equipping
<1>4. DOMAIN s = Settings \cup {"users", "heap"} /\ config.address = <<>>
  BY <1>1, SettingsAre DEF ConfigNew
<1>5. ServerInv
  BY <1>1, <1>4 DEF ServerInv, Levelled, Bound, Peopled, Addressed, Equipping
<1> QED BY <1>2, <1>3, <1>5 DEF ReadInv

\* Nothing is left to say of a process that ended.
LEMMA ReadEnds ==
    ASSUME ReadInv, phase' \in Ended, UNCHANGED <<argv, left, config, s>>
    PROVE  ReadInv'
<1>1. ArgsInv'
  BY DEF ReadInv, ArgsInv, Ended, Steps
<1>2. FileInv'
  BY DEF FileInv, Ended, Levelled, Equipping
<1>3. ServerInv'
  BY DEF ReadInv, ServerInv, Ended, Levelled, Bound, Peopled, Addressed, Equipping
<1> QED BY <1>1, <1>2, <1>3 DEF ReadInv

Later == {"socket", "reuse", "read", "parse", "loglevel"} \cup Levelled

\* The command line stays read.
LEMMA ArgsStay ==
    ASSUME ReadInv, phase \in {"path"} \cup Later, phase' \in Later, UNCHANGED <<argv, left, path>>,
           faults' = 0 => faults = 0
    PROVE  ArgsInv'
<1>1. argv \in Seq(STRING) /\ left \in Seq(STRING) /\ ArgsRead(Len(argv))
  BY DEF ReadInv, ArgsInv, Later, Levelled, Equipping, Steps
<1>2. ArgsRead(Len(argv))'
  BY <1>1 DEF ArgsRead
<1>3. phase' # "start" /\ phase' # "args"
  BY DEF Later, Levelled, Equipping
<1> QED BY <1>1, <1>2, <1>3 DEF ArgsInv

\* So does the file.
LEMMA FileStays ==
    ASSUME ReadInv, phase \in {"loglevel"} \cup Levelled, phase' \in Levelled,
           UNCHANGED <<file, config>>, faults' = 0 => faults = 0
    PROVE  FileInv'
<1>1. file \in Files /\ FileRead(Len(file))
  BY DEF ReadInv, FileInv
<1>2. FileRead(Len(file))'
  <2>1. PICK n : n = Len(file)
    OBVIOUS
  <2>2. FileRead(n)'
    BY <1>1, <2>1, FileReadSame
  <2> QED BY <2>1, <2>2
<1>3. phase' # "parse"
  BY DEF Levelled, Equipping
<1> QED BY <1>1, <1>2, <1>3 DEF FileInv

\* Steps of server_new that leave the settings alone.
LEMMA SettingsStay ==
    ASSUME ReadInv, phase \in Bound, phase' \in Bound, phase' \in Peopled => phase \in Peopled,
           phase' \in Addressed => phase \in Addressed,
           phase' \in Later, UNCHANGED <<argv, left, path, file, config, users, s, bound, faults>>
    PROVE  ReadInv'
<1>1. phase \in Levelled /\ phase' \in Levelled /\ phase \in Later
  BY DEF Bound, Levelled, Later
<1>2. ArgsInv' /\ FileInv'
  BY <1>1, ArgsStay, FileStays
<1>3. ServerInv'
  BY <1>1 DEF ReadInv, ServerInv, OrDefault
<1> QED BY <1>2, <1>3 DEF ReadInv

\* Every step keeps what has been read as it is written.
LEMMA ReadNext == HoldsInv /\ ReadInv /\ [Next]_vars => ReadInv'
<1> SUFFICES ASSUME HoldsInv, ReadInv, [Next]_vars PROVE ReadInv'
  OBVIOUS
<1>1. ASSUME SigintHandlerFails \/ ClapEnds \/ PathInvalid \/ Aborts \/ server_free PROVE ReadInv'
  <2>1. phase' \in Ended /\ UNCHANGED <<argv, left, config, s>>
    BY <1>1 DEF SigintHandlerFails, ClapEnds, PathInvalid, Aborts, server_free, Exits, Ended,
        inputVars, configVars, serverVars
  <2> QED BY <2>1, ReadEnds
<1>2. ASSUME ParseFails \/ InvalidLogLevel \/ AddUsersFails \/ (\E step, R : Fails(step, R)) PROVE ReadInv'
  <2>1. phase' \in Ended /\ UNCHANGED <<argv, left, config, s>>
    BY <1>2 DEF ParseFails, InvalidLogLevel, AddUsersFails, Fails, ReturnsErr, ReturnsLeaving, Ended,
        inputVars, configVars, serverVars
  <2> QED BY <2>1, ReadEnds
<1>3. ASSUME server_run \/ parse_args \/ ArgsParsed PROVE ReadInv'
  <2>1. phase \in {"start", "args"} /\ phase' \in {"args", "path"} /\ UNCHANGED <<argv, config, s>>
    BY <1>3 DEF server_run, parse_args, ArgsParsed, inputVars, configVars, serverVars
  <2>2. FileInv' /\ ServerInv'
    <3>1. DOMAIN s' = Settings \cup {"users", "heap"} /\ config'.address \in Seq(Nat)
      BY <2>1 DEF ReadInv, ServerInv
    <3>2. phase' \notin {"parse", "loglevel"} \cup Levelled \cup Bound \cup Peopled \cup Addressed
      BY <2>1 DEF Levelled, Bound, Peopled, Addressed, Equipping
    <3> QED BY <3>1, <3>2 DEF FileInv, ServerInv
  <2>3. argv \in Seq(STRING) /\ left \in Seq(STRING)
    BY DEF ReadInv, ArgsInv
  <2>4. CASE server_run
    <3>1. left' = left /\ left = argv /\ path = <<>> /\ path' = path /\ phase' = "args"
      BY <2>4 DEF server_run, inputVars, ReadInv, ArgsInv
    <3>2. Behind(left', argv', 0) /\ ArgsRead(0)'
      BY <2>1, <2>3, <3>1 DEF Behind, ArgsRead
    <3>3. 0 \in 0 .. Len(argv')
      BY <2>1, <2>3
    <3>4. ArgsInv'
      BY <2>1, <2>3, <3>1, <3>2, <3>3 DEF ArgsInv
    <3> QED BY <2>2, <3>4 DEF ReadInv
  <2>5. CASE parse_args
    <3>1. /\ phase = "args" /\ phase' = "args" /\ Len(left) >= 2 /\ left[1] \in ConfigOptions
          /\ left' = SubSeq(left, 3, Len(left))
          /\ \/ path = <<>> /\ path' = <<left[2]>> /\ UNCHANGED faults
             \/ path # <<>> /\ path' = path /\ UNCHANGED faults
             \/ Fault
      BY <2>5 DEF parse_args
    <3>2. PICK n \in 0 .. Len(argv) : Behind(left, argv, n) /\ ArgsRead(n)
      BY <3>1 DEF ReadInv, ArgsInv
    <3>3. PICK q : q = SubSeq(left, 3, Len(left))
      OBVIOUS
    <3>4. PICK l, a : l = Len(left) /\ a = Len(argv)
      OBVIOUS
    <3>5. l \in Nat /\ a \in Nat /\ n \in Nat /\ l = a - n /\ l >= 2
      BY <2>3, <3>1, <3>2, <3>4 DEF Behind
    <3>6. q \in Seq(STRING) /\ Len(q) = l - 2 /\ \A i \in 1 .. Len(q) : q[i] = left[i + 2]
      <4>1. PICK b \in Nat : b = 3
        OBVIOUS
      <4>2. q = SubSeq(left, b, l) /\ \A i \in b .. l : left[i] \in STRING
        <5>1. q = SubSeq(left, b, l)
          BY <3>3, <3>4, <4>1
        <5>2. \A i \in b .. l : i \in 1 .. Len(left)
          BY <3>4, <3>5, <4>1
        <5> QED BY <2>3, <5>1, <5>2
      <4>3. q \in Seq(STRING)
        BY <2>3, <3>4, <3>5, <4>2
      <4>4. Len(q) = l - b + 1 /\ \A i \in 1 .. Len(q) : q[i] = left[b + i - 1]
        <5>1. /\ Len(q) = IF b <= l THEN l - b + 1 ELSE 0
              /\ \A i \in 1 .. (l - b + 1) : q[i] = left[b + i - 1]
          BY <3>5, <4>2, SubSeqProperties
        <5>2. Len(q) = l - b + 1
          BY <3>5, <4>1, <5>1
        <5> QED BY <5>1, <5>2
      <4>5. Len(q) = l - 2
        BY <3>5, <4>1, <4>4
      <4>6. \A i \in 1 .. Len(q) : b + i - 1 = i + 2
        BY <3>5, <4>1, <4>5
      <4> QED BY <4>3, <4>4, <4>5, <4>6
    <3>7. \A i \in 1 .. l : left[i] = argv[n + i]
      BY <3>2, <3>4 DEF Behind
    <3>8. Behind(q, argv, n + 2)
      <4>1. Len(q) = a - (n + 2)
        BY <3>5, <3>6
      <4>2. ASSUME NEW i \in 1 .. Len(q) PROVE q[i] = argv[(n + 2) + i]
        <5>1. i + 2 \in 1 .. l /\ n + (i + 2) = (n + 2) + i
          BY <3>5, <3>6
        <5> QED BY <3>6, <3>7, <5>1
      <4> QED BY <3>4, <4>1, <4>2 DEF Behind
    <3>9. argv[n + 1] \in ConfigOptions /\ argv[n + 2] = left[2]
      BY <3>1, <3>5, <3>7
    <3>10. ArgsRead(n + 2)'
      <4>1. (n + 2) % 2 = 0
        BY <3>2, <3>5 DEF ArgsRead
      <4>2. ASSUME NEW i \in 1 .. (n + 2), i % 2 = 1 PROVE argv[i] \in ConfigOptions
        <5>1. i \in 1 .. n \/ i = n + 1
          <6>1. n % 2 = 0
            BY <3>2 DEF ArgsRead
          <6> QED BY <3>5, <4>2, <6>1
        <5>2. CASE i \in 1 .. n
          BY <3>2, <4>2, <5>2 DEF ArgsRead
        <5> QED BY <3>9, <5>1, <5>2
      <4>3. ASSUME faults' = 0 PROVE path' = <<argv[2]>>
        <5>0. faults = 0 /\ ~Fault
          BY <3>1, <4>3, Faults
        <5>1. CASE n = 0
          <6>1. path = <<>> /\ argv[2] = left[2]
            BY <3>2, <3>9, <5>1 DEF ArgsRead
          <6> QED BY <3>1, <5>0, <6>1
        <5>2. CASE n # 0
          <6>1. path = <<argv[2]>>
            BY <3>2, <5>0, <5>2 DEF ArgsRead
          <6> QED BY <3>1, <5>0, <6>1
        <5> QED BY <5>1, <5>2
      <4>4. n + 2 # 0
        BY <3>5
      <4> QED BY <2>1, <4>1, <4>2, <4>3, <4>4 DEF ArgsRead
    <3>11. n + 2 \in 0 .. Len(argv')
      BY <2>1, <3>4, <3>5
    <3>12. ArgsInv'
      BY <2>1, <2>3, <3>1, <3>3, <3>6, <3>8, <3>10, <3>11 DEF ArgsInv
    <3> QED BY <2>2, <3>12 DEF ReadInv
  <2>6. CASE ArgsParsed
    <3>1. phase = "args" /\ phase' = "path" /\ left = <<>> /\ UNCHANGED <<left, path, faults>>
      BY <2>6 DEF ArgsParsed, inputVars
    <3>2. PICK n \in 0 .. Len(argv) : Behind(left, argv, n) /\ ArgsRead(n)
      BY <3>1 DEF ReadInv, ArgsInv
    <3>3. n = Len(argv)
      BY <2>3, <3>1, <3>2 DEF Behind
    <3>4. ArgsRead(Len(argv))'
      BY <2>1, <3>1, <3>2, <3>3 DEF ArgsRead
    <3>5. ArgsInv'
      BY <2>1, <2>3, <3>1, <3>4 DEF ArgsInv
    <3> QED BY <2>2, <3>5 DEF ReadInv
  <2> QED BY <1>3, <2>4, <2>5, <2>6
<1>4. ASSUME PathOk \/ Passes("socket", "reuse", {"sfd"}) \/ Passes("reuse", "read", {}),
             UNCHANGED <<config, s>>
      PROVE  ReadInv'
  <2>1. /\ phase \in {"path", "socket", "reuse"} /\ phase' \in {"socket", "reuse", "read"}
        /\ UNCHANGED <<argv, left, path, faults>>
    BY <1>4 DEF PathOk, Passes, inputVars
  <2>2. ArgsInv'
    BY <2>1, ArgsStay DEF Later
  <2>3. DOMAIN s' = Settings \cup {"users", "heap"} /\ config'.address \in Seq(Nat)
    BY <1>4 DEF ReadInv, ServerInv
  <2>4. phase' \notin {"parse", "loglevel"} \cup Levelled \cup Bound \cup Peopled \cup Addressed
    BY <2>1 DEF Levelled, Bound, Peopled, Addressed, Equipping
  <2> QED BY <2>2, <2>3, <2>4 DEF ReadInv, FileInv, ServerInv
<1>5. ASSUME Passes("read", "parse", {"contents", "config.users"}), file' \in Files, input' = file',
             config' = ConfigNew, UNCHANGED serverVars
      PROVE  ReadInv'
  <2>1. phase = "read" /\ phase' = "parse" /\ UNCHANGED <<argv, left, path, s, faults>>
    BY <1>5 DEF Passes, inputVars, serverVars
  <2>2. ArgsInv'
    BY <2>1, ArgsStay DEF Later
  <2>3. file' \in Seq(Item)
    BY <1>5, StartupAssumption
  <2>4. Behind(input', file', 0) /\ 0 \in 0 .. Len(file')
    BY <1>5, <2>3 DEF Behind
  <2>5. SettingsRead(0)'
    <3>1. \A name \in Settings : ConfigNew[name] = Unset[name]
      <4>1. /\ ConfigNew.address = <<>> /\ Unset.address = <<>>
        BY DEF ConfigNew, Unset
      <4>2. /\ ConfigNew.port = Unset.port /\ ConfigNew.databases = Unset.databases
            /\ ConfigNew.loglevel = Unset.loglevel
        BY DEF ConfigNew, Unset
      <4> QED BY <4>1, <4>2, SettingsAre
    <3>2. \A i \in 1 .. 0 : FALSE
      OBVIOUS
    <3> QED BY <1>5, <3>1, <3>2 DEF SettingsRead, SettingRead
  <2>6. UsersRead(0)'
    <3>1. config'.users = <<>>
      BY <1>5, NewOK
    <3>2. \A i \in 1 .. 0 : FALSE
      OBVIOUS
    <3>3. Places(<<>>, 0)'
      BY <3>1, <3>2 DEF Places
    <3> QED BY <3>3 DEF UsersRead
  <2>10. TextsRead(0)'
    <3>1. config'.heap = {} /\ config'.address = Unset.address /\ config'.loglevel = Unset.loglevel
      BY <1>5 DEF ConfigNew, Unset
    <3> QED BY <3>1 DEF TextsRead
  <2>7. FileInv'
    BY <1>5, <2>1, <2>3, <2>4, <2>5, <2>6, <2>10 DEF FileInv, FileRead, Levelled, Equipping
  <2>8. DOMAIN s' = Settings \cup {"users", "heap"} /\ config'.address \in Seq(Nat)
    <3>1. config'.address = <<>>
      BY <1>5 DEF ConfigNew
    <3>2. DOMAIN s' = Settings \cup {"users", "heap"}
      BY <2>1 DEF ReadInv, ServerInv
    <3> QED BY <3>1, <3>2
  <2>9. ServerInv'
    BY <2>1, <2>8 DEF ServerInv, Levelled, Bound, Peopled, Addressed, Equipping
  <2> QED BY <2>2, <2>7, <2>9 DEF ReadInv
<1>6. ASSUME config_parser_parse PROVE ReadInv'
  <2>1. /\ phase = "parse" /\ phase' = "parse" /\ UNCHANGED <<argv, left, path, s>>
        /\ Fault \/ UNCHANGED faults
    BY <1>6 DEF config_parser_parse, inputVars, serverVars
  <2>2. ArgsInv'
    BY <2>1, Faults, ArgsStay DEF Later
  <2>3. /\ file' \in Files /\ input' \in Seq(Item) /\ config'.address \in Seq(Nat)
        /\ \E k \in 0 .. Len(file') : Behind(input', file', k) /\ FileRead(k)'
    BY <1>6, ParsesItem DEF ReadInv, ServerInv
  <2>4. FileInv'
    BY <2>1, <2>3 DEF FileInv, Levelled, Equipping
  <2>5. ServerInv'
    BY <2>1, <2>3 DEF ReadInv, ServerInv, Levelled, Bound, Peopled, Addressed, Equipping
  <2> QED BY <2>2, <2>4, <2>5 DEF ReadInv
<1>7. ASSUME ParsedAll PROVE ReadInv'
  <2>1. /\ phase = "parse" /\ phase' = "loglevel" /\ skip_comments(input) = <<>>
        /\ UNCHANGED <<argv, left, path, s, file, config, faults>>
    BY <1>7 DEF ParsedAll, inputVars, serverVars, configVars
  <2>2. ArgsInv'
    BY <2>1, ArgsStay DEF Later
  <2>3. file \in Files /\ file \in Seq(Item) /\ input \in Seq(Item)
    BY <2>1, FileTyped DEF ReadInv, FileInv
  <2>4. PICK k \in 0 .. Len(file) : Behind(input, file, k) /\ FileRead(k)
    BY <2>1 DEF ReadInv, FileInv
  <2>5. \A i \in (k + 1) .. Len(file) : file[i].type = "comment"
    BY <2>1, <2>3, <2>4, SkipsToItem
  <2>6. k \in Nat /\ Len(file) \in Nat /\ k <= Len(file)
    BY <2>3
  <2>7. PICK n : n = Len(file)
    OBVIOUS
  <2>8. FileRead(n)
    BY <2>4, <2>5, <2>6, <2>7, CommentsAreSkipped
  <2>9. FileRead(n)'
    BY <2>1, <2>8, FileReadSame
  <2>10. FileInv'
    BY <2>1, <2>3, <2>7, <2>9 DEF FileInv
  <2>11. ServerInv'
    BY <2>1 DEF ReadInv, ServerInv, Levelled, Bound, Peopled, Addressed, Equipping
  <2> QED BY <2>2, <2>10, <2>11 DEF ReadInv
<1>8. ASSUME determine_loglevel PROVE ReadInv'
  <2>1. /\ phase = "loglevel" /\ phase' = "bind" /\ UNCHANGED <<argv, left, path, file, config, faults>>
        /\ s' = [s EXCEPT !.loglevel = OrDefault("loglevel", "info")]
    BY <1>8 DEF determine_loglevel, inputVars, configVars
  <2>2. ArgsInv' /\ FileInv'
    BY <2>1, ArgsStay, FileStays DEF Later, Levelled
  <2>3. DOMAIN s = Settings \cup {"users", "heap"} /\ config.address \in Seq(Nat)
    BY DEF ReadInv, ServerInv
  <2>4. s'.loglevel = OrDefault("loglevel", "info") /\ DOMAIN s' = Settings \cup {"users", "heap"}
    BY <2>1, <2>3, SettingsAre
  <2>5. OrDefault("loglevel", "info")' = OrDefault("loglevel", "info")
    BY <2>1 DEF OrDefault
  <2>6. ServerInv'
    BY <2>1, <2>3, <2>4, <2>5 DEF ServerInv, Levelled, Bound, Peopled, Addressed, Equipping
  <2> QED BY <2>2, <2>6 DEF ReadInv
<1>9. ASSUME Passes("bind", "listen", {}), UNCHANGED <<configVars, users>>,
             bound' = parse_addr(OrDefault("address", DEFAULT_ADDRESS)),
             s' = [s EXCEPT !.port = OrDefault("port", DEFAULT_PORT)]
      PROVE  ReadInv'
  <2>1. phase = "bind" /\ phase' = "listen" /\ UNCHANGED <<argv, left, path, file, config, faults>>
    BY <1>9 DEF Passes, inputVars, configVars
  <2>2. ArgsInv' /\ FileInv'
    BY <2>1, ArgsStay, FileStays DEF Later, Levelled
  <2>3. /\ DOMAIN s = Settings \cup {"users", "heap"} /\ config.address \in Seq(Nat)
        /\ s.loglevel = OrDefault("loglevel", "info")
    BY <2>1 DEF ReadInv, ServerInv, Levelled
  <2>4. /\ s'.loglevel = s.loglevel /\ DOMAIN s' = Settings \cup {"users", "heap"}
        /\ s'.port = OrDefault("port", DEFAULT_PORT)
    BY <1>9, <2>3, SettingsAre
  <2>5. /\ OrDefault("loglevel", "info")' = OrDefault("loglevel", "info")
        /\ OrDefault("port", DEFAULT_PORT)' = OrDefault("port", DEFAULT_PORT)
        /\ parse_addr(OrDefault("address", DEFAULT_ADDRESS))' = parse_addr(OrDefault("address", DEFAULT_ADDRESS))
    BY <2>1 DEF OrDefault, parse_addr
  <2>6. ServerInv'
    BY <1>9, <2>1, <2>3, <2>4, <2>5 DEF ServerInv, Levelled, Bound, Peopled, Addressed, Equipping
  <2> QED BY <2>2, <2>6 DEF ReadInv
<1>10. ASSUME \/ Passes("listen", "users", {}) \/ Passes("users", "add_users", {"users"})
              \/ Passes("exec", "addr", {"exec", "os"}) \/ Passes("clients", "ev", {"clients"})
              \/ Passes("ev", "register", {"ev"}) \/ Passes("register", "db", {"help"}),
              UNCHANGED <<configVars, serverVars>>
       PROVE  ReadInv'
  <2>1. /\ \/ phase \in {"listen", "users"} /\ phase' \in {"users", "add_users"}
           \/ phase = "exec" /\ phase' = "addr"
           \/ phase \in Equipping \ {"exec", "addr"} /\ phase' \in Equipping
        /\ UNCHANGED <<argv, left, path, file, config, users, s, bound, faults>>
    BY <1>10 DEF Passes, Equipping, inputVars, configVars, serverVars
  <2>2. /\ phase \in Bound /\ phase' \in Bound /\ phase' \in Later /\ (phase' \in Peopled => phase \in Peopled)
        /\ phase' \in Addressed => phase \in Addressed
    BY <2>1 DEF Bound, Later, Levelled, Peopled, Addressed, Equipping
  <2> QED BY <2>1, <2>2, SettingsStay
<1>11. ASSUME lexidb_new PROVE ReadInv'
  <2>1. /\ phase = "db" /\ phase' = "running"
        /\ UNCHANGED <<argv, left, path, file, config, users, s, bound, faults>>
    BY <1>11 DEF lexidb_new, inputVars, configVars, serverVars
  <2>2. phase \in Bound /\ phase' \in Bound /\ phase' \in Later /\ phase \in Peopled /\ phase \in Addressed
    BY <2>1 DEF Bound, Later, Levelled, Peopled, Addressed, Equipping
  <2> QED BY <2>1, <2>2, SettingsStay
<1>12. ASSUME add_users PROVE ReadInv'
  <2>1. /\ phase = "add_users" /\ phase' = "exec" /\ Distinct(Iterated(config.users))
        /\ UNCHANGED <<argv, left, path, file, config, bound, faults>>
        /\ users' = [i \in DOMAIN config.users |->
                        [config.users[i] EXCEPT !.password = hash_password(@)]]
        /\ s' = [s EXCEPT !.databases = OrDefault("databases", DEFAULT_DATABASES)]
    BY <1>12 DEF add_users, inputVars, configVars
  <2>2. ArgsInv' /\ FileInv'
    BY <2>1, ArgsStay, FileStays DEF Later, Levelled, Equipping
  <2>3. /\ DOMAIN s = Settings \cup {"users", "heap"} /\ config.address \in Seq(Nat)
        /\ s.loglevel = OrDefault("loglevel", "info")
        /\ s.port = OrDefault("port", DEFAULT_PORT)
        /\ bound = parse_addr(OrDefault("address", DEFAULT_ADDRESS))
    BY <2>1 DEF ReadInv, ServerInv, Levelled, Bound
  <2>4. /\ s'.loglevel = s.loglevel /\ s'.port = s.port /\ DOMAIN s' = Settings \cup {"users", "heap"}
        /\ s'.databases = OrDefault("databases", DEFAULT_DATABASES)
    BY <2>1, <2>3, SettingsAre
  <2>5. /\ OrDefault("loglevel", "info")' = OrDefault("loglevel", "info")
        /\ OrDefault("port", DEFAULT_PORT)' = OrDefault("port", DEFAULT_PORT)
        /\ OrDefault("databases", DEFAULT_DATABASES)' = OrDefault("databases", DEFAULT_DATABASES)
    BY <2>1 DEF OrDefault
  <2>6. parse_addr(OrDefault("address", DEFAULT_ADDRESS))' = parse_addr(OrDefault("address", DEFAULT_ADDRESS))
    BY <2>1 DEF OrDefault, parse_addr
  <2>7. Distinct(config.users)
    BY <2>1, UsersGiven DEF Iterated
  <2>8. Distinct(config.users)'
    BY <2>1, <2>7 DEF Distinct
  <2>9. ServerInv'
    BY <2>1, <2>3, <2>4, <2>5, <2>6, <2>8 DEF ServerInv, Addressed
  <2> QED BY <2>2, <2>9 DEF ReadInv
<1>14. ASSUME vstr_from_addr PROVE ReadInv'
  <2>1. /\ phase = "addr" /\ phase' = "clients" /\ UNCHANGED <<argv, left, path, file, config, users, bound, faults>>
        /\ \E text, heap : s' = [s EXCEPT !.address = text, !.heap = heap]
        /\ "address" \notin config.heap =>
              \E heap : s' = [s EXCEPT !.address = OrDefault("address", DEFAULT_ADDRESS), !.heap = heap]
    BY <1>14 DEF vstr_from_addr, inputVars, configVars
  <2>2. ArgsInv' /\ FileInv'
    BY <2>1, ArgsStay, FileStays DEF Later, Levelled, Equipping
  <2>3. /\ DOMAIN s = Settings \cup {"users", "heap"} /\ config.address \in Seq(Nat)
        /\ s.loglevel = OrDefault("loglevel", "info")
        /\ s.port = OrDefault("port", DEFAULT_PORT)
        /\ s.databases = OrDefault("databases", DEFAULT_DATABASES)
        /\ bound = parse_addr(OrDefault("address", DEFAULT_ADDRESS)) /\ Distinct(config.users)
        /\ users = [i \in DOMAIN config.users |-> [config.users[i] EXCEPT !.password = hash_password(@)]]
    BY <2>1 DEF ReadInv, ServerInv, Levelled, Bound, Peopled, Equipping
  <2>4. /\ s'.loglevel = s.loglevel /\ s'.port = s.port /\ s'.databases = s.databases
        /\ DOMAIN s' = Settings \cup {"users", "heap"}
        /\ "address" \notin config.heap => s'.address = OrDefault("address", DEFAULT_ADDRESS)
    BY <2>1, <2>3, SettingsAre
  <2>5. /\ OrDefault("loglevel", "info")' = OrDefault("loglevel", "info")
        /\ OrDefault("port", DEFAULT_PORT)' = OrDefault("port", DEFAULT_PORT)
        /\ OrDefault("databases", DEFAULT_DATABASES)' = OrDefault("databases", DEFAULT_DATABASES)
        /\ OrDefault("address", DEFAULT_ADDRESS)' = OrDefault("address", DEFAULT_ADDRESS)
    BY <2>1 DEF OrDefault
  <2>6. parse_addr(OrDefault("address", DEFAULT_ADDRESS))' = parse_addr(OrDefault("address", DEFAULT_ADDRESS))
    <3>1. config' = config
      BY <2>1
    <3> QED BY <3>1 DEF OrDefault, parse_addr
  <2>7. Distinct(config.users)'
    BY <2>1, <2>3 DEF Distinct
  <2>8. ServerInv'
    BY <2>1, <2>3, <2>4, <2>5, <2>6, <2>7 DEF ServerInv
  <2> QED BY <2>2, <2>8 DEF ReadInv
<1>13. ASSUME UNCHANGED vars PROVE ReadInv'
  <2>1. UNCHANGED <<phase, argv, left, path, file, input, config, users, s, bound, faults>>
    BY <1>13 DEF vars
  <2>2. ArgsInv'
    BY <2>1 DEF ReadInv, ArgsInv, ArgsRead
  <2>3. ServerInv'
    BY <2>1 DEF ReadInv, ServerInv, OrDefault, Distinct
  <2>4. \A k : FileRead(k) => FileRead(k)'
    BY <2>1, FileReadSame
  <2>5. FileInv'
    BY <2>1, <2>4 DEF ReadInv, FileInv
  <2> QED BY <2>2, <2>3, <2>5 DEF ReadInv
<1> QED
  BY <1>1, <1>2, <1>3, <1>4, <1>5, <1>6, <1>7, <1>8, <1>9, <1>10, <1>11, <1>12, <1>13, <1>14
  DEF Next, Starts, server_new, create_tcp_socket, set_reuse_addr, read_file, tcp_bind, tcp_listen,
      users_vec_new, get_executable_path, clients_vec_new, ev_new, RegisterAccept,
      PathOk, configVars, serverVars

\* A setting is the one the file gives, or the default.
LEMMA SettingIsGiven ==
    ASSUME file \in Seq(Item), SettingsRead(Len(file)), NumbersFit, NEW name \in Settings, NEW default
    PROVE  {OrDefault(name, default)} = GivenOrDefault(name, default)
<1>1. SettingRead(name, Len(file)) /\ DOMAIN file = 1 .. Len(file)
  BY DEF SettingsRead
<1>2. ASSUME NEW v PROVE v \in Given(name) <=> v # Unset[name] /\ v = config[name]
  <2>1. ASSUME v \in Given(name) PROVE v # Unset[name] /\ v = config[name]
    BY <1>1, <2>1 DEF Given, SettingRead
  <2>2. ASSUME v # Unset[name], v = config[name] PROVE v \in Given(name)
    BY <1>1, <2>2 DEF Given, SettingRead
  <2> QED BY <2>1, <2>2
<1>3. CASE config[name] = Unset[name]
  <2>1. Given(name) = {}
    BY <1>2, <1>3
  <2> QED BY <1>3, <2>1 DEF OrDefault, GivenOrDefault
<1>4. CASE config[name] # Unset[name]
  <2>1. Given(name) = {config[name]}
    BY <1>2, <1>4
  <2> QED BY <1>4, <2>1 DEF OrDefault, GivenOrDefault
<1> QED BY <1>3, <1>4

\* parse_addr gives a dotted address its own bytes, when the sign of none is spread
\* over those before it.
LEMMA DottedIsKept ==
    ASSUME NEW a \in Seq(Nat), Dotted(a), \A i \in 2 .. 4 : a[i] < 128
    PROVE  parse_addr(a) = a
<1>1. Len(a) = 4 /\ DOMAIN a = 1 .. 4 /\ \A i \in 1 .. 4 : a[i] \in Nat /\ a[i] < 256
  <2>1. Len(a) = 4 /\ DOMAIN a = 1 .. 4
    BY DEF Dotted
  <2>2. \A i \in 1 .. 4 : a[i] \in Nat /\ a[i] <= 255
    <3>1. \A i \in DOMAIN a : a[i] \in Nat
      OBVIOUS
    <3>2. \A i \in 1 .. 4 : a[i] <= 255
      BY DEF Dotted
    <3> QED BY <2>1, <3>1, <3>2
  <2> QED BY <2>1, <2>2
<1>2. \A i \in 1 .. 4 : ByteOf(i, 4) = i /\ a[i] % 256 = a[i]
  BY SMTT(60), <1>1, SmallRemainder DEF ByteOf
<1>3. ASSUME NEW b \in 1 .. 4
      PROVE  /\ {i \in DOMAIN a : ByteOf(i, Len(a)) = b} = {b}
             /\ {i \in DOMAIN a : ByteOf(i, Len(a)) > b /\ a[i] % 256 >= 128} = {}
  <2>1. {i \in DOMAIN a : ByteOf(i, Len(a)) = b} = {b}
    BY <1>1, <1>2
  <2>2. ASSUME NEW i \in 1 .. 4, ByteOf(i, 4) > b, a[i] % 256 >= 128 PROVE FALSE
    <3>1. i > b /\ a[i] >= 128
      BY <1>2, <2>2
    <3>2. i \in 2 .. 4
      BY <3>1
    <3> QED BY <1>1, <3>1, <3>2
  <2> QED BY <1>1, <2>1, <2>2
<1>4. ASSUME NEW b \in 1 .. 4
      PROVE  LET own  == {i \in DOMAIN a : ByteOf(i, Len(a)) = b}
                 byte == IF own = {} THEN 0 ELSE a[CHOOSE i \in own : TRUE] % 256
                 negative == {i \in DOMAIN a : ByteOf(i, Len(a)) > b /\ a[i] % 256 >= 128}
             IN  (IF Cardinality(negative) % 2 = 1 THEN 255 - byte ELSE byte) = a[b]
  <2>1. Cardinality({}) = 0
    BY FS_EmptySet
  <2>2. (CHOOSE i \in {b} : TRUE) = b
    OBVIOUS
  <2>3. a[b] % 256 = a[b] /\ {b} # {}
    BY <1>2
  <2> DEFINE own  == {i \in DOMAIN a : ByteOf(i, Len(a)) = b}
             byte == IF own = {} THEN 0 ELSE a[CHOOSE i \in own : TRUE] % 256
             negative == {i \in DOMAIN a : ByteOf(i, Len(a)) > b /\ a[i] % 256 >= 128}
  <2>4. own = {b} /\ negative = {}
    BY <1>3
  <2>5. byte = a[b]
    <3> HIDE DEF own
    <3> QED BY <2>2, <2>3, <2>4
  <2>6. Cardinality(negative) % 2 # 1
    <3> HIDE DEF negative
    <3> QED BY <2>1, <2>4
  <2>7. (IF Cardinality(negative) % 2 = 1 THEN 255 - byte ELSE byte) = a[b]
    <3> HIDE DEF negative, byte
    <3> QED BY <2>5, <2>6
  <2> QED BY <2>7, Zenon
<1>5. parse_addr(a) = [b \in 1 .. 4 |-> a[b]]
  BY <1>4, ZenonT(60) DEF parse_addr
<1>6. a = [b \in 1 .. 4 |-> a[b]]
  BY <1>1
<1> QED BY <1>5, <1>6

\* The invariant implies the property about settings.
LEMMA ReadMeansWritten == ReadInv => ConfigAsWritten
<1> SUFFICES ASSUME ReadInv, phase = "running"
             PROVE  /\ faults = 0 => path = IF argv = <<>> THEN <<>> ELSE <<argv[2]>>
                    /\ NumbersFit =>
                        /\ ShortAddresses => {s.address} = GivenOrDefault("address", DEFAULT_ADDRESS)
                        /\ {s.loglevel}  = GivenOrDefault("loglevel", "info")
                        /\ {s.port}      = GivenOrDefault("port", DEFAULT_PORT)
                        /\ {s.databases} = GivenOrDefault("databases", DEFAULT_DATABASES)
                        /\ \A a \in GivenOrDefault("address", DEFAULT_ADDRESS) :
                              Dotted(a) /\ (\A i \in 2 .. 4 : a[i] < 128) => bound = a
  BY DEF ConfigAsWritten
<1>1. argv \in Seq(STRING) /\ ArgsRead(Len(argv))
  BY DEF ReadInv, ArgsInv
<1>2. faults = 0 => path = IF argv = <<>> THEN <<>> ELSE <<argv[2]>>
  <2>1. argv = <<>> <=> Len(argv) = 0
    BY <1>1
  <2> QED BY <1>1, <2>1 DEF ArgsRead
<1>3. phase \in Levelled /\ phase \in Bound /\ phase \in Peopled /\ phase \in Addressed
  BY DEF Levelled, Bound, Peopled, Addressed
<1>4. /\ s.loglevel = OrDefault("loglevel", "info") /\ s.port = OrDefault("port", DEFAULT_PORT)
      /\ s.databases = OrDefault("databases", DEFAULT_DATABASES)
      /\ "address" \notin config.heap => s.address = OrDefault("address", DEFAULT_ADDRESS)
      /\ bound = parse_addr(OrDefault("address", DEFAULT_ADDRESS)) /\ config.address \in Seq(Nat)
  BY <1>3 DEF ReadInv, ServerInv
<1>5. file \in Seq(Item) /\ SettingsRead(Len(file)) /\ TextsRead(Len(file))
  BY <1>3, FileTyped DEF ReadInv, FileInv, FileRead
<1>6. ShortAddresses => "address" \notin config.heap
  BY <1>5 DEF TextsRead, ShortAddresses
<1>7. ASSUME NumbersFit
      PROVE  /\ ShortAddresses => {s.address} = GivenOrDefault("address", DEFAULT_ADDRESS)
             /\ {s.loglevel}  = GivenOrDefault("loglevel", "info")
             /\ {s.port}      = GivenOrDefault("port", DEFAULT_PORT)
             /\ {s.databases} = GivenOrDefault("databases", DEFAULT_DATABASES)
             /\ {OrDefault("address", DEFAULT_ADDRESS)} = GivenOrDefault("address", DEFAULT_ADDRESS)
  BY <1>4, <1>5, <1>6, <1>7, SettingIsGiven, SettingsAre
<1>8. OrDefault("address", DEFAULT_ADDRESS) \in Seq(Nat)
  BY <1>4, StartupAssumption DEF OrDefault
<1>9. ASSUME NumbersFit, NEW a \in GivenOrDefault("address", DEFAULT_ADDRESS), Dotted(a),
             \A i \in 2 .. 4 : a[i] < 128
      PROVE  bound = a
  <2>1. a = OrDefault("address", DEFAULT_ADDRESS)
    BY <1>7, <1>9
  <2> QED BY <1>4, <1>8, <1>9, <2>1, DottedIsKept
<1> QED BY <1>2, <1>7, <1>9

\* It implies the one about users.
LEMMA ReadMeansUsers == HoldsInv /\ ReadInv => UsersAsWritten
<1> SUFFICES ASSUME HoldsInv, ReadInv, phase = "running"
             PROVE  /\ users # <<>> /\ Distinct(users)
                    /\ \E at \in [DOMAIN users -> UserLines] :
                          /\ \A i, j \in DOMAIN users : i < j => at[i] < at[j]
                          /\ \A i \in DOMAIN users : users[i] = Known(file[at[i]])
                          /\ faults = 0 => \A k \in UserLines : \E i \in DOMAIN users : at[i] = k
  BY DEF UsersAsWritten
<1>1. users # <<>>
  BY DEF HoldsInv
<1>2. phase \in Levelled /\ phase \in Peopled
  BY DEF Levelled, Peopled
<1>3. /\ Distinct(config.users)
      /\ users = [i \in DOMAIN config.users |-> [config.users[i] EXCEPT !.password = hash_password(@)]]
  BY <1>2 DEF ReadInv, ServerInv
<1>4. file \in Seq(Item) /\ UsersRead(Len(file))
  BY <1>2, FileTyped DEF ReadInv, FileInv, FileRead
<1>5. PICK at : Places(at, Len(file))
  BY <1>4 DEF UsersRead
<1>6. DOMAIN users = DOMAIN config.users /\ DOMAIN file = 1 .. Len(file)
  BY <1>3, <1>4
<1>7. ASSUME NEW i \in DOMAIN users
      PROVE  at[i] \in UserLines /\ users[i] = Known(file[at[i]]) /\ users[i].name = config.users[i].name
  <2>1. /\ at[i] \in 1 .. Len(file) /\ file[at[i]].type = "user"
        /\ config.users[i] = [name |-> file[at[i]].word, password |-> Password(file[at[i]])]
    BY <1>5, <1>6 DEF Places
  <2>2. users[i] = [config.users[i] EXCEPT !.password = hash_password(@)]
    BY <1>3, <1>6
  <2>3. users[i] = Known(file[at[i]]) /\ users[i].name = config.users[i].name
    BY <2>1, <2>2 DEF Known
  <2> QED BY <1>6, <2>1, <2>3 DEF UserLines
<1>8. Distinct(users)
  BY <1>3, <1>6, <1>7 DEF Distinct
<1>9. PICK fn : fn = [i \in DOMAIN users |-> at[i]]
  OBVIOUS
<1>10. fn \in [DOMAIN users -> UserLines] /\ \A i \in DOMAIN users : fn[i] = at[i]
  BY <1>7, <1>9
<1>11. \A i, j \in DOMAIN users : i < j => fn[i] < fn[j]
  BY <1>5, <1>6, <1>10 DEF Places
<1>12. faults = 0 => \A k \in UserLines : \E i \in DOMAIN users : fn[i] = k
  BY <1>5, <1>6, <1>10 DEF Places, UserLines
<1> QED BY <1>1, <1>7, <1>8, <1>10, <1>11, <1>12

-----------------------------------------------------------------------------
(* What is lost *)

Unread == {"start", "args", "path", "socket", "reuse", "read"}

\* What a start without a failed call has lost so far, and why.
LostByInput ==
    /\ leaked \subseteq {"hash", "value", "text", "password"}
    /\ "hash" \in leaked => phase = "exited" /\ code = 1 /\ UserLines = {}
    /\ "value" \in leaked => \E i \in 4 .. Len(argv) : i % 2 = 0 /\ argv[i] \in Long
    /\ "text" \in leaked => phase = "exited" /\ code = 1 /\ \E i, j \in DOMAIN file :
          i < j /\ file[i].type = file[j].type /\ OwnText(file[j]) # {}
    /\ "password" \in leaked => phase \notin Unread /\ \E i \in UserLines : LostPasswords(file[i]) # {}

LeaksInv == faults = 0 => LostByInput

LEMMA LeaksInit == Init => LeaksInv
BY DEF Init, LeaksInv, LostByInput

\* A step that loses nothing.
LEMMA NothingLost ==
    ASSUME LeaksInv, phase # "exited", UNCHANGED <<argv, leaked>>, faults' = 0 => faults = 0,
           phase \in Unread \/ (phase' \notin Unread /\ UNCHANGED file)
    PROVE  LeaksInv'
<1> SUFFICES ASSUME faults' = 0 PROVE LostByInput'
  BY DEF LeaksInv
<1>1. LostByInput
  BY DEF LeaksInv
<1>2. "hash" \notin leaked /\ "text" \notin leaked
  BY <1>1 DEF LostByInput
<1>3. CASE phase \in Unread
  BY <1>1, <1>2, <1>3 DEF LostByInput
<1>4. CASE phase' \notin Unread /\ UNCHANGED file
  BY <1>1, <1>2, <1>4 DEF LostByInput, UserLines
<1> QED BY <1>3, <1>4

\* A step that loses the passwords of line m, at most.
LEMMA PasswordsLost ==
    ASSUME LeaksInv, NEW m \in DOMAIN file, phase \notin Unread, phase # "exited", phase' \notin Unread,
           UNCHANGED <<argv, file>>, faults' = 0 => faults = 0,
           leaked' \subseteq leaked \cup LostPasswords(file[m])
    PROVE  LeaksInv'
<1> SUFFICES ASSUME faults' = 0 PROVE LostByInput'
  BY DEF LeaksInv
<1>1. LostByInput
  BY DEF LeaksInv
<1>2. LostPasswords(file[m]) \subseteq {"password"} /\ (LostPasswords(file[m]) # {} => m \in UserLines)
  BY DEF LostPasswords, UserLines
<1>3. UserLines' = UserLines
  BY DEF UserLines
<1>4. "hash" \notin leaked' /\ "text" \notin leaked'
  BY <1>1, <1>2 DEF LostByInput
<1>5. "password" \in leaked' => \E i \in UserLines : LostPasswords(file[i]) # {}
  <2>1. CASE "password" \in leaked
    BY <1>1, <2>1 DEF LostByInput
  <2>2. CASE "password" \notin leaked
    BY <1>2, <2>2
  <2> QED BY <2>1, <2>2
<1> QED BY <1>1, <1>2, <1>3, <1>4, <1>5 DEF LostByInput

\* The item that the parser's loop looks at.
LEMMA NextItem ==
    ASSUME FileInv, phase = "parse", skip_comments(input) # <<>>
    PROVE  \E m \in DOMAIN file : Head(skip_comments(input)) = file[m] /\ FileRead(m - 1)
<1>1. file \in Files /\ file \in Seq(Item) /\ input \in Seq(Item)
  BY FileTyped DEF FileInv
<1>2. PICK k \in 0 .. Len(file) : Behind(input, file, k) /\ FileRead(k)
  BY DEF FileInv
<1>3. PICK m \in (k + 1) .. Len(file) :
         /\ Head(skip_comments(input)) = file[m]
         /\ \A i \in (k + 1) .. (m - 1) : file[i].type = "comment"
  BY <1>1, <1>2, SkipsToItem
<1>4. k \in Nat /\ m - 1 \in Nat /\ k <= m - 1 /\ m \in DOMAIN file
  BY <1>1
<1>5. FileRead(m - 1)
  BY <1>2, <1>3, <1>4, CommentsAreSkipped
<1> QED BY <1>3, <1>4, <1>5

\* Every step loses no more than LostByInput says.
LEMMA LeaksNext == HoldsInv /\ ReadInv /\ LeaksInv /\ [Next]_vars => LeaksInv'
<1> SUFFICES ASSUME HoldsInv, ReadInv, LeaksInv, [Next]_vars PROVE LeaksInv'
  OBVIOUS
<1>1. ASSUME \/ server_run \/ SigintHandlerFails \/ ClapEnds \/ ArgsParsed \/ PathOk \/ PathInvalid
             \/ create_tcp_socket \/ set_reuse_addr \/ read_file \/ Aborts
      PROVE  LeaksInv'
  <2>1. phase # "exited" /\ UNCHANGED <<argv, leaked>> /\ (Fault \/ UNCHANGED faults)
    BY <1>1 DEF server_run, SigintHandlerFails, ClapEnds, ArgsParsed, PathOk, PathInvalid, create_tcp_socket,
        set_reuse_addr, read_file, Aborts, Exits, Passes, Fails, ReturnsErr, ReturnsLeaving, inputVars
  <2>2. phase \in Unread \/ (phase' \notin Unread /\ UNCHANGED file)
    BY <1>1 DEF server_run, SigintHandlerFails, ClapEnds, ArgsParsed, PathOk, PathInvalid, create_tcp_socket,
        set_reuse_addr, read_file, Aborts, Passes, Fails, Unread, configVars
  <2> QED BY <2>1, <2>2, Faults, NothingLost
<1>2. ASSUME \/ ParsedAll \/ determine_loglevel \/ InvalidLogLevel \/ tcp_bind \/ tcp_listen \/ users_vec_new
             \/ add_users \/ get_executable_path \/ vstr_from_addr \/ clients_vec_new \/ ev_new
             \/ RegisterAccept \/ lexidb_new \/ server_free
      PROVE  LeaksInv'
  <2>1. phase # "exited" /\ UNCHANGED <<argv, leaked>> /\ (Fault \/ UNCHANGED faults)
    BY <1>2 DEF ParsedAll, determine_loglevel, InvalidLogLevel, tcp_bind, tcp_listen, users_vec_new, add_users,
        get_executable_path, vstr_from_addr, clients_vec_new, ev_new, RegisterAccept, lexidb_new, server_free,
        Exits, Passes, Fails, ReturnsErr, ReturnsLeaving, inputVars
  <2>2. phase' \notin Unread /\ UNCHANGED file
    BY <1>2 DEF ParsedAll, determine_loglevel, InvalidLogLevel, tcp_bind, tcp_listen, users_vec_new, add_users,
        get_executable_path, vstr_from_addr, clients_vec_new, ev_new, RegisterAccept, lexidb_new, server_free,
        Exits, Passes, Fails, ReturnsErr, ReturnsLeaving, Unread, configVars
  <2> QED BY <2>1, <2>2, Faults, NothingLost
<1>3. ASSUME parse_args PROVE LeaksInv'
  <2> SUFFICES ASSUME faults' = 0 PROVE LostByInput'
    BY DEF LeaksInv
  <2>1. /\ phase = "args" /\ UNCHANGED <<phase, argv, code>> /\ Len(left) >= 2
        /\ Fault \/ UNCHANGED faults
    BY <1>3 DEF parse_args
  <2>2. faults = 0 /\ ~Fault /\ LostByInput
    BY <2>1, Faults DEF LeaksInv
  <2>3. "hash" \notin leaked /\ "text" \notin leaked /\ "password" \notin leaked
    BY <2>1, <2>2 DEF LostByInput, Unread
  <2>4. leaked' = leaked \/ (leaked' \subseteq leaked \cup {"value"} /\ path # <<>> /\ left[2] \in Long)
    BY <1>3, <2>2 DEF parse_args
  <2>5. CASE leaked' = leaked
    BY <2>1, <2>2, <2>3, <2>5 DEF LostByInput
  <2>6. CASE leaked' \subseteq leaked \cup {"value"} /\ path # <<>> /\ left[2] \in Long
    <3>1. argv \in Seq(STRING) /\ left \in Seq(STRING)
      BY DEF ReadInv, ArgsInv
    <3>2. PICK n \in 0 .. Len(argv) : Behind(left, argv, n) /\ ArgsRead(n)
      BY <2>1 DEF ReadInv, ArgsInv
    <3>3. PICK l, a : l = Len(left) /\ a = Len(argv)
      OBVIOUS
    <3>4. l \in Nat /\ a \in Nat /\ n \in Nat /\ l = a - n /\ l >= 2
      BY <2>1, <3>1, <3>2, <3>3 DEF Behind
    <3>5. n # 0 /\ n % 2 = 0
      BY <2>6, <3>2 DEF ArgsRead
    <3>6. n + 2 \in 4 .. a /\ (n + 2) % 2 = 0
      BY <3>4, <3>5
    <3>7. argv[n + 2] = left[2]
      BY <3>2, <3>3, <3>4 DEF Behind
    <3>8. \E i \in 4 .. Len(argv) : i % 2 = 0 /\ argv[i] \in Long
      BY <2>6, <3>3, <3>6, <3>7
    <3> QED BY <2>1, <2>2, <2>3, <2>6, <3>8 DEF LostByInput
  <2> QED BY <2>4, <2>5, <2>6
<1>4. ASSUME config_parser_parse PROVE LeaksInv'
  <2>1. /\ phase = "parse" /\ UNCHANGED <<phase, argv, file>> /\ skip_comments(input) # <<>>
    BY <1>4 DEF config_parser_parse, inputVars
  <2>2. PICK m \in DOMAIN file : Head(skip_comments(input)) = file[m]
    BY <2>1, NextItem DEF ReadInv
  <2>3. /\ phase \notin Unread /\ phase # "exited" /\ phase' \notin Unread
    BY <2>1 DEF Unread
  <2>4. Fault \/ (UNCHANGED faults /\ leaked' \subseteq leaked \cup LostPasswords(file[m]))
    BY <1>4, <2>2 DEF config_parser_parse
  <2>5. CASE Fault
    BY <2>5, Faults DEF LeaksInv
  <2>6. CASE UNCHANGED faults /\ leaked' \subseteq leaked \cup LostPasswords(file[m])
    BY <2>1, <2>3, <2>6, PasswordsLost
  <2> QED BY <2>4, <2>5, <2>6
<1>5. ASSUME ParseFails PROVE LeaksInv'
  <2>1. /\ phase = "parse" /\ phase' = "exited" /\ code' = 1 /\ UNCHANGED <<argv, file, faults>>
        /\ skip_comments(input) # <<>>
    BY <1>5 DEF ParseFails, ReturnsLeaving, inputVars, configVars
  <2>2. PICK m \in DOMAIN file : Head(skip_comments(input)) = file[m] /\ FileRead(m - 1)
    BY <2>1, NextItem DEF ReadInv
  <2>3. /\ phase \notin Unread /\ phase # "exited" /\ phase' \notin Unread
    BY <2>1 DEF Unread
  <2>4. \/ leaked' = leaked \cup LostPasswords(file[m])
        \/ /\ file[m].type \in Settings /\ config[file[m].type] # Unset[file[m].type]
           /\ leaked' = leaked \cup {r \in {"text"} : OwnText(file[m]) # {}}
    BY <1>5, <2>2 DEF ParseFails, ReturnsLeaving
  <2>5. CASE leaked' = leaked \cup LostPasswords(file[m])
    BY <2>1, <2>3, <2>5, PasswordsLost
  <2>6. CASE OwnText(file[m]) = {} /\ leaked' = leaked
    BY <2>1, <2>3, <2>6, NothingLost
  <2>7. CASE /\ file[m].type \in Settings /\ config[file[m].type] # Unset[file[m].type]
             /\ OwnText(file[m]) # {} /\ leaked' = leaked \cup {"text"}
    <3> SUFFICES ASSUME faults' = 0 PROVE LostByInput'
      BY DEF LeaksInv
    <3>1. LostByInput
      BY <2>1 DEF LeaksInv
    <3>2. file[m].type \in {"address", "loglevel"}
      BY <2>7 DEF OwnText
    <3>3. PICK i \in 1 .. (m - 1) : file[i].type = file[m].type
      BY <2>2, <2>7, <3>2 DEF FileRead, TextsRead
    <3>4. file \in Seq(Item)
      BY <2>1, FileTyped DEF ReadInv, FileInv
    <3>5. i \in DOMAIN file /\ i < m
      BY <3>4
    <3>6. "hash" \notin leaked
      BY <2>1, <3>1 DEF LostByInput
    <3>7. \E x, y \in DOMAIN file : x < y /\ file[x].type = file[y].type /\ OwnText(file[y]) # {}
      BY <2>7, <3>3, <3>5
    <3>8. UserLines' = UserLines
      BY <2>1 DEF UserLines
    <3> QED BY <2>1, <2>3, <2>7, <3>1, <3>6, <3>7, <3>8 DEF LostByInput
  <2> QED BY <2>4, <2>5, <2>6, <2>7
<1>6. ASSUME AddUsersFails PROVE LeaksInv'
  <2>1. /\ phase = "add_users" /\ phase' = "exited" /\ code' = 1 /\ UNCHANGED <<argv, file>>
        /\ leaked' = leaked \cup {r \in {"hash"} : config.users = <<>>}
        /\ Fault \/ UNCHANGED faults
    BY <1>6 DEF AddUsersFails, ReturnsLeaving, inputVars, configVars
  <2>2. /\ phase \notin Unread /\ phase # "exited" /\ phase' \notin Unread
    BY <2>1 DEF Unread
  <2>3. CASE leaked' = leaked
    BY <2>1, <2>2, <2>3, Faults, NothingLost
  <2>4. CASE leaked' = leaked \cup {"hash"} /\ config.users = <<>>
    <3> SUFFICES ASSUME faults' = 0 PROVE LostByInput'
      BY DEF LeaksInv
    <3>1. faults = 0 /\ LostByInput
      BY <2>1, Faults DEF LeaksInv
    <3>2. "text" \notin leaked
      BY <2>1, <3>1 DEF LostByInput
    <3>3. file \in Seq(Item) /\ UsersRead(Len(file))
      BY <2>1, FileTyped DEF ReadInv, FileInv, FileRead, Levelled
    <3>4. \A l \in 1 .. Len(file) : file[l].type = "user" => \E i \in DOMAIN config.users : TRUE
      BY <3>1, <3>3 DEF UsersRead, Places
    <3>5. UserLines = {}
      <4>1. DOMAIN config.users = {}
        BY <2>4
      <4> QED BY <3>3, <3>4, <4>1 DEF UserLines
    <3>6. UserLines' = {}
      BY <2>1, <3>5 DEF UserLines
    <3>7. "password" \notin leaked
      BY <3>1, <3>5 DEF LostByInput
    <3> QED BY <2>1, <2>4, <3>1, <3>2, <3>6, <3>7 DEF LostByInput
  <2> QED BY <2>1, <2>3, <2>4
<1>7. ASSUME UNCHANGED vars PROVE LeaksInv'
  BY <1>7 DEF vars, LeaksInv, LostByInput, UserLines
<1> QED BY <1>1, <1>2, <1>3, <1>4, <1>5, <1>6, <1>7 DEF Next, Starts, server_new

-----------------------------------------------------------------------------
(* Theorems *)

\* Whichever early return, failed call or shutdown ends it, the process closes its
\* socket and frees nothing twice but a long path after add_users (server.c, server_new
\* and server_run).  When no call failed it has freed all that can be freed, and lost
\* no more than the long strings that clap.c:153 and config_parser.c:134 and 286 drop,
\* each only for an input that has such a string, and the hash of a file without users.
THEOREM StartReleasesOnce == Spec => []ReleasedOnce
<1>1. HoldsInv /\ LeaksInv => ReleasedOnce
  BY DEF HoldsInv, FreedOnce, LeaksInv, LostByInput, ReleasedOnce
<1> QED BY <1>1, HoldsInit, HoldsNext, ReadInit, ReadNext, LeaksInit, LeaksNext, PTL DEF Spec

\* A server that runs has the settings of its file, and the defaults for the rest:
\* parse_args, config_parser_parse and server_new neither mix up, lose nor overwrite a
\* value, for files and command lines of any length.  The numbers have to be below 2^64,
\* the address kept is the file's only if its text is inside its struct when it is freed,
\* and the socket is bound to it only if its last three numbers are below 128.
THEOREM ServesWhatIsWritten == Spec => []ConfigAsWritten
<1> QED BY HoldsInit, HoldsNext, ReadInit, ReadNext, ReadMeansWritten, PTL DEF Spec

\* It knows the users of its file, in order and each name once, with hashed passwords,
\* and all of them when no allocation failed.
THEOREM ServesTheUsersWritten == Spec => []UsersAsWritten
<1> QED BY HoldsInit, HoldsNext, ReadInit, ReadNext, ReadMeansUsers, PTL DEF Spec
=============================================================================
