------------------------------- MODULE Startup -------------------------------
(***************************************************************************)
(* From main to the event loop and out again: server_run and server_new    *)
(* (server.c), the options (clap.c), the configuration file                *)
(* (config_parser.c), parse_addr (networking.c) and server_free.           *)
(*                                                                         *)
(* The configuration file is the sequence of what config_parser_parse's    *)
(* loop meets: a directive or a comment, with `eol' telling whether the    *)
(* line ends after it or goes on with the next item, `nums' for the        *)
(* decimal numbers of a port, a count or an address, `word' for its text   *)
(* and `passwords' for the words of a user's line that begin with '>'.     *)
(*                                                                         *)
(* A string of more than 23 bytes is on the heap, a shorter one is inside  *)
(* its struct and free leaves it alone.  `held' is what is allocated or    *)
(* open, `twice' what was freed although it was not, and `leaked' what     *)
(* nothing points to any more.                                             *)
(***************************************************************************)
EXTENDS Integers, SequencesExt, FiniteSetsExt

CONSTANTS
    Argvs,              \* command lines, without the program's name
    Files,              \* contents of configuration files
    Long,               \* the words of more than 23 bytes
    MaxFaults,          \* bound: failing allocations and system calls
    Word,               \* 2^64, the range of uint64_t and size_t
    UINT16_MAX,
    DEFAULT_ADDRESS, DEFAULT_PORT, DEFAULT_DATABASES,
    VEC_INITIAL_CAP

LogLevels == {"none", "info", "debug", "verbose"}

\* What the parser takes for the value of a directive that was not given.
Unset == [address |-> <<>>, port |-> 0, loglevel |-> "", databases |-> 0]
Settings == DOMAIN Unset

Item == [type : STRING, nums : Seq(Nat), word : STRING, passwords : Seq(STRING), eol : BOOLEAN]

ASSUME StartupAssumption ==
    /\ MaxFaults \in Nat /\ VEC_INITIAL_CAP \in Nat /\ VEC_INITIAL_CAP > 1
    /\ UINT16_MAX \in Nat /\ Word \in Nat /\ UINT16_MAX < Word
    /\ Argvs \subseteq Seq(STRING) /\ DEFAULT_ADDRESS \in Seq(Nat)
    /\ Files \subseteq Seq(Item) /\ "" \notin Long
    /\ \A f \in Files : \A i \in DOMAIN f :
         \* a fifth number is shifted out of range
         /\ f[i].type = "address" => Len(f[i].nums) <= 4 /\ (f[i].word \in Long => f[i].nums # <<>>)
         /\ f[i].type \in {"port", "databases"} => Len(f[i].nums) = 1
         /\ f[i].type = "comment" => f[i].eol
         /\ i = Len(f) => f[i].eol

VARIABLES
    phase,      \* the next step of server_run or server_new
    argv, left, \* the command line, and what parse_args has not seen of it
    path,       \* the option's value in cla.args, if it has one
    long,       \* conf_file_path is too long for the small form
    file, input,\* the configuration file, and what is left of it
    config,     \* config_parser.c: config
    users,      \* s.users
    s,          \* the rest of the server struct
    bound,      \* kernel: where sfd is bound
    held, twice, leaked,
    faults,
    code        \* the exit status

vars == <<phase, argv, left, path, long, file, input, config, users, s, bound,
          held, twice, leaked, faults, code>>

-----------------------------------------------------------------------------
(* State *)

Steps == {"start", "args", "path", "socket", "reuse", "read", "parse", "loglevel",
          "bind", "listen", "users", "add_users", "exec", "addr", "clients", "ev", "register", "db"}
Ended == {"exited", "aborted"}

\* `heap' names the strings of the struct that are on the heap.
ConfigNew == [users |-> <<>>, address |-> <<>>, port |-> 0, loglevel |-> "", databases |-> 0,
              heap |-> {}]

Init ==
    /\ phase = "start"
    /\ argv \in Argvs /\ left = argv
    /\ path = <<>> /\ long = FALSE
    /\ file = <<>> /\ input = <<>> /\ config = ConfigNew
    /\ users = <<>> /\ s = ConfigNew /\ bound = <<>>
    /\ held = {} /\ twice = {} /\ leaked = {} /\ faults = 0 /\ code = 0

Fault == faults < MaxFaults /\ faults' = faults + 1

\* A string in the small form has nothing to free.
OnHeap(r) == r # "path" \/ long

Release(R) ==
    LET freed == {r \in R : OnHeap(r)} IN
    /\ held'  = held \ freed
    /\ twice' = twice \cup (freed \ held)

Exits(status, R) ==
    /\ phase' = "exited" /\ code' = status /\ Release(R) /\ UNCHANGED leaked

inputVars  == <<argv, left, path, long>>
configVars == <<file, input, config>>
serverVars == <<users, s, bound>>

-----------------------------------------------------------------------------
(* server_run up to server_new *)

\* create_sigint_handler, args_new and args_add.
server_run ==
    /\ phase = "start"
    /\ phase' = "args" /\ held' = {"args", "cla"}
    /\ UNCHANGED <<inputVars, configVars, serverVars, twice, leaked, faults, code>>

SigintHandlerFails ==
    /\ phase = "start" /\ Fault
    /\ Exits(1, {})
    /\ UNCHANGED <<inputVars, configVars, serverVars>>

Helps    == {"-h", "--help", "--helpful"}   \* some of those with the prefix
Versions == {"-v", "--version"}
ConfigOptions == {"-c", "--config"}                     \* find_arg_fn: the whole word

\* One round of parse_args: an option and its value, which is not looked at.
\* ht_try_insert keeps the value of an earlier round, or finds no memory; neither
\* result is the -1 that it is compared with, and nobody frees the new value.
parse_args ==
    /\ phase = "args" /\ Len(left) >= 2 /\ left[1] \in ConfigOptions
    /\ left' = SubSeq(left, 3, Len(left))
    /\ \/ path = <<>> /\ path' = <<left[2]>> /\ UNCHANGED <<leaked, faults>>
       \/ /\ UNCHANGED path
          /\ leaked' = leaked \cup {r \in {"value"} : left[2] \in Long}
          /\ \/ path # <<>> /\ UNCHANGED faults
             \/ path = <<>> /\ Fault
    /\ UNCHANGED <<phase, argv, long, configVars, serverVars, held, twice, code>>

\* Help, version, an unknown word or a missing value: all leave with status 0.
ClapEnds ==
    /\ phase = "args" /\ left # <<>>
    /\ \/ left[1] \in Helps \cup Versions
       \/ left[1] \notin ConfigOptions
       \/ Len(left) = 1
    /\ Exits(0, {"args", "cla"})
    /\ UNCHANGED <<inputVars, configVars, serverVars, faults>>

ArgsParsed ==
    /\ phase = "args" /\ left = <<>>
    /\ phase' = "path"
    /\ UNCHANGED <<inputVars, configVars, serverVars, held, twice, leaked, faults, code>>

\* realpath of the option's value, or of ../lexi.conf.
PathOk ==
    /\ phase = "path"
    /\ phase' = "socket"
    /\ long' \in BOOLEAN
    /\ held' = held \cup {r \in {"path"} : long'}
    /\ UNCHANGED <<argv, left, path, configVars, serverVars, twice, leaked, faults, code>>

PathInvalid ==
    /\ phase = "path" /\ Fault
    /\ Exits(1, {"args", "cla"})
    /\ UNCHANGED <<inputVars, configVars, serverVars>>

-----------------------------------------------------------------------------
(* server_new: sockets and the configuration file *)

\* A step that succeeds, with what it allocates.
Passes(step, next, R) ==
    /\ phase = step /\ phase' = next
    /\ held' = held \cup R
    /\ UNCHANGED <<inputVars, twice, leaked, faults, code>>

\* An early return of server_new, with what it frees, and the error branch of
\* server_run behind it, which frees args, cla and the path.
ReturnsLeaving(R, L) ==
    LET again == {"path"} \cap R IN
    /\ phase' = "exited" /\ code' = 1
    /\ held' = held \ (R \cup {"args", "cla", "path"})
    /\ leaked' = leaked \cup L
    /\ twice' = twice \cup {r \in (R \ held) \cup again : OnHeap(r)}
    /\ UNCHANGED inputVars

ReturnsErr(R) == ReturnsLeaving(R, {})

Fails(step, R) ==
    /\ phase = step /\ Fault
    /\ ReturnsErr(R)
    /\ UNCHANGED <<configVars, serverVars>>

\* The users' strings belong to the configuration and, after add_users, to s.users.
Strings(us) == {r \in {"strings"} : us # <<>>}
config_free       == {"config.users"} \cup Strings(config.users) \cup config.heap
config_free_light == {"config.users"} \cup config.heap

create_tcp_socket ==
    \/ Passes("socket", "reuse", {"sfd"}) /\ UNCHANGED <<configVars, serverVars>>
    \/ Fails("socket", {})

set_reuse_addr ==
    \/ Passes("reuse", "read", {}) /\ UNCHANGED <<configVars, serverVars>>
    \/ Fails("reuse", {"sfd"})

\* read_file, and config_new at the start of parse_config.
read_file ==
    \/ /\ Passes("read", "parse", {"contents", "config.users"})
       /\ file' \in Files /\ input' = file' /\ config' = ConfigNew
       /\ UNCHANGED serverVars
    \/ Fails("read", {"sfd"})

\* config_parser_skip_empty_lines_and_comments
skip_comments(f) ==
    LET items == {i \in DOMAIN f : f[i].type # "comment"}
    IN  IF items = {} THEN <<>> ELSE SubSeq(f, Min(items), Len(f))

\* A port of any size.
legal_any_port(line) ==
    \/ line.type \in {"address", "loglevel"}
    \/ line.type \in {"databases", "user", "port"} /\ line.eol

\* config_parser_parse_line.  A number, or a user, must be alone on its line; a
\* port is compared after it has wrapped.
legal(line) ==
    \/ line.type \in {"address", "loglevel"}
    \/ line.type \in {"databases", "user"} /\ line.eol
    \/ line.type = "port" /\ line.eol /\ line.nums[1] % Word <= UINT16_MAX

\* config_parser_parse_user: the last password counts, the strings of the earlier ones
\* are lost.
Password(line) == IF line.passwords = <<>> THEN "" ELSE Last(line.passwords)
LostPasswords(line) ==
    {r \in {"password"} : line.type = "user" /\ \E i \in 1 .. Len(line.passwords) - 1 : line.passwords[i] \in Long}

\* The string of an address or a log level, when it is kept and on the heap.
OwnText(line) ==
    {r \in {"address", "loglevel"} : r = line.type /\ line.eol /\ line.word \in Long}

\* The value of a legal directive.  An address or a log level that its line does not
\* end after is freed, and the parser goes on behind it.
value(line) ==
    CASE line.type = "address"  -> IF line.eol THEN line.nums ELSE <<>>
      [] line.type = "loglevel" -> IF line.eol THEN line.word ELSE ""
      [] line.type = "user"     -> [name |-> line.word, password |-> Password(line)]
      [] line.type = "databases" -> line.nums[1] % Word
      [] line.type = "port"     -> (line.nums[1] % Word) % (UINT16_MAX + 1)

\* vec_push: the vector is full and has to grow for one more.
Full(n) == \E k \in 0 .. n : n = VEC_INITIAL_CAP * 2^k

\* One round of config_parser_parse's loop.
config_parser_parse ==
    LET rest == skip_comments(input) IN
    /\ phase = "parse" /\ rest # <<>>
    /\ LET line == Head(rest) IN
       /\ legal(line)
       /\ \/ /\ line.type \in Settings
             /\ config[line.type] = Unset[line.type]
             /\ config' = [config EXCEPT ![line.type] = value(line), !.heap = @ \cup OwnText(line)]
             /\ held' = held \cup OwnText(line)
             /\ UNCHANGED <<leaked, faults>>
          \/ /\ line.type = "user"
             /\ config' = [config EXCEPT !.users = Append(@, value(line))]
             /\ held' = held \cup {"strings"}
             /\ leaked' = leaked \cup LostPasswords(line)
             /\ UNCHANGED faults
          \* vec_push has no room and gets none: its result is not looked at.
          \/ /\ line.type = "user"
             /\ Full(Len(config.users)) /\ Fault
             /\ leaked' = leaked \cup LostPasswords(line) \cup {"lost user"}
             /\ UNCHANGED <<config, held>>
    /\ input' = Tail(rest)
    /\ UNCHANGED <<phase, inputVars, file, serverVars, twice, code>>

\* A line that is not legal, whose user is freed, or a setting that already has a
\* value, whose second string is not.
ParseFails ==
    LET rest == skip_comments(input) IN
    /\ phase = "parse" /\ rest # <<>>
    /\ LET line == Head(rest) IN
       \/ /\ ~legal(line)
          /\ ReturnsLeaving({"contents", "sfd"} \cup config_free, LostPasswords(line))
       \/ /\ line.type \in Settings /\ legal(line) /\ config[line.type] # Unset[line.type]
          /\ ReturnsLeaving({"contents", "sfd"} \cup config_free, {r \in {"text"} : OwnText(line) # {}})
    /\ UNCHANGED <<configVars, serverVars, faults>>

ParsedAll ==
    /\ phase = "parse" /\ skip_comments(input) = <<>>
    /\ phase' = "loglevel"
    /\ held' = held \ {"contents"}
    /\ UNCHANGED <<inputVars, configVars, serverVars, twice, leaked, faults, code>>

-----------------------------------------------------------------------------
(* server_new: the settings and the users *)

OrDefault(name, default) ==
    IF config[name] = Unset[name] THEN default ELSE config[name]

determine_loglevel ==
    /\ phase = "loglevel" /\ OrDefault("loglevel", "info") \in LogLevels
    /\ phase' = "bind"
    /\ s' = [s EXCEPT !.loglevel = OrDefault("loglevel", "info")]
    /\ UNCHANGED <<inputVars, configVars, users, bound, held, twice, leaked, faults, code>>

InvalidLogLevel ==
    /\ phase = "loglevel" /\ OrDefault("loglevel", "info") \notin LogLevels
    /\ ReturnsErr({"sfd"} \cup config_free)
    /\ UNCHANGED <<configVars, serverVars, faults>>

\* parse_addr: number i of n goes to byte ByteOf(i, n) of the address, the last
\* one to the lowest.  It is kept in an int8_t, whose sign is spread over all
\* higher bytes when it is shifted and xor-ed into the address.
ByteOf(i, n) == IF i = n THEN 4 ELSE i
parse_addr(a) ==
    [b \in 1 .. 4 |->
        LET own  == {i \in DOMAIN a : ByteOf(i, Len(a)) = b}
            byte == IF own = {} THEN 0 ELSE a[CHOOSE i \in own : TRUE] % 256
            negative == {i \in DOMAIN a : ByteOf(i, Len(a)) > b /\ a[i] % 256 >= 128}
        IN  IF Cardinality(negative) % 2 = 1 THEN 255 - byte ELSE byte]

\* A failure leaves the configuration behind.
tcp_bind ==
    \/ /\ Passes("bind", "listen", {})
       /\ bound' = parse_addr(OrDefault("address", DEFAULT_ADDRESS))
       /\ s' = [s EXCEPT !.port = OrDefault("port", DEFAULT_PORT)]
       /\ UNCHANGED <<configVars, users>>
    \/ Fails("bind", {"sfd"})

tcp_listen ==
    \/ Passes("listen", "users", {}) /\ UNCHANGED <<configVars, serverVars>>
    \/ Fails("listen", {"sfd"})

users_vec_new ==
    \/ Passes("users", "add_users", {"users"}) /\ UNCHANGED <<configVars, serverVars>>
    \/ Fails("users", {"sfd"} \cup config_free)

hash_password(p) == <<"sha256", p>>

\* What the iterator of a vector passes over: the last index of an empty vector is
\* 0 - 1, so that it passes over the VEC_INITIAL_CAP zeroed slots and beyond.
Zeroed == [name |-> "zeroed", password |-> "zeroed"]
Iterated(v) == IF v = <<>> THEN [i \in 1 .. VEC_INITIAL_CAP |-> Zeroed] ELSE v
Distinct(v) == \A i, j \in DOMAIN v : v[i].name = v[j].name => i = j

\* Nobody looks for the name in the vector.
add_users_unchecked ==
    /\ phase = "add_users" /\ config.users # <<>>
    /\ phase' = "exec"
    /\ users' = [i \in DOMAIN config.users |->
                    [config.users[i] EXCEPT !.password = hash_password(@)]]
    /\ s' = [s EXCEPT !.databases = OrDefault("databases", DEFAULT_DATABASES)]
    /\ Release(config_free_light)
    /\ UNCHANGED <<inputVars, configVars, bound, leaked, faults, code>>

\* add_users copies each user with its password hashed in place, then the number of
\* databases is set and config_free_light frees the configuration.
add_users ==
    /\ phase = "add_users" /\ Distinct(Iterated(config.users))
    /\ phase' = "exec"
    /\ users' = [i \in DOMAIN config.users |->
                    [config.users[i] EXCEPT !.password = hash_password(@)]]
    /\ s' = [s EXCEPT !.databases = OrDefault("databases", DEFAULT_DATABASES)]
    /\ Release(config_free_light)
    /\ UNCHANGED <<inputVars, configVars, bound, leaked, faults, code>>

\* A name for the second time, or no room for a user.  The users' strings are still
\* the configuration's: only the vector is freed with vec_free(s.users, NULL).
\* Without users the first zeroed slot got a hashed password that nobody frees.
AddUsersFails ==
    /\ phase = "add_users"
    /\ \/ ~Distinct(Iterated(config.users)) /\ UNCHANGED faults
       \/ (\E n \in 1 .. Len(config.users) - 1 : Full(n)) /\ Fault
    /\ ReturnsLeaving({"users", "sfd"} \cup config_free,
                      {r \in {"hash"} : config.users = <<>>})
    /\ UNCHANGED <<configVars, serverVars>>

-----------------------------------------------------------------------------
(* server_new: what the handlers need.  From here on an early return frees the *)
(* path that server_run frees again.                                           *)

UsersFree == {"users"} \cup Strings(users)

\* get_os_name cannot fail.
get_executable_path ==
    \/ Passes("exec", "addr", {"exec", "os"}) /\ UNCHANGED <<configVars, serverVars>>
    \/ Fails("exec", {"path", "sfd"} \cup UsersFree)

\* What freed memory holds is no address.
Overwritten == <<>>

\* addr_str = vstr_from(addr): addr points into config.address, and config_free_light
\* freed it when it was on the heap.  Then anything may be there by now.
vstr_from_addr ==
    /\ phase = "addr" /\ phase' = "clients"
    /\ LET dangles == "address" \in config.heap IN
       \E text \in {OrDefault("address", DEFAULT_ADDRESS)} \cup {t \in {Overwritten} : dangles},
          heap \in SUBSET {r \in {"addr"} : dangles} :
          /\ s' = [s EXCEPT !.address = text, !.heap = heap]
          /\ held' = held \cup heap
    /\ UNCHANGED <<inputVars, configVars, users, bound, twice, leaked, faults, code>>

clients_vec_new ==
    \/ Passes("clients", "ev", {"clients"}) /\ UNCHANGED <<configVars, serverVars>>
    \/ Fails("clients", {"path", "exec", "sfd"} \cup UsersFree)

ev_new ==
    \/ Passes("ev", "register", {"ev"}) /\ UNCHANGED <<configVars, serverVars>>
    \/ Fails("ev", {"clients", "exec", "path", "sfd"} \cup UsersFree)

RegisterAccept ==
    \/ Passes("register", "db", {"help"}) /\ UNCHANGED <<configVars, serverVars>>
    \/ Fails("register", {"path", "clients", "ev", "exec", "sfd"} \cup UsersFree)

\* lexidb_new, then args_free and clap_free in server_run.
lexidb_new ==
    /\ phase = "db" /\ phase' = "running"
    /\ held' = (held \cup {"db"}) \ {"args", "cla"}
    /\ UNCHANGED <<inputVars, configVars, serverVars, twice, leaked, faults, code>>

\* assert(res != NULL), assert(c.users != NULL) and the vector of args_new, which
\* args_add follows unchecked.
Aborts ==
    /\ phase \in {"start", "read", "db"} /\ Fault
    /\ phase' = "aborted"
    /\ UNCHANGED <<inputVars, configVars, serverVars, held, twice, leaked, code>>

\* ev_await returns.
server_free ==
    /\ phase = "running"
    /\ Exits(0, {"exec", "ev", "db", "clients", "path", "os", "help", "sfd"} \cup s.heap \cup UsersFree)
    /\ UNCHANGED <<inputVars, configVars, serverVars, faults>>

server_new ==
    \/ create_tcp_socket \/ set_reuse_addr \/ read_file
    \/ config_parser_parse \/ ParseFails \/ ParsedAll
    \/ determine_loglevel \/ InvalidLogLevel
    \/ tcp_bind \/ tcp_listen \/ users_vec_new \/ add_users \/ AddUsersFails
    \/ get_executable_path \/ vstr_from_addr \/ clients_vec_new \/ ev_new \/ RegisterAccept
    \/ lexidb_new

Starts ==
    \/ server_run \/ SigintHandlerFails
    \/ parse_args \/ ClapEnds \/ ArgsParsed \/ PathOk \/ PathInvalid
    \/ server_new \/ Aborts

Next == Starts \/ server_free

Spec == Init /\ [][Next]_vars

-----------------------------------------------------------------------------
(* Properties *)

\* The values the file gives a setting on lines of its own.
Written(line) ==
    CASE line.type = "address" -> line.nums [] line.type = "loglevel" -> line.word
      [] OTHER -> line.nums[1]
Given(name) == {Written(file[i]) : i \in {j \in DOMAIN file : file[j].type = name /\ file[j].eol}}
                    \ {Unset[name]}
NumbersFit ==
    \A i \in DOMAIN file : file[i].type \in {"port", "databases"} => file[i].nums[1] < Word
GivenOrDefault(name, default) == IF Given(name) = {} THEN {default} ELSE Given(name)

ShortAddresses == \A i \in DOMAIN file : file[i].type = "address" => file[i].word \notin Long

Dotted(a) == Len(a) = 4 /\ \A i \in 1 .. 4 : a[i] <= 255

\* A server that runs has exactly the settings of its file, the one that the first
\* configuration option names, and the defaults for what the file does not give: the
\* parser's loop and server.c:237-338 neither mix up, lose nor overwrite a value.
\* That is, as long as the numbers are below 2^64, the text of an address, which is
\* copied after it was freed, is inside its struct (server.c:336), and, for where the
\* socket is bound, the last three numbers of the address are below 128; see
\* BoundAsWritten.
ConfigAsWritten ==
    phase = "running" =>
        /\ faults = 0 => path = IF argv = <<>> THEN <<>> ELSE <<argv[2]>>
        /\ NumbersFit =>
            /\ ShortAddresses => {s.address} = GivenOrDefault("address", DEFAULT_ADDRESS)
            /\ {s.loglevel}  = GivenOrDefault("loglevel", "info")
            /\ {s.port}      = GivenOrDefault("port", DEFAULT_PORT)
            /\ {s.databases} = GivenOrDefault("databases", DEFAULT_DATABASES)
            /\ \A a \in GivenOrDefault("address", DEFAULT_ADDRESS) :
                  Dotted(a) /\ (\A i \in 2 .. 4 : a[i] < 128) => bound = a

\* "the address to bind to" (lexi.conf:11): whatever dotted address the file gives.
BoundAsWritten ==
    phase = "running" =>
        \A a \in GivenOrDefault("address", DEFAULT_ADDRESS) : Dotted(a) => bound = a

UserLines == {j \in DOMAIN file : file[j].type = "user"}
Known(line) == [name |-> line.word, password |-> hash_password(Password(line))]

\* A server that runs knows at least one user, and exactly those of its file: in
\* the order of their lines, each name once, with hashed passwords.  Unless growing
\* the vector failed, whose result config_parser.c:161 does not look at: then some
\* are missing.
UsersAsWritten ==
    phase = "running" =>
        /\ users # <<>> /\ Distinct(users)
        /\ \E at \in [DOMAIN users -> UserLines] :
              /\ \A i, j \in DOMAIN users : i < j => at[i] < at[j]
              /\ \A i \in DOMAIN users : users[i] = Known(file[at[i]])
              /\ faults = 0 => \A k \in UserLines : \E i \in DOMAIN users : at[i] = k

\* Whichever early return ends it, the process closes its socket and frees nothing
\* twice but a long path after add_users.  When no call failed, a refused start and a
\* shutdown have freed all that can be freed, and lost no more than the code loses:
\* the hash made for a file without users, a long value of an option given again
\* (clap.c:153), the long text of a setting given again (config_parser.c:134-148) and
\* a long password with another one behind it (config_parser.c:286).
ReleasedOnce ==
    /\ twice \subseteq {"path"}
    /\ twice # {} => phase = "exited" /\ users # <<>> /\ faults > 0
    /\ phase = "exited" => "sfd" \notin held
    /\ phase = "exited" /\ faults = 0 =>
        /\ held = {} /\ leaked \subseteq {"hash", "value", "text", "password"}
        /\ "hash" \in leaked => code = 1 /\ UserLines = {}
        /\ "value" \in leaked => \E i \in 4 .. Len(argv) : i % 2 = 0 /\ argv[i] \in Long
        /\ "text" \in leaked => code = 1 /\ \E i, j \in DOMAIN file :
              i < j /\ file[i].type = file[j].type /\ OwnText(file[j]) # {}
        /\ "password" \in leaked => \E i \in UserLines : LostPasswords(file[i]) # {}
=============================================================================
