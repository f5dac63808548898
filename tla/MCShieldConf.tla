------------------------------ MODULE MCShieldConf ------------------------------
(* ShieldConf on files of up to two directives of a kind in each level. *)
EXTENDS ShieldConf

Texts(pieces, n) == UNION {[1..k -> pieces] : k \in 0..n}

D(name, args) == [name |-> name, args |-> args]

\* One directive kind at a time, in all three levels.
Nested(directives, n) == [Levels -> Texts(directives, n)]

Modes == Nested({D("shield", <<"off">>), D("shield", <<"block">>), D("shield", <<BAD>>)}, 2)
Others ==
  Nested({D("shield_status", <<444>>), D("shield_status", <<200>>),
          D("shield_body", <<FALSE>>), D("shield_max_body", <<1>>)}, 1)
Skips ==
  Nested({D("shield_skip", <<"sqli">>), D("shield_skip", <<"xss", "sqli">>),
          D("shield_skip", <<"xss", BAD>>)}, 2)

LogTo(kind) == D("shield_log", <<[kind |-> kind]>>)
Logs ==
  Nested({LogTo("off"), LogTo("file"), LogTo("syslog")}, 1)
    \union {<<<<LogTo(k)>>, <<LogTo(j), LogTo(k)>>, <<>>>> :
              k \in {"off", "file", "syslog", "pipe"}, j \in {"off", "file", "syslog"}}

P(name, value) == [name |-> name, value |-> value]
BanOn(rest) ==
  D("shield_ban", <<P("zone", "z"), P("count", 5), P("window", 60), P("bantime", 600)>> \o rest)
Forwarded == <<P("key", "forwarded"), P("trusted", "net")>>

\* What may follow the four parameters, or spoil them.
Rests ==
  Texts({P("key", "peer"), P("key", "forwarded"), P("key", BAD), P("trusted", "net"),
         P("trusted", "host"), P("trusted", BAD), P("count", 1), P("count", 0),
         P("size", 1), P("zone", "y")}, 3)

DefineZ == D("shield_ban_zone", <<"z", 8>>)
DefineY == D("shield_ban_zone", <<"y", 9>>)

BanFiles ==
  {<<<<DefineZ, DefineY>>, <<BanOn(r)>>, <<>>>> : r \in Rests}
    \union {<<<<DefineZ>>, <<D("shield_ban", SubSeq(BanOn(<<>>).args, i, j))>>, <<>>>> :
              i \in 1..2, j \in 3..4}
    \union {<<<<DefineZ, DefineY>> \o a, b, c>> :
              a \in {<<>>, <<BanOn(<<>>)>>, <<BanOn(Forwarded)>>},
              b \in {<<>>, <<BanOn(<<>>)>>, <<BanOn(Forwarded)>>,
                     <<BanOn(Forwarded \o <<P("zone", "y"), P("count", 1)>>)>>},
              c \in {<<>>, <<BanOn(<<P("zone", "y")>>)>>, <<BanOn(<<>>), BanOn(Forwarded)>>}}

\* Zones defined before and after they are named, twice, too small, in two sizes.
Zoned ==
  {<<a, b, c>> :
     a \in Texts({DefineZ, D("shield_ban_zone", <<"z", 16>>), D("shield_ban_zone", <<"z", 7>>),
                  D("shield_ban_zone", <<"z", BAD>>), DefineY, BanOn(<<>>)}, 2),
     b \in {<<>>, <<DefineZ>>, <<BanOn(<<P("zone", "y")>>)>>, <<D("shield_ban_status", <<"z">>)>>},
     c \in {<<>>, <<D("shield_ban_status", <<"z">>)>>,
            <<D("shield_ban_status", <<"y">>), D("shield_ban_status", <<"z">>)>>}}

\* Each of these by itself, and reloads with zones that stay, go, grow, come back.
Reloaded ==
  {<<a, <<>>, <<>>>> : a \in {<<>>, <<DefineZ>>, <<DefineZ, DefineY>>, <<DefineZ, DefineZ>>,
                             <<D("shield_ban_zone", <<"z", 16>>)>>}}
AllHistories ==
  {<<f>> : f \in Modes \union Others \union Skips \union Logs \union BanFiles \union Zoned}
    \union [1..4 -> Reloaded]
==============================================================================
