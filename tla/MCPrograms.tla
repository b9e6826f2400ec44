------------------------------ MODULE MCPrograms ------------------------------
EXTENDS Programs

\* Words: plain ones, short options, long options, a plugin's option.
W(symbols) == [dash |-> 0, text |-> symbols]
V(name) == W(<<name>>)
S(letters) == [dash |-> 1, text |-> letters]
L(name) == [dash |-> 2, text |-> <<name>>]
K(plugin, key) == [dash |-> 2, text |-> <<plugin, key>>]

Short ==
    {V("ls"), V("dummy"), S(<<"p">>), S(<<"h">>), S(<<"z", "h", "c">>), S(<<"z", "-", "q">>),
     S(<< >>), L("plugin"), L("concurrent"), L("nobody"), DashDash, [dash |-> 3, text |-> <<"a">>]}

Distexec_ == V("distexec")
Foreman_ == <<S(<<"p">>), V("foreman"), S(<<"p">>), V("dummy")>>
Login == <<K("foreman", "username"), V("u"), K("foreman", "password"), V("s")>>
Url(text) == <<K("foreman", "url"), W(text)>>
Ls == <<DashDash, V("ls"), S(<<"l">>)>>

WithPort == <<"h", ":", "/", "/", "s", ":", "8", "/", "v">>
WithParam == <<"h", ":", "/", "/", "s", ":", "8", "/", "v", "?", "q", "=", "7">>
WithTwo == <<"h", ":", "/", "/", "s", ":", "8", "/", "v", "?", "q", "&", "r">>
WithThree == WithTwo \o <<"&", "t">>
NoPort == <<"h", ":", "/", "/", "s", "/", "v">>
NoSlashes == <<"h", ":", "s", "8">>
Overread == <<"h", ":", "/">>

WithPage == <<"h", ":", "/", "/", "s", ":", "8", "/", "v", "?", "page", "=", "7">>
Misread == <<"h", ":", "x", "/", "/", "s", ":", "8", "/", "v">>

\* The server's hosts.
Served(counts) == {[h \in 1..count |-> <<"host", ToString(h)>>] : count \in counts}

Collecting == {
    Foreman_ \o Url(WithPort) \o Login \o <<K("foreman", "per-page"), V("2")>> \o Ls,
    Foreman_ \o Url(WithParam) \o Login \o <<K("foreman", "per-page"), V("3")>> \o Ls,
    Foreman_ \o Url(WithTwo) \o Login \o <<K("foreman", "per-page"), V("1")>> \o Ls,
    Foreman_ \o Url(WithThree) \o Login \o <<K("foreman", "per-page"), V("2")>> \o Ls,
    Foreman_ \o Url(WithPage) \o Login \o <<K("foreman", "per-page"), V("2")>> \o Ls,
    <<S(<<"p">>), V("foreman")>> \o Foreman_ \o Url(WithPort) \o Login
        \o <<K("foreman", "per-page"), V("2")>> \o Ls}

\* Pages of two digits.
ManyPages == Foreman_ \o Url(WithPort) \o Login \o <<K("foreman", "per-page"), V("1")>> \o Ls

Configuring == {
    Foreman_ \o Url(WithPort) \o Login \o Ls,
    Foreman_ \o Url(WithPort) \o Login \o <<K("foreman", "per-page"), V("0")>> \o Ls,
    Foreman_ \o Url(NoPort) \o Login \o Ls,
    Foreman_ \o Url(NoSlashes) \o Login \o Ls,
    Foreman_ \o Url(Misread) \o Login \o Ls,
    Foreman_ \o Url(Overread) \o Login \o Ls,
    Foreman_ \o Url(WithPort) \o Ls,
    <<K("foreman", "url")>> \o Foreman_ \o <<W(WithPort)>> \o Login \o <<V("ls")>>,
    Foreman_ \o <<K("foreman", "url"), K("foreman", "username"), V("u")>> \o Ls,
    Foreman_ \o <<K("foreman", "ssl-verify"), V("true")>> \o Ls,
    <<S(<<"p">>), V("ssh"), K("ssh", "auth"), V("a"), K("ssh", "auth"), V("b"),
      S(<<"p">>), V("dummy"), K("dummy", "option1")>> \o Ls,
    <<S(<<"p">>), V("dummy"), L("plugin"), V("dummy"), L("log-file"), V("f"), S(<<"P">>),
      L("debug"), S(<<"O">>), V("x"), S(<<"c">>), V("3")>> \o Ls,
    <<S(<<"p">>), V("dummy"), L("plugin"), V("dummy"), K("dummy", "option1"), V("x"), V("ls")>>,
    <<S(<<"p">>), V("dummy"), L("log-format"), S(<<"V">>)>>,
    <<S(<<"p">>), V("dummy"), S(<<"L">>)>>,
    <<S(<<"p">>), V("dummy"), L("plugin-path")>>,
    <<S(<<"p">>), V("dummy"), S(<<"c">>)>>,
    <<S(<<"C">>), S(<<"p">>), V("dummy")>>,
    <<S(<<"p">>), V("nowhere"), L("concurrent"), V("2"), DashDash, V("ls"), V("ls"), V("ls"),
      V("ls"), V("ls"), V("ls"), V("ls")>>,
    [a \in 1..9 |-> L("nobody")],
    [a \in 1..11 |-> L("nobody")],
    <<S([a \in 1..11 |-> "z"])>>,
    <<S(<<"p">>), V("dummy"), DashDash>> \o [a \in 1..11 |-> V("ls")],
    <<L("nobody")>> \o [a \in 1..11 |-> V("ls")],
    <<S([a \in 1..10 |-> "z"]), W(<< >>), L("nobody")>> }

MCLines ==
    [words : {<<Distexec_>> \o words : words \in UNION {[1..len -> Short] : len \in 0..3}},
     hosts : {Served({0})}]
    \union [words : {<<Distexec_>> \o words : words \in Configuring}, hosts : {Served({2})}]
    \union [words : {<<Distexec_>> \o words : words \in Collecting}, hosts : {Served(0..5)}]
    \union [words : {<<Distexec_>> \o ManyPages}, hosts : {Served({10})}]

TestParts == [uri_new EXCEPT !.scheme = <<"h">>, !.hostname = <<"h", ".", "n">>,
                             !.port = <<"1", "2">>, !.path = <<"p", "/", "i">>]
MCTestUris == {TestParts, [TestParts EXCEPT !.port = NoText]}

MCParamKeys == {<<"key">>, <<"k", "1">>}
MCParamValues == {<<"a">>, <<"%", "2", "1">>, <<"&", "=", "?">>, <<"v", "space", "/">>}

MCSymbols == STRING
===============================================================================
