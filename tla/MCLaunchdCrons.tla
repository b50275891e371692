--------------------------- MODULE MCLaunchdCrons ---------------------------
(* A small instance of LaunchdCrons for TLC: short field ranges, and one
   schedule of each kind: a step with two parts, a week that ends on day 7,
   and one that launchd cannot express. *)
EXTENDS LaunchdCrons

CONSTANTS A, B

MCNames == {A, B}
MCFields == {"minute", "day", "weekday"}
MCLow == [minute |-> 0, day |-> 1, weekday |-> 0]
MCHigh == [minute |-> 3, day |-> 2, weekday |-> 7]

Part(from, to, step) == [from |-> from, to |-> to, step |-> step]
Cron(minute, day, weekday) == [minute |-> minute, day |-> day, weekday |-> weekday]

MCParts ==
    [week |-> Cron({Part(0, 3, 2), Part(3, 3, 1)}, {}, {Part(5, 7, 1)}),
     both |-> Cron({Part(1, 1, 1)}, {Part(1, 2, 1)}, {Part(1, 5, 2)}),
     often |-> Cron({}, {}, {})]
MCEvery == [week |-> 0, both |-> 0, often |-> 5]

Entry(dirs, modes) ==
    [dir : dirs, owner : {"root", "me", "other"}, open : BOOLEAN, sticky : modes, runs : {TRUE}]
MCRunners ==
    [above : {<<a, t>> : a \in Entry({TRUE}, BOOLEAN), t \in Entry({TRUE}, {FALSE})},
     below : {<<>>} \cup {<<e>> : e \in Entry({TRUE}, {FALSE})},
     link : [owner : {"me", "other"}, parents : {FALSE}, inside : BOOLEAN],
     links : 0 .. 2,
     script : Entry({FALSE}, {FALSE})]
=============================================================================
