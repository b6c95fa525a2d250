-------------------------------- MODULE MCWorld --------------------------------
(* World for TLC, with the code's own constants (Constants.h, Room.h) on a grid *)
(* of 240 points per pixel: 215 / 60 pixels are 860 points, 132 / 60 are 528.   *)
EXTENDS World

MCPlayerSpawn == [i \in 0 .. 3 |-> << <<180, 100>>, <<140, 60>>, <<220, 140>>, <<100, 120>> >>[i + 1]]
MCOrcSpawn ==
    [i \in 0 .. 9 |-> << <<520, 40>>, <<700, 120>>, <<980, 70>>, <<1180, 140>>, <<1330, 55>>,
                         <<620, 150>>, <<840, 30>>, <<1060, 110>>, <<1240, 20>>, <<1450, 125>> >>[i + 1]]

Never == 9999

Dir(x, y) == [mx |-> x, my |-> y]

Walk  == [join |-> 0, leave |-> Never, stop |-> Never, every |-> 1, turn |-> 0, first |-> Dir(1, 0),
          deaf |-> {}]
Away  == [Walk EXCEPT !.join = Never]
Down  == [Walk EXCEPT !.turn = 80, !.first = Dir(1, 1)]
Up    == [Walk EXCEPT !.turn = 80, !.first = Dir(1, -1)]
Late  == [Walk EXCEPT !.join = 3]
Quits == [Walk EXCEPT !.leave = 500, !.deaf = 480 .. 500]
Drops == [Walk EXCEPT !.stop = 400, !.every = 7]
Back  == [Walk EXCEPT !.turn = 120, !.first = Dir(-1, -1), !.stop = 90]

Deaf  == [Walk EXCEPT !.deaf = 300 .. 950]
Far   == [Walk EXCEPT !.turn = 60, !.first = Dir(127, -128)]
Home  == [Walk EXCEPT !.turn = 150, !.stop = 120, !.first = Dir(-128, -128)]

Party(a, b, c, d) == [i \in 0 .. 3 |-> <<a, b, c, d>>[i + 1]]

MCParties ==
    {Party(a, b, c, d) : a \in {Walk, Down}, b \in {Walk, Away}, c \in {Up, Quits},
                         d \in {Late, Away}}
    \cup {Party(Drops, Walk, Back, Late), Party(Back, Back, Back, Back),
          Party(Drops, Drops, Drops, Drops), Party(Down, Down, Down, Down),
          Party(Deaf, Walk, Deaf, Late), Party(Far, Walk, Home, Deaf), Party(Home, Home, Home, Home),
          Party(Far, Far, Far, Far)}
================================================================================
