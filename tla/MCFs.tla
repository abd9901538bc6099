--------------------------------- MODULE MCFs ---------------------------------
EXTENDS Fs

Open(s, m)  == [op |-> "open", path |-> s, to |-> <<>>, mode |-> m]
Op(o, s)    == [op |-> o, path |-> s, to |-> <<>>, mode |-> "none"]
Link(s, t)  == [op |-> "link", path |-> s, to |-> t, mode |-> "none"]

MCCalls ==
    { Open(<<"/", "a">>, "trunc"),
      Open(<<"/", "d", "a">>, "create"),
      Op("mkdir", <<"/", "a">>), Op("mknod", <<"d">>),
      Op("unlink", <<"/", "a">>), Op("unlink", <<"/", "d">>), Op("unlink", <<"/", "d", "a">>),
      Link(<<"/", "a">>, <<"/", "d", "a">>),
      Op("chdir", <<"/", "d">>), Op("chdir", <<"..">>) }

\* A directory that is removed, made again and removed again.
LeakCalls == { Op("mkdir", <<"/", "d">>), Op("unlink", <<"/", "d">>) }
=============================================================================
