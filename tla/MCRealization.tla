---------------------------- MODULE MCRealization ----------------------------
(* An archive, and a tool made of two downloads of the same file name; an    *)
(* application built with the tool; a build whose download is no longer what *)
(* it was; a link to the application, two versions of a service of which the *)
(* second updates the first, and a mount of the link.                        *)
EXTENDS Realization

Text(t) == <<"text", t>>
Out == <<"out">>
Fetch(u, sha) == [kind |-> "fetch", url |-> u, sha256 |-> sha]
Exec(text, writes) == [kind |-> "exec", text |-> text, writes |-> writes]

MCBuild == {"archive", "tool", "app", "moved"}
MCBind == {"link", "service", "service2", "mount"}

MCDeps == [archive |-> {}, moved |-> {}, tool |-> {}, app |-> {"tool"},
           link |-> {"app"}, service |-> {}, service2 |-> {"app"},
           mount |-> {"link"}]
MCOld == [link |-> "link", service |-> "service", service2 |-> "service",
          mount |-> "mount"]

AppBin == <<"build", "app", "bin">>

MCRecipe ==
  [archive |-> [create |-> <<Fetch("u1", "sha1")>>],
   moved |-> [create |-> <<Exec({Text("echo")}, "log"), Fetch("u1", "sha2")>>],
   tool |-> [create |-> <<Fetch("u1", "sha1"), Fetch("u2", "sha2"),
                          Exec({<<"action", 0>>, Out}, "bin")>>],
   app |-> [create |-> <<Exec({<<"build", "tool", "dir">>, Out}, "bin")>>],
   link |-> [create |-> <<Exec({Text("ln"), AppBin}, NoFile)>>,
             destroy |-> <<Exec({Text("rm"), AppBin}, NoFile)>>,
             check |-> <<Exec({Text("readlink"), <<"env", "HOME">>}, NoFile)>>],
   service |-> [create |-> <<Exec({Text("run")}, NoFile)>>,
                destroy |-> <<Exec({Text("stop"), Text("web")}, NoFile)>>,
                check |-> <<Exec({Text("ps"), <<"malformed">>}, NoFile)>>],
   service2 |-> [create |-> <<Exec({Text("run"), AppBin}, NoFile)>>,
                 update |-> <<Exec({Text("restart"), AppBin}, NoFile)>>,
                 destroy |-> <<Exec({Text("stop"), <<"action", 0>>}, NoFile)>>],
   mount |-> [create |-> <<Exec({<<"bind", "link", "path">>}, NoFile)>>,
              destroy |-> <<>>]]

MCOutputs ==
  [archive |-> [out |-> {<<"action", 0>>}],
   moved |-> <<>>,
   tool |-> [dir |-> {Out}],
   app |-> [bin |-> {Out, Text("/bin/app")}],
   link |-> [path |-> {Text("/usr/bin/app")}],
   service |-> [pid |-> {<<"action", 0>>}],
   service2 |-> [pid |-> {<<"action", 0>>}],
   mount |-> [at |-> {<<"env", "HOME">>}]]

MCContent == [u1 |-> "sha1", u2 |-> "sha2"]
MCFileName == [u1 |-> "src.tar", u2 |-> "src.tar"]
MCEnvironment == [HOME |-> "/home"]

MCConfigs ==
  {{"archive", "tool"}, {"moved", "tool"}, {"tool", "app", "link"},
   {"tool", "app", "link", "mount"}, {"service"}, {"tool", "app", "service2"}}

\* The runs are of configurations that the theorems are about.
ASSUME MentionsAreDeps
==============================================================================
