--------------------------- MODULE MCProjectConfig ---------------------------
EXTENDS ProjectConfig

Attr(field, value) == Bind(<<"neals", "services", "db", field>>, value)

\* One binding for each way to declare something, well or badly.
MCUserBindings ==
    { Bind(<<"neals", "name">>, NixStr("shop")),
      Bind(<<"neals", "name">>, Expr),
      Attr("port", NixInt(5432)),
      Attr("port", NixInt(MaxPort + 1)),
      Attr("socket", NixStr("db.sock")),
      Attr("proxy", NixBool(FALSE)),
      Bind(<<"neals", "services", "db">>, AttrSet(<<>>)),
      Bind(<<"neals", "services", Dynamic, "port">>, NixInt(1)),
      Bind(<<"neals", "route", "db">>, NixStr(Tcp)),
      Bind(<<"neals", "route", "web">>, NixStr("web.sock")),
      Bind(<<"neals", "route", "web", "port">>, NixInt(80)),
      Bind(<<"imports">>, List),
      Bind(<<"imports">>, Expr),
      Bind(<<"env", "LIMIT">>, Overflow) }

MCTemplate == File("attrset", <<Bind(<<"packages">>, List)>>, FALSE)
=============================================================================
