SPECIFICATION Spec
CONSTANTS
    ValidName = {"shop", "folder", "db", "web"}
    ValidSocket = {"db.sock", "web.sock"}
    Dynamic = "${x}"
    NoName = "-"
    Folder = "folder"
    UserBindings <- MCUserBindings
    Template <- MCTemplate
    MaxBindings = 3
INVARIANTS ServicesFound MisnamedCannotStart UserTextKept
PROPERTIES RegroupingIsNeutral InitIsNeutral
CHECK_DEADLOCK FALSE
