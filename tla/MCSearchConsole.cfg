SPECIFICATION Spec
CONSTANTS
    Flows = {f1, f2}
    Projects = {p1}
    c1 = c1
    c2 = c2
    Calls <- TwoCalls
    Asks <- AskedOf
    Nil = Nil
INVARIANTS TypeOK IdsAreFinal
PROPERTIES ConnectedIsStored MappingSurvives StatusHeals
