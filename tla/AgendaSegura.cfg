CONSTANTS
    Eventos = {1, 2}
    Remotos = {g1, g2}
    Syncs = {s1, s2}
    Edicoes = {d1, d2}
    Direcoes = {"bidirecional", "sistema_google", "google_sistema"}
    MaxMudancas = 3
    MaxSyncs = 3
    MaxQuedas = 1
    SemEvento = SemEvento
    SemRemoto = SemRemoto
    Agendas = {a1, a2}
    Padrao = a1
    Compromissos = {1}
    Fichas = {f1, f2}
    Celulares = {t1, t2}
    Formularios = {p1, p2}
    Gestores = {m1, m2}
    MaxAtos = 6
    NinguemAgenda = NinguemAgenda
SPECIFICATION SpecDuas
\* the bounds may be used up
CHECK_DEADLOCK FALSE
SYMMETRY SimetriaDuas
ACTION_CONSTRAINT Limite
INVARIANTS UmaCopia Convergem PublicaConfere
PROPERTIES ConfirmadaFica
